----------------------------- MODULE DaemonLock -----------------------------
(***************************************************************************)
(* The lock that keeps a second daemon from starting (src/lock.rs) and the *)
(* commands that look at it from other processes (src/daemon.rs): `run`,   *)
(* `start`, `stop`, and the status probe the TUI repeats.                  *)
(*                                                                         *)
(* The lock is a flock on a file that is never removed; the file holds the *)
(* pid of the last daemon that acquired it. Every process may be delayed   *)
(* between two system calls. Process ids are reused: the pid of a process  *)
(* that is gone may be given to a new daemon or to an unrelated process.   *)
(***************************************************************************)
EXTENDS Naturals

CONSTANTS
    Daemons,    \* daemon processes started in one behaviour
    Probes,     \* processes that call status() or signal_stop()
    Pids,       \* process ids the daemons and strangers get
    Nobody,     \* no process holds the lock
    NoPid       \* the lock file is empty

ASSUME LockAssumption ==
    /\ Daemons \cap Probes = {}
    /\ Nobody \notin Daemons \cup Probes
    /\ NoPid \notin Pids

VARIABLES
    exists,     \* the lock file has been created
    contents,   \* the pid it holds
    holder,     \* the process that holds the flock
    daemon,     \* life of each daemon process
    pid,        \* pid of each daemon
    parent,     \* the `start` command waiting for each daemon
    strangers,  \* pids of unrelated processes
    probe,      \* each probe: pc, command, pid read, answer
    witness     \* history: the daemon that has been running since the probe
                \* began

vars == <<exists, contents, holder, daemon, pid, parent, strangers, probe,
          witness>>

\* The daemon is in acquire_lock with the lock, or past it.
Inside(d) == daemon[d] \in {"locked", "emptied", "running"}
Alive(d)  == daemon[d] = "spawned" \/ Inside(d)

\* A child that exited keeps its pid until its parent has seen the exit.
Zombie(d) == daemon[d] \in {"refused", "dead"}
             /\ parent[d] \in {"waiting", "reading"}

InUse(n) ==
    n \in strangers \/ \E d \in Daemons : pid[d] = n /\ (Alive(d) \/ Zombie(d))

Init ==
    /\ exists = FALSE /\ contents = NoPid /\ holder = Nobody
    /\ daemon = [d \in Daemons |-> "unborn"]
    /\ pid = [d \in Daemons |-> NoPid]
    /\ parent = [d \in Daemons |-> "none"]
    /\ strangers = {}
    /\ probe = [c \in Probes |-> [pc |-> "idle", cmd |-> "status",
                                  read |-> NoPid, answer |-> "none"]]
    /\ witness = [c \in Probes |-> Nobody]

-----------------------------------------------------------------------------
(* A daemon. *)

\* `smstatus run`, or the child of `smstatus start`.
Launch(d) ==
    /\ daemon[d] = "unborn"
    /\ \E n \in Pids : ~InUse(n) /\ pid' = [pid EXCEPT ![d] = n]
    /\ \E p \in {"none", "waiting"} : parent' = [parent EXCEPT ![d] = p]
    /\ daemon' = [daemon EXCEPT ![d] = "spawned"]
    /\ UNCHANGED <<exists, contents, holder, strangers, probe, witness>>

\* Mutant of TryLock: the lock is dropped as soon as it was acquired.
TryLockAndDrop(d) ==
    /\ daemon[d] = "spawned"
    /\ exists' = TRUE
    /\ daemon' = [daemon EXCEPT ![d] =
                    IF holder = Nobody THEN "locked" ELSE "refused"]
    /\ UNCHANGED <<contents, holder, pid, parent, strangers, probe, witness>>

\* acquire_lock: flock without blocking. A refused daemon exits with
\* EXIT_ALREADY_RUNNING.
TryLock(d) ==
    /\ daemon[d] = "spawned"
    /\ exists' = TRUE
    /\ IF holder = Nobody
       THEN /\ holder' = d
            /\ daemon' = [daemon EXCEPT ![d] = "locked"]
       ELSE /\ daemon' = [daemon EXCEPT ![d] = "refused"]
            /\ UNCHANGED holder
    /\ UNCHANGED <<contents, pid, parent, strangers, probe, witness>>

Truncate(d) ==
    /\ daemon[d] = "locked"
    /\ contents' = NoPid
    /\ daemon' = [daemon EXCEPT ![d] = "emptied"]
    /\ UNCHANGED <<exists, holder, pid, parent, strangers, probe, witness>>

\* Mutant of WritePid: the daemon runs before it has written its pid.
WritePidLater(d) ==
    /\ daemon[d] = "emptied"
    /\ daemon' = [daemon EXCEPT ![d] = "running"]
    /\ UNCHANGED <<exists, contents, holder, pid, parent, strangers, probe,
                   witness>>

WritePid(d) ==
    /\ daemon[d] = "emptied"
    /\ contents' = pid[d]
    /\ daemon' = [daemon EXCEPT ![d] = "running"]
    /\ UNCHANGED <<exists, holder, pid, parent, strangers, probe, witness>>

\* d exits: the kernel drops its flock, and the file keeps its pid.
Gone(d) ==
    /\ daemon' = [daemon EXCEPT ![d] = "dead"]
    /\ holder' = IF holder = d THEN Nobody ELSE holder
    /\ witness' = [c \in Probes |-> IF witness[c] = d THEN Nobody
                                                      ELSE witness[c]]

\* An error of bar::run, a crash, or a signal from elsewhere.
Exit(d) ==
    /\ Alive(d)
    /\ Gone(d)
    /\ UNCHANGED <<exists, contents, pid, parent, strangers, probe>>

-----------------------------------------------------------------------------
(* The `start` command that waits for daemon d. *)

\* Mutants of CheckChild: the outcome is the raw exit status; the exit code
\* is not looked at.
CheckChildRawStatus(d) ==
    /\ parent[d] = "waiting"
    /\ parent' = [parent EXCEPT ![d] =
                    IF Alive(d) THEN "reading" ELSE daemon[d]]
    /\ UNCHANGED <<exists, contents, holder, daemon, pid, strangers, probe,
                   witness>>

CheckChildAnyExit(d) ==
    /\ parent[d] = "waiting"
    /\ parent' = [parent EXCEPT ![d] =
                    IF Alive(d) THEN "reading" ELSE "already"]
    /\ UNCHANGED <<exists, contents, holder, daemon, pid, strangers, probe,
                   witness>>

CheckChild(d) ==
    /\ parent[d] = "waiting"
    /\ parent' = [parent EXCEPT ![d] =
                    IF Alive(d) THEN "reading"
                    ELSE IF daemon[d] = "refused" THEN "already" ELSE "failed"]
    /\ UNCHANGED <<exists, contents, holder, daemon, pid, strangers, probe,
                   witness>>

\* Started once the file holds the child's pid.
ReadPidFile(d) ==
    /\ parent[d] = "reading"
    /\ parent' = [parent EXCEPT ![d] =
                    IF contents = pid[d] THEN "started" ELSE "waiting"]
    /\ UNCHANGED <<exists, contents, holder, daemon, pid, strangers, probe,
                   witness>>

\* Three seconds have passed since the child was spawned.
StartTimesOut(d) ==
    /\ parent[d] = "waiting"
    /\ parent' = [parent EXCEPT ![d] = "unconfirmed"]
    /\ UNCHANGED <<exists, contents, holder, daemon, pid, strangers, probe,
                   witness>>

-----------------------------------------------------------------------------
(* status(), and signal_stop() on top of it. *)

Answer(c, a) == probe' = [probe EXCEPT ![c].pc = "idle", ![c].answer = a]

BeginProbe(c, cmd) ==
    /\ probe[c].pc = "idle"
    /\ probe' = [probe EXCEPT ![c] = [pc |-> "lock", cmd |-> cmd,
                                      read |-> NoPid, answer |-> "none"]]
    /\ \E d \in Daemons \cup {Nobody} :
         /\ IF d = Nobody THEN \A e \in Daemons : daemon[e] # "running"
                          ELSE daemon[d] = "running"
         /\ witness' = [witness EXCEPT ![c] = d]
    /\ UNCHANGED <<exists, contents, holder, daemon, pid, parent, strangers>>

\* Mutant of ProbeLock: the probe goes through acquire_lock.
ProbeLockTruncates(c) ==
    /\ probe[c].pc = "lock"
    /\ IF ~exists
       THEN Answer(c, "stopped") /\ UNCHANGED <<holder, contents>>
       ELSE IF holder = Nobody
       THEN /\ holder' = c /\ contents' = NoPid
            /\ probe' = [probe EXCEPT ![c].pc = "unlock"]
       ELSE /\ probe' = [probe EXCEPT ![c].pc = "read"]
            /\ contents' = NoPid /\ UNCHANGED holder
    /\ UNCHANGED <<exists, daemon, pid, parent, strangers, witness>>

\* No lock file: stopped. Otherwise try the flock the daemon holds.
ProbeLock(c) ==
    /\ probe[c].pc = "lock"
    /\ IF ~exists
       THEN Answer(c, "stopped") /\ UNCHANGED holder
       ELSE IF holder = Nobody
       THEN holder' = c /\ probe' = [probe EXCEPT ![c].pc = "unlock"]
       ELSE probe' = [probe EXCEPT ![c].pc = "read"] /\ UNCHANGED holder
    /\ UNCHANGED <<exists, contents, daemon, pid, parent, strangers, witness>>

\* The flock was free, and is dropped: stopped.
ProbeUnlock(c) ==
    /\ probe[c].pc = "unlock"
    /\ holder' = Nobody
    /\ Answer(c, "stopped")
    /\ UNCHANGED <<exists, contents, daemon, pid, parent, strangers, witness>>

\* It was not: running, with the pid in the file, if there is one.
ProbeRead(c) ==
    /\ probe[c].pc = "read"
    /\ IF contents = NoPid THEN Answer(c, "unknown")
       ELSE IF probe[c].cmd = "stop"
       THEN probe' = [probe EXCEPT ![c].pc = "kill", ![c].read = contents]
       ELSE probe' = [probe EXCEPT ![c].pc = "idle", ![c].read = contents,
                                   ![c].answer = "running"]
    /\ UNCHANGED <<exists, contents, holder, daemon, pid, parent, strangers,
                   witness>>

\* kill(pid, SIGTERM), which no daemon handles; ESRCH is "not running".
Signal(c) ==
    LET n == probe[c].read IN
    /\ probe[c].pc = "kill"
    /\ Answer(c, IF InUse(n) THEN "signaled" ELSE "stopped")
    /\ IF \E d \in Daemons : pid[d] = n /\ Alive(d)
       THEN \E d \in Daemons : pid[d] = n /\ Alive(d) /\ Gone(d)
       ELSE UNCHANGED <<daemon, holder, witness>>
    /\ strangers' = strangers \ {n}
    /\ UNCHANGED <<exists, contents, pid, parent>>

-----------------------------------------------------------------------------
\* The rest of the machine starts and ends processes.
StrangerStarts(n) ==
    /\ ~InUse(n)
    /\ strangers' = strangers \cup {n}
    /\ UNCHANGED <<exists, contents, holder, daemon, pid, parent, probe,
                   witness>>

StrangerExits(n) ==
    /\ n \in strangers
    /\ strangers' = strangers \ {n}
    /\ UNCHANGED <<exists, contents, holder, daemon, pid, parent, probe,
                   witness>>

DaemonStep(d) ==
    \/ Launch(d) \/ TryLock(d) \/ Truncate(d) \/ WritePid(d) \/ Exit(d)
    \/ CheckChild(d) \/ ReadPidFile(d) \/ StartTimesOut(d)

ProbeStep(c) ==
    \/ \E cmd \in {"status", "stop"} : BeginProbe(c, cmd)
    \/ ProbeLock(c) \/ ProbeUnlock(c) \/ ProbeRead(c) \/ Signal(c)

Next ==
    \/ \E d \in Daemons : DaemonStep(d)
    \/ \E c \in Probes : ProbeStep(c)
    \/ \E n \in Pids : StrangerStarts(n) \/ StrangerExits(n)

Spec == Init /\ [][Next]_vars

-----------------------------------------------------------------------------
(* Properties. *)

TypeOK ==
    /\ exists \in BOOLEAN
    /\ contents \in Pids \cup {NoPid}
    /\ holder \in Daemons \cup Probes \cup {Nobody}
    /\ daemon \in [Daemons -> {"unborn", "spawned", "refused", "locked",
                               "emptied", "running", "dead"}]
    /\ pid \in [Daemons -> Pids \cup {NoPid}]
    /\ parent \in [Daemons -> {"none", "waiting", "reading", "started",
                               "already", "failed", "unconfirmed"}]
    /\ strangers \subseteq Pids
    /\ probe \in [Probes -> [pc : {"idle", "lock", "unlock", "read", "kill"},
                             cmd : {"status", "stop"},
                             read : Pids \cup {NoPid},
                             answer : {"none", "stopped", "unknown", "running",
                                       "signaled"}]]
    /\ witness \in [Probes -> Daemons \cup {Nobody}]

\* Two daemons never drive the bar, the control socket and the extension
\* processes side by side.
OneDaemon == \A d, e \in Daemons : Inside(d) /\ Inside(e) => d = e

\* No probe, refused daemon or `start` command ever disturbs the pid file of
\* a running daemon.
PidFileNamesRunning ==
    \A d \in Daemons : daemon[d] = "running" => contents = pid[d]

\* A status probe during which one daemon ran from beginning to end says so,
\* with its pid, and a stop signals that daemon or none.
ProbeIsRight ==
    \A c \in Probes :
      LET w == witness[c] IN
      w # Nobody =>
        /\ probe[c].answer \in {"none", "running"}
        /\ probe[c].read \in {NoPid, pid[w]}

\* A failed start is told apart from a refused one.
RefusalIsNotFailure ==
    \A d \in Daemons :
      /\ parent[d] = "already" => daemon[d] = "refused"
      /\ parent[d] = "failed"  => daemon[d] = "dead"

\* "smstatus is already running" (daemon.rs:138): a daemon exits with
\* EXIT_ALREADY_RUNNING only while another daemon is inside the lock.
AlreadyRunningIsTrue ==
    [][\A d \in Daemons : daemon[d] # "refused" /\ daemon'[d] = "refused"
          => \E e \in Daemons : Inside(e)]_vars

\* The abstract promise: the owner of the bar is the daemon inside the lock.
Owner == IF \E d \in Daemons : Inside(d)
         THEN CHOOSE d \in Daemons : Inside(d) ELSE Nobody

Bar == INSTANCE SingleInstance WITH
         owner <- Owner,
         finished <- {d \in Daemons : daemon[d] \in {"refused", "dead"}}

ImplementsSingleInstance == Bar!Spec

=============================================================================
