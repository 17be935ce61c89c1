------------------------------- MODULE LogFile -------------------------------
(***************************************************************************)
(* The log file (src/logging.rs), which the daemon, the TUI and the        *)
(* command line share. A line is appended, and old lines are pruned when a *)
(* process starts or its retention changes, under an exclusive flock on    *)
(* the file itself. Pruning reads the file, empties it and writes back     *)
(* what it keeps. The TUI reads without the lock (LogView).                *)
(***************************************************************************)
EXTENDS Filter, SequencesExt, FiniteSetsExt

CONSTANTS
    Loggers,        \* processes
    Levels,         \* levels a line can have
    Retentions,     \* values of log_days
    NoLogger,       \* nobody holds the lock
    MaxLines,       \* bound on lines that are logged
    MaxDay,         \* bound on the days that pass
    MaxPrunes       \* bound on starts and on changes of the retention

ASSUME LogAssumption ==
    /\ Retentions \cup {MaxLines, MaxDay} \subseteq Nat
    /\ NoLogger \notin Loggers

VARIABLES
    file,       \* the lines
    ended,      \* the last line has its newline
    lock,       \* who holds the flock
    pc,         \* where each process is
    retain,     \* retain_days of each process
    kept,       \* what a pruning process writes back
    today,
    prunes,
    logged,     \* history: all lines
    cutoff,     \* history: the latest cutoff of a pruning
    hurt        \* history: a process was killed between two writes

fileVars == <<file, ended, lock, pc, retain, kept, today, prunes,
              logged, cutoff, hurt>>

Line == [id : 1 .. MaxLines, day : 0 .. MaxDay, level : Levels]

Since(oldest) == {l \in Line : l.day >= oldest}

FileInit ==
    /\ file = <<>> /\ ended = TRUE /\ lock = NoLogger
    /\ pc = [p \in Loggers |-> "off"]
    /\ retain \in [Loggers -> Retentions]
    /\ kept = [p \in Loggers |-> <<>>]
    /\ today = 0 /\ prunes = 0
    /\ logged = {} /\ cutoff = -1 /\ hurt = FALSE

Goto(p, where) == pc' = [pc EXCEPT ![p] = where]

\* init.
Start(p) ==
    /\ pc[p] = "off" /\ prunes < MaxPrunes
    /\ Goto(p, "prune")
    /\ prunes' = prunes + 1
    /\ UNCHANGED <<file, ended, lock, retain, kept, today, logged, cutoff, hurt>>

\* set_retain_days, on a reload of the configuration.
SetRetention(p) ==
    /\ pc[p] = "ready" /\ prunes < MaxPrunes
    /\ \E days \in Retentions \ {retain[p]} : retain' = [retain EXCEPT ![p] = days]
    /\ Goto(p, "prune")
    /\ prunes' = prunes + 1
    /\ UNCHANGED <<file, ended, lock, kept, today, logged, cutoff, hurt>>

-----------------------------------------------------------------------------
(* append_locked: the text, then the newline. *)

AppendText(p) ==
    /\ pc[p] = "ready" /\ lock = NoLogger
    /\ Cardinality(logged) < MaxLines
    /\ \E level \in Levels :
        LET line == [id |-> Cardinality(logged) + 1, day |-> today, level |-> level]
        IN  /\ logged' = logged \cup {line}
            /\ file' = IF ended THEN Append(file, line) ELSE file
    /\ lock' = p
    /\ ended' = FALSE
    /\ Goto(p, "newline")
    /\ UNCHANGED <<retain, kept, today, prunes, cutoff, hurt>>

AppendNewline(p) ==
    /\ pc[p] = "newline"
    /\ ended' = TRUE /\ lock' = NoLogger
    /\ Goto(p, "ready")
    /\ UNCHANGED <<file, retain, kept, today, prunes, logged, cutoff, hurt>>

-----------------------------------------------------------------------------
(* prune_old_entries. *)

\* Mutant of ReadAll: the file is read before it is locked.
ReadUnlocked(p) ==
    /\ pc[p] = "prune"
    /\ LET oldest == today - retain[p]
       IN  /\ kept' = [kept EXCEPT ![p] = Only(file, Since(oldest))]
           /\ cutoff' = Max({cutoff, oldest})
    /\ Goto(p, "truncate")
    /\ UNCHANGED <<file, ended, lock, retain, today, prunes, logged, hurt>>

ReadAll(p) ==
    /\ pc[p] = "prune" /\ lock = NoLogger
    /\ LET oldest == today - retain[p]
       IN  /\ kept' = [kept EXCEPT ![p] = Only(file, Since(oldest))]
           /\ cutoff' = Max({cutoff, oldest})
    /\ lock' = p
    /\ Goto(p, "truncate")
    /\ UNCHANGED <<file, ended, retain, today, prunes, logged, hurt>>

TruncateLog(p) ==
    /\ pc[p] = "truncate"
    /\ file' = <<>> /\ ended' = TRUE
    /\ Goto(p, "rewrite")
    /\ UNCHANGED <<lock, retain, kept, today, prunes, logged, cutoff, hurt>>

Rewrite(p) ==
    /\ pc[p] = "rewrite"
    /\ file' = kept[p] /\ ended' = TRUE
    /\ kept' = [kept EXCEPT ![p] = <<>>]
    /\ lock' = NoLogger
    /\ Goto(p, "ready")
    /\ UNCHANGED <<retain, today, prunes, logged, cutoff, hurt>>

-----------------------------------------------------------------------------
\* A process ends, or is killed: the kernel drops its flock.
Crash(p) ==
    /\ pc[p] # "off"
    /\ hurt' = (hurt \/ pc[p] \in {"newline", "rewrite"})
    /\ lock' = IF lock = p THEN NoLogger ELSE lock
    /\ kept' = [kept EXCEPT ![p] = <<>>]
    /\ Goto(p, "off")
    /\ UNCHANGED <<file, ended, retain, today, prunes, logged, cutoff>>

Midnight ==
    /\ today < MaxDay
    /\ today' = today + 1
    /\ UNCHANGED <<file, ended, lock, pc, retain, kept, prunes, logged, cutoff, hurt>>

FileNext ==
    \/ \E p \in Loggers :
        \/ Start(p) \/ SetRetention(p) \/ AppendText(p) \/ AppendNewline(p)
        \/ ReadAll(p) \/ TruncateLog(p) \/ Rewrite(p) \/ Crash(p)
    \/ Midnight

-----------------------------------------------------------------------------
(* Properties. *)

\* Types; the lock is held exactly between the two ends of an append or a
\* pruning, by one process.
FileTypeOK ==
    /\ file \in Seq(Line) /\ logged \subseteq Line
    /\ ended \in BOOLEAN /\ hurt \in BOOLEAN
    /\ lock \in Loggers \cup {NoLogger}
    /\ pc \in [Loggers -> {"off", "ready", "newline", "prune", "truncate", "rewrite"}]
    /\ retain \in [Loggers -> Retentions]
    /\ kept \in [Loggers -> Seq(Line)]
    /\ today \in 0 .. MaxDay /\ cutoff \in Int
    /\ \A p \in Loggers : lock = p <=> pc[p] \in {"newline", "truncate", "rewrite"}

Rewriting == \E p \in Loggers : pc[p] = "rewrite"

\* Unless a process was killed between two of its writes, no line is lost that
\* every pruning so far had to keep, none comes twice and they stay in order:
\* appends and prunings of several processes do not undo each other.
LinesKept ==
    ~hurt /\ ~Rewriting =>
        /\ \A l \in logged : l \in Range(file) \/ l.day < cutoff
        /\ \A j, k \in DOMAIN file : j < k => file[j].id < file[k].id
=============================================================================
