----------------------------- MODULE ConfigFiles -----------------------------
(***************************************************************************)
(* The files of the configuration (src/config/io.rs, presets.rs and        *)
(* src/preset.rs): config.toml, which names the active preset, and the     *)
(* presets. The processes are sessions of the TUI and runs of the command  *)
(* line. Each operation reads what it checks, then writes <path>.tmp and   *)
(* renames it, with no lock: every step below is a system call.            *)
(*                                                                         *)
(* The name of the temporary file is fixed, so two writers of one path     *)
(* share it, even once one of them has renamed it (open).                  *)
(***************************************************************************)
EXTENDS Presets

CONSTANTS
    Names, Default, Entries, Absent,    \* as in PresetStore
    Processes,
    Program,        \* the file config.toml
    Empty,          \* content of a file that was opened and not yet written
    Garbled,        \* what two writes to one file may leave
    MaxOperations,  \* bound on operations
    MaxCrashes      \* bound on processes that are killed

\* What a preset file holds when it is neither missing nor damaged.
Documents == [separator : {" | "}, modules : Seq(Entries), sections : {<<>>}]

ASSUME NamesAssumption ==
    /\ Default \in Names /\ Program \notin Names
    /\ Absent \notin {Empty, Garbled}
    /\ {Absent, Empty, Garbled} \cap Names = {}
    /\ \A c \in Names \cup {Absent, Empty, Garbled} : c \notin Documents

VARIABLES
    files,      \* content of config.toml (a name) and of the presets
    tmp,        \* content of <path>.tmp
    pc,         \* where each process is
    task,       \* its operation and the preset it is about
    source,     \* the preset named by config.toml when it was read
    out,        \* what it is about to write, and
    target,     \* where to
    open,       \* where the file it has open for writing is now
    seen,       \* files its operation has looked at
    operations, crashes,
    spoiled     \* history: operations have got in each other's way

local == <<pc, task, source, out, target, open, seen>>
vars  == <<files, tmp, local, operations, crashes, spoiled>>

Paths == Names \cup {Program}
Tasks == {"edit", "use", "save", "remove", "init", "force"}

Existing == {n \in Names : files[n] # Absent}

\* A document with a list of modules; read_to_string and parse succeed.
Loads(content) == content \notin {Absent, Empty, Garbled}

Edited(doc) ==
    ({WriteModuleAdd(doc, doc.modules, e) : e \in Entries}
        \cup {WriteModuleRemove(doc, doc.modules, k) : k \in DOMAIN doc.modules})
    \ {Refused}

Busy(p) == pc[p] # "idle"

Init ==
    /\ files \in {[f \in Paths |-> Absent],
                  [f \in Paths |-> IF f = Default THEN Skeleton
                                   ELSE IF f = Program THEN Default ELSE Absent]}
    /\ tmp = [f \in Paths |-> Absent]
    /\ pc = [p \in Processes |-> "idle"]
    /\ task = [p \in Processes |-> [does |-> "none", name |-> Default]]
    /\ source = [p \in Processes |-> Default]
    /\ out = [p \in Processes |-> Empty]
    /\ target = [p \in Processes |-> Program]
    /\ open = [p \in Processes |-> "none"]
    /\ seen = [p \in Processes |-> {}]
    /\ operations = 0 /\ crashes = 0 /\ spoiled = FALSE

-----------------------------------------------------------------------------
(* Steps the operations share. *)

Goto(p, where) == pc' = [pc EXCEPT ![p] = where]
Look(p, what)  == seen' = [seen EXCEPT ![p] = @ \cup what]

\* The end of an operation, with or without success. (What a finished
\* process remembers means nothing.)
Forget(p) ==
    /\ Goto(p, "idle")
    /\ task' = [task EXCEPT ![p] = [does |-> "none", name |-> Default]]
    /\ source' = [source EXCEPT ![p] = Default]
    /\ out' = [out EXCEPT ![p] = Empty]
    /\ target' = [target EXCEPT ![p] = Program]
    /\ seen' = [seen EXCEPT ![p] = {}]

Return(p) == Forget(p) /\ open' = [open EXCEPT ![p] = "none"]

WriteTo(p, path, content) ==
    /\ Goto(p, "open")
    /\ target' = [target EXCEPT ![p] = path]
    /\ out' = [out EXCEPT ![p] = content]

\* Has somebody else relied on a file that changes now?
Disturbs(p, path) == \E q \in Processes \ {p} : Busy(q) /\ path \in seen[q]

-----------------------------------------------------------------------------
(* What each operation checks. *)

Start(p) ==
    /\ pc[p] = "idle" /\ operations < MaxOperations
    /\ operations' = operations + 1
    /\ \E does \in Tasks, n \in Names :
        /\ does \in {"edit", "init", "force"} => n = Default
        /\ task' = [task EXCEPT ![p] = [does |-> does, name |-> n]]
        /\ Goto(p, IF does \in {"edit", "remove"} THEN "active" ELSE "check")
    /\ UNCHANGED <<files, tmp, source, out, target, open, seen, crashes, spoiled>>

\* use_preset_in and write_active_name: the preset exists and config.toml can
\* be read, is missing or is empty.
CheckUse(p) ==
    /\ pc[p] = "check" /\ task[p].does = "use"
    /\ IF task[p].name \in Existing /\ files[Program] # Garbled
       THEN /\ WriteTo(p, Program, task[p].name)
            /\ Look(p, {task[p].name})
            /\ UNCHANGED <<task, source, open>>
       ELSE Return(p)
    /\ UNCHANGED <<files, tmp, operations, crashes, spoiled>>

\* save_preset_in: the new preset does not exist.
CheckSave(p) ==
    /\ pc[p] = "check" /\ task[p].does = "save"
    /\ IF task[p].name \notin Existing
       THEN /\ Goto(p, "active") /\ Look(p, {task[p].name})
            /\ UNCHANGED <<task, source, out, target, open>>
       ELSE Return(p)
    /\ UNCHANGED <<files, tmp, operations, crashes, spoiled>>

\* create_default_preset.
CheckInit(p) ==
    /\ pc[p] = "check" /\ task[p].does \in {"init", "force"}
    /\ IF task[p].does = "force" \/ {files[Program], files[Default]} = {Absent}
       THEN /\ WriteTo(p, Default, Skeleton)
            /\ Look(p, IF task[p].does = "force" THEN {} ELSE {Program, Default})
            /\ UNCHANGED <<task, source, open>>
       ELSE Return(p)
    /\ UNCHANGED <<files, tmp, operations, crashes, spoiled>>

\* Mutant of ReadActive: the active preset can be removed.
ReadActiveOnly(p) ==
    /\ pc[p] = "active"
    /\ IF Loads(files[Program])
       THEN /\ source' = [source EXCEPT ![p] = files[Program]]
            /\ Look(p, {Program})
            /\ Goto(p, IF task[p].does = "remove" THEN "list" ELSE "read")
            /\ UNCHANGED <<task, out, target, open>>
       ELSE Return(p)
    /\ UNCHANGED <<files, tmp, operations, crashes, spoiled>>

\* read_active_name. The active preset is not removed.
ReadActive(p) ==
    /\ pc[p] = "active"
    /\ IF /\ Loads(files[Program])
          /\ task[p].does = "remove" => files[Program] # task[p].name
       THEN /\ source' = [source EXCEPT ![p] = files[Program]]
            /\ Look(p, {Program})
            /\ Goto(p, IF task[p].does = "remove" THEN "list" ELSE "read")
            /\ UNCHANGED <<task, out, target, open>>
       ELSE Return(p)
    /\ UNCHANGED <<files, tmp, operations, crashes, spoiled>>

\* An edit of the active preset reads and checks it (write_module_*).
ReadForEdit(p) ==
    /\ pc[p] = "read" /\ task[p].does = "edit"
    /\ \/ /\ Loads(files[source[p]])
          /\ \E doc \in Edited(files[source[p]]) : WriteTo(p, source[p], doc)
          /\ Look(p, {source[p]})
          /\ UNCHANGED <<task, source, open>>
       \/ Return(p)
    /\ UNCHANGED <<files, tmp, operations, crashes, spoiled>>

\* copy_preset copies whatever the file holds.
ReadForCopy(p) ==
    /\ pc[p] = "read" /\ task[p].does = "save"
    /\ IF source[p] \in Existing
       THEN /\ WriteTo(p, task[p].name, files[source[p]])
            /\ Look(p, {source[p]})
            /\ UNCHANGED <<task, source, open>>
       ELSE Return(p)
    /\ UNCHANGED <<files, tmp, operations, crashes, spoiled>>

\* remove_preset_in: the last preset stays.
ListNames(p) ==
    /\ pc[p] = "list"
    /\ IF Cardinality(Existing) > 1 /\ task[p].name \in Existing
       THEN /\ Goto(p, "unlink") /\ Look(p, Names)
            /\ UNCHANGED <<task, source, out, target, open>>
       ELSE Return(p)
    /\ UNCHANGED <<files, tmp, operations, crashes, spoiled>>

\* remove_preset_file.
Unlink(p) ==
    /\ pc[p] = "unlink"
    /\ files' = [files EXCEPT ![task[p].name] = Absent]
    /\ spoiled' = (spoiled \/ Disturbs(p, task[p].name))
    /\ Return(p)
    /\ UNCHANGED <<tmp, operations, crashes>>

-----------------------------------------------------------------------------
(* atomic_write. *)

\* Mutant of OpenTmp: the file itself is written.
OpenPath(p) ==
    /\ pc[p] = "open"
    /\ tmp' = [tmp EXCEPT ![target[p]] = out[p]]
    /\ files' = [files EXCEPT ![target[p]] = Empty]
    /\ Goto(p, "rename")
    /\ spoiled' = (spoiled \/ \E q \in Processes \ {p} :
                        pc[q] \in {"write", "rename"} /\ target[q] = target[p])
    /\ UNCHANGED <<open, task, source, out, target, seen, operations, crashes>>

\* The temporary file is created, or emptied for everybody who has it open.
OpenTmp(p) ==
    /\ pc[p] = "open"
    /\ tmp' = [tmp EXCEPT ![target[p]] = Empty]
    /\ open' = [open EXCEPT ![p] = "tmp"]
    /\ Goto(p, "write")
    /\ spoiled' = (spoiled \/ \E q \in Processes \ {p} :
                        pc[q] \in {"write", "rename"} /\ target[q] = target[p])
    /\ UNCHANGED <<files, task, source, out, target, seen, operations, crashes>>

\* A write over another one leaves the tail of the longer.
Overlaid(old, new) == IF old = Empty THEN {new} ELSE {new, Garbled}

Write(p) ==
    /\ pc[p] = "write"
    /\ LET f == target[p]
       IN  \/ /\ open[p] = "tmp"
              /\ \E c \in Overlaid(tmp[f], out[p]) : tmp' = [tmp EXCEPT ![f] = c]
              /\ UNCHANGED files
           \/ /\ open[p] = "path" /\ files[f] # Absent
              /\ \E c \in Overlaid(files[f], out[p]) : files' = [files EXCEPT ![f] = c]
              /\ UNCHANGED tmp
           \/ /\ open[p] = "gone" \/ (open[p] = "path" /\ files[f] = Absent)
              /\ UNCHANGED <<files, tmp>>
    /\ open' = [open EXCEPT ![p] = "none"]
    /\ Goto(p, "rename")
    /\ UNCHANGED <<task, source, out, target, seen, operations, crashes, spoiled>>

\* Whoever has the temporary file open goes on writing under its new name.
Moved(p, f) ==
    [q \in Processes |->
        IF q = p \/ target[q] # f THEN open[q]
        ELSE IF open[q] = "tmp" THEN "path"
        ELSE IF open[q] = "path" THEN "gone" ELSE open[q]]

\* It fails when somebody else has renamed the temporary file.
Rename(p) ==
    /\ pc[p] = "rename"
    /\ LET f == target[p]
       IN  IF tmp[f] = Absent
           THEN Return(p) /\ UNCHANGED <<files, tmp, spoiled>>
           ELSE /\ files' = [files EXCEPT ![f] = tmp[f]]
                /\ tmp' = [tmp EXCEPT ![f] = Absent]
                /\ open' = Moved(p, f)
                /\ spoiled' = (spoiled \/ Disturbs(p, f))
                /\ IF task[p].does \in {"init", "force"} /\ f = Default
                   THEN /\ Goto(p, "pointer") /\ Look(p, {Default})
                        /\ UNCHANGED <<task, source, out, target>>
                   ELSE Forget(p)
    /\ UNCHANGED <<operations, crashes>>

\* Mutant of CheckPointer: the two skeletons are mixed up.
CheckPointerSwapped(p) ==
    /\ pc[p] = "pointer"
    /\ IF files[Program] = Absent
       THEN /\ WriteTo(p, Program, Skeleton)
            /\ Look(p, {Program})
            /\ UNCHANGED <<task, source, open>>
       ELSE Return(p)
    /\ UNCHANGED <<files, tmp, operations, crashes, spoiled>>

\* The second half of create_default_preset.
CheckPointer(p) ==
    /\ pc[p] = "pointer"
    /\ IF files[Program] = Absent
       THEN /\ WriteTo(p, Program, Default)
            /\ Look(p, {Program})
            /\ UNCHANGED <<task, source, open>>
       ELSE Return(p)
    /\ UNCHANGED <<files, tmp, operations, crashes, spoiled>>

-----------------------------------------------------------------------------
\* A process is killed: its temporary file stays.
Crash(p) ==
    /\ Busy(p) /\ crashes < MaxCrashes
    /\ crashes' = crashes + 1
    /\ Return(p)
    /\ UNCHANGED <<files, tmp, operations, spoiled>>

Next ==
    \E p \in Processes :
        \/ Start(p) \/ CheckUse(p) \/ CheckSave(p) \/ CheckInit(p)
        \/ ReadActive(p) \/ ReadForEdit(p) \/ ReadForCopy(p) \/ ListNames(p)
        \/ Unlink(p) \/ OpenTmp(p) \/ Write(p) \/ Rename(p) \/ CheckPointer(p)
        \/ Crash(p)

Spec == Init /\ [][Next]_vars

-----------------------------------------------------------------------------
(* Properties. *)

\* Types; the step a process is at fits its operation, the file it writes and
\* what it writes there.
TypeOK ==
    /\ files[Program] \in Names \cup {Absent, Empty, Garbled}
    /\ tmp[Program] \in Names \cup {Absent, Empty, Garbled}
    /\ \A n \in Names : {files[n], tmp[n]} \cap Names = {}
    /\ \A p \in Processes :
        /\ task[p] \in [does : Tasks \cup {"none"}, name : Names]
        /\ pc[p] = "idle" <=> task[p].does = "none"
        /\ source[p] \in Names /\ target[p] \in Paths /\ seen[p] \subseteq Paths
        /\ open[p] \in {"none", "tmp", "path", "gone"}
        /\ open[p] # "none" <=> pc[p] = "write"
        /\ pc[p] \in {"open", "write", "rename"} =>
            out[p] \in Names <=> target[p] = Program
        /\ pc[p] \in {"active", "read", "list", "unlink"} =>
            task[p].does \in {"edit", "save", "remove"}

\* As long as no operation changes what another one has looked at and no two
\* write one file at a time, every operation, killed at any point, takes
\* effect as a whole or not at all, at its rename or unlink.
Store == INSTANCE PresetStore
            WITH presets <- [n \in Names |-> files[n]], active <- files[Program]

ImplementsPresetStore == Store!SSpec

\* Then config.toml never names a preset that is gone, and no file is cut.
ActiveExists ==
    ~spoiled => /\ files[Program] # Absent => files[Program] \in Existing
                /\ \A f \in Paths : files[f] \notin {Empty, Garbled}
=============================================================================
