------------------------------ MODULE Install ------------------------------
(***************************************************************************)
(* Installing, replacing and removing one package (src/install.rs), by     *)
(* processes that share nothing but the file system: the command line, the *)
(* TUI, pin files (src/pin.rs) and catalogs. A package is a directory with *)
(* two files. An old package is renamed aside, the new one is renamed into *)
(* place or, when that fails, copied file by file, and on an error the old *)
(* one is renamed back.                                                    *)
(*                                                                         *)
(* The temporary directory where packages are staged may be on another     *)
(* file system than the packages: then no rename into place succeeds.      *)
(***************************************************************************)
EXTENDS Packages

CONSTANTS
    Installers,     \* processes that install
    Requests,       \* a function from names to requests
    Applications,   \* what they may be asked for: sequences of names, of
                    \* length one except for a pin file
    Manifests,      \* manifests and
    Payloads,       \* binaries in the archives of the requests
    MaxFailures,    \* bound on calls that fail, for lack of space say, and
    MaxShared,      \* the same, once a second installer has begun
    MaxCrashes,     \* bound on processes that are killed
    Missing         \* a file that is not there

\* The files of one package: both are of its version.
OnePackage == {f \in [manifest : Manifests, payload : Payloads] :
                 f.payload = f.manifest.version}

ASSUME InstallAssumption ==
    /\ Missing # Malformed
    /\ {Missing, Malformed} \cap Manifests = {}
    /\ {Missing, Malformed} \cap Payloads = {}
    /\ {"idle", "dest", "done"} \cap Installers = {}
    /\ MaxFailures \in Nat /\ MaxCrashes \in Nat

\* An archive that is placed holds one package. A manifest in it that does not
\* parse is one that is not safe: in place, Malformed is a file cut short.
ASSUME RequestsAssumption ==
    /\ Applications \subseteq Seq(DOMAIN Requests) \ {<<>>}
    /\ \A r \in DOMAIN Requests, k \in {"module", "extension"} :
         RequireFiles(Requests[r].archive, k) \in {Refused} \cup OnePackage

VARIABLES
    kind,       \* "module" or "extension"
    sameFs,     \* staging and packages are on one file system
    dest,       \* the directory <packages>/<name>
    backup,     \* backup[i]: the directory i has moved aside
    pc,         \* where each installer is
    queue,      \* requests each installer has to serve yet
    staged,     \* staged[i]: the two files i is about to place
    had,        \* had[i]: i has moved a package aside
    left,       \* left[i]: files i has to copy yet
    outcome,    \* result of each installer's last request
    remover,    \* the process that removes the package
    failures, crashes,
    alone,      \* history: nobody else has been active since i began
    before      \* history: dest when i, being alone, turned to its request

disk == <<dest, backup>>
vars == <<kind, sameFs, dest, backup, pc, queue, staged, had, left, outcome,
          remover, failures, crashes, alone, before>>
constants == <<kind, sameFs>>

Files  == {"manifest", "payload"}
Absent == [there |-> FALSE, manifest |-> Missing, payload |-> Missing,
           executable |-> FALSE]
Empty(d) == d.manifest = Missing /\ d.payload = Missing

Request(i) == Requests[Head(queue[i])]

Readable(d) == d.there /\ d.manifest # Missing /\ ManifestParses(d.manifest, kind)

Active(i) == pc[i] \notin {"idle", "done", "crashed"}
Removing  == remover \notin {"idle", "done"}

Init ==
    /\ kind \in {"module", "extension"} /\ sameFs \in BOOLEAN
    /\ dest = Absent
    /\ backup = [i \in Installers |-> Absent]
    /\ pc = [i \in Installers |-> "idle"]
    /\ queue = [i \in Installers |-> <<>>]
    /\ staged = [i \in Installers |-> Absent]
    /\ had = [i \in Installers |-> FALSE]
    /\ left = [i \in Installers |-> {}]
    /\ outcome = [i \in Installers |-> "none"]
    /\ remover = "idle"
    /\ failures = 0 /\ crashes = 0
    /\ alone = [i \in Installers |-> FALSE]
    /\ before = [i \in Installers |-> Absent]

-----------------------------------------------------------------------------
(* One installer. *)

Goto(i, where) == pc' = [pc EXCEPT ![i] = where]

\* An error ends the installer, with the requests it has not come to.
Fail(i) ==
    /\ Goto(i, "done")
    /\ outcome' = [outcome EXCEPT ![i] = "error"]
    /\ queue' = [queue EXCEPT ![i] = <<>>]
    /\ staged' = [staged EXCEPT ![i] = Absent]

\* The request is served.
Served(i, how) ==
    /\ outcome' = [outcome EXCEPT ![i] = how]
    /\ queue' = [queue EXCEPT ![i] = Tail(@)]
    /\ staged' = [staged EXCEPT ![i] = Absent]
    /\ Goto(i, IF Len(queue[i]) = 1 THEN "done" ELSE "next")

\* Something the file system refuses; every such error is one failure.
Refuse ==
    /\ failures < MaxFailures /\ failures' = failures + 1
    /\ (\E i, j \in Installers : i # j /\ pc[i] # "idle" /\ pc[j] # "idle")
          => failures < MaxShared

Begin(i) ==
    /\ pc[i] = "idle"
    /\ \E application \in Applications : queue' = [queue EXCEPT ![i] = application]
    /\ Goto(i, "next")
    /\ alone' = [j \in Installers |->
                    j = i /\ ~Removing /\ \A k \in Installers : ~Active(k)]
    /\ UNCHANGED <<constants, disk, staged, had, left, outcome, remover,
                   failures, crashes, before>>

\* install_module_into, install_extension_into up to place_package_dir. A
\* package whose manifest cannot be read is replaced. Staging is private.
Judge(i) ==
    /\ pc[i] = "next"
    /\ before' = [before EXCEPT ![i] = IF alone[i] THEN dest ELSE Absent]
    /\ had' = [had EXCEPT ![i] = FALSE]
    /\ IF ~Acceptable(Request(i), kind)
       THEN Fail(i) /\ UNCHANGED failures
       ELSE IF Readable(dest)
               /\ Decide(kind, dest.manifest.version,
                         JudgedManifest(Request(i), kind).version,
                         Request(i).force) = "skip"
       THEN Served(i, "skip") /\ UNCHANGED failures
       ELSE LET files == RequireFiles(Request(i).archive, kind)
            IN  \/ files = Refused /\ Fail(i) /\ UNCHANGED failures
                \/ files # Refused /\ Fail(i) /\ Refuse
                \/ /\ files # Refused
                   /\ Goto(i, "place")
                   /\ staged' = [staged EXCEPT ![i] = files]
                   /\ outcome' = [outcome EXCEPT ![i] =
                                    IF dest.there THEN "replace" ELSE "fresh"]
                   /\ UNCHANGED <<queue, failures>>
    /\ UNCHANGED <<constants, disk, left, remover, crashes, alone>>

\* place_package_dir: is there a package to move aside?
Look(i) ==
    /\ pc[i] = "place"
    /\ \/ Goto(i, IF dest.there THEN "aside" ELSE "move")
          /\ UNCHANGED <<queue, staged, outcome, failures>>
       \/ Refuse /\ Fail(i)
    /\ UNCHANGED <<constants, disk, had, left, remover, crashes, alone, before>>

\* Mutant of MoveAside: the old package is removed, as the new one is ready.
RemoveOld(i) ==
    /\ pc[i] = "aside"
    /\ dest' = Absent
    /\ Goto(i, "move")
    /\ UNCHANGED <<constants, backup, queue, staged, had, left, outcome,
                   remover, failures, crashes, alone, before>>

\* The rename fails, or the package is gone by now. A removal that has begun
\* goes on in the directory it opened. A backup that an earlier request has
\* left has another name and is not followed further.
MoveAside(i) ==
    /\ pc[i] = "aside"
    /\ \/ /\ dest.there
          /\ backup' = [backup EXCEPT ![i] = dest]
          /\ dest' = Absent
          /\ had' = [had EXCEPT ![i] = TRUE]
          /\ remover' = IF remover = "dest" THEN i ELSE remover
          /\ Goto(i, "move")
          /\ UNCHANGED <<queue, staged, outcome, failures>>
       \/ /\ Fail(i)
          /\ IF dest.there THEN Refuse ELSE UNCHANGED failures
          /\ UNCHANGED <<disk, had, remover>>
    /\ UNCHANGED <<constants, left, crashes, alone, before>>

\* move_or_copy_dir: a rename replaces nothing but an empty directory;
\* otherwise a copy begins in a directory that is created if need be.
Move(i) ==
    /\ pc[i] = "move"
    /\ IF sameFs /\ Empty(dest)
       THEN /\ dest' = [there |-> TRUE, manifest |-> staged[i].manifest,
                        payload |-> staged[i].payload, executable |-> FALSE]
            /\ Goto(i, "placed")
            /\ UNCHANGED <<left, failures>>
       ELSE \/ /\ dest' = [dest EXCEPT !.there = TRUE]
               /\ left' = [left EXCEPT ![i] = Files]
               /\ Goto(i, "copy")
               /\ UNCHANGED failures
            \/ Refuse /\ Goto(i, "failed") /\ UNCHANGED <<dest, left>>
    /\ UNCHANGED <<constants, backup, queue, staged, had, outcome, remover,
                   crashes, alone, before>>

\* Mutant of CopyFile: one file is taken for the directory.
CopyOne(i) ==
    /\ pc[i] = "copy" /\ dest.there
    /\ \E f \in left[i] : dest' = [dest EXCEPT ![f] = staged[i][f]]
    /\ left' = [left EXCEPT ![i] = {}]
    /\ Goto(i, "placed")
    /\ UNCHANGED <<constants, backup, queue, staged, had, outcome, remover,
                   failures, crashes, alone, before>>

\* One file of copy_dir_all, in any order. A copy that fails leaves a part of
\* the file.
CopyFile(i) ==
    /\ pc[i] = "copy"
    /\ \E f \in left[i] :
         \/ /\ dest.there
            /\ dest' = [dest EXCEPT ![f] = staged[i][f]]
            /\ left' = [left EXCEPT ![i] = @ \ {f}]
            /\ Goto(i, IF left[i] = {f} THEN "placed" ELSE "copy")
            /\ UNCHANGED failures
         \/ /\ dest.there /\ Refuse
            /\ dest' = [dest EXCEPT ![f] = Malformed]
            /\ left' = [left EXCEPT ![i] = {}]
            /\ Goto(i, "failed")
         \/ /\ ~dest.there
            /\ left' = [left EXCEPT ![i] = {}]
            /\ Goto(i, "failed") /\ UNCHANGED <<dest, failures>>
    /\ UNCHANGED <<constants, backup, queue, staged, had, outcome, remover,
                   crashes, alone, before>>

\* Mutant of Without: the directory goes before what is in it.
WithoutBoth(d, f) == [d EXCEPT !.there = FALSE, ![f] = Missing]

\* d without one of its files.
Without(d, f) ==
    IF f = "manifest" THEN [d EXCEPT !.manifest = Missing]
    ELSE [d EXCEPT !.payload = Missing, !.executable = FALSE]

\* The backup is removed, file by file and then the directory. A failure is
\* ignored and leaves the rest.
DropBackup(i) ==
    /\ pc[i] = "placed"
    /\ \/ /\ had[i]
          /\ \E f \in Files :
               /\ backup[i][f] # Missing
               /\ backup' = [backup EXCEPT ![i] = Without(@, f)]
          /\ UNCHANGED <<pc, failures>>
       \/ /\ had[i] => Empty(backup[i])
          /\ backup' = IF had[i] THEN [backup EXCEPT ![i] = Absent] ELSE backup
          /\ Goto(i, "finish")
          /\ UNCHANGED failures
       \/ had[i] /\ Refuse /\ Goto(i, "finish") /\ UNCHANGED backup
    /\ UNCHANGED <<constants, dest, queue, staged, had, left, outcome, remover,
                   crashes, alone, before>>

\* A module is announced to the daemon, whatever comes of that. An extension
\* is made executable, and its manifest is read again; if one of these fails
\* that is an error, and the package stays.
Finish(i) ==
    /\ pc[i] = "finish"
    /\ \/ kind = "module" /\ Served(i, outcome[i]) /\ UNCHANGED <<dest, failures>>
       \/ /\ kind = "extension" /\ dest.payload = Missing
          /\ Fail(i) /\ UNCHANGED <<dest, failures>>
       \/ /\ kind = "extension" /\ dest.payload # Missing
          /\ dest' = [dest EXCEPT !.executable = TRUE]
          /\ IF Readable(dest) THEN Served(i, outcome[i]) ELSE Fail(i)
          /\ UNCHANGED failures
       \/ /\ kind = "extension" /\ dest.payload # Missing
          /\ dest' \in {dest, [dest EXCEPT !.executable = TRUE]}
          /\ Refuse /\ Fail(i)
    /\ UNCHANGED <<constants, backup, had, left, remover, crashes, alone, before>>

\* Mutant of Discard: what was copied stays.
DiscardNothing(i) ==
    /\ pc[i] = "failed"
    /\ IF had[i] THEN Goto(i, "restore") /\ UNCHANGED <<queue, staged, outcome>>
                 ELSE Fail(i)
    /\ UNCHANGED <<constants, disk, had, left, remover, failures, crashes, alone,
                   before>>

\* place_package_dir after a failure: if a package was moved aside, what was
\* copied is removed, file by file and then the directory. A failure of that
\* is ignored and leaves the rest.
Discard(i) ==
    /\ pc[i] = "failed"
    /\ \/ ~had[i] /\ Fail(i) /\ UNCHANGED <<dest, remover, failures>>
       \/ /\ had[i]
          /\ \E f \in Files : dest[f] # Missing /\ dest' = Without(dest, f)
          /\ UNCHANGED <<pc, queue, staged, outcome, remover, failures>>
       \/ /\ had[i] /\ Empty(dest)
          /\ dest' = Absent
          /\ remover' = IF remover = "dest" THEN "done" ELSE remover
          /\ Goto(i, "restore")
          /\ UNCHANGED <<queue, staged, outcome, failures>>
       \/ /\ had[i] /\ Refuse
          /\ Goto(i, "restore")
          /\ UNCHANGED <<dest, queue, staged, outcome, remover>>
    /\ UNCHANGED <<constants, backup, had, left, crashes, alone, before>>

\* The backup is renamed back. Where that fails, as it does if there are files
\* in the place, it is copied over what is there.
Restore(i) ==
    /\ pc[i] = "restore"
    /\ \/ /\ Empty(dest)
          /\ dest' = backup[i]
          /\ backup' = [backup EXCEPT ![i] = Absent]
          /\ remover' = IF remover = i THEN "dest" ELSE remover
          /\ Fail(i)
          /\ UNCHANGED <<left, failures>>
       \/ /\ IF Empty(dest) THEN Refuse ELSE UNCHANGED failures
          /\ dest' = [dest EXCEPT !.there = TRUE]
          /\ left' = [left EXCEPT ![i] = {f \in Files : backup[i][f] # Missing}]
          /\ Goto(i, "recopy")
          /\ UNCHANGED <<backup, queue, staged, outcome, remover>>
    /\ UNCHANGED <<constants, had, crashes, alone, before>>

\* d with one file copied from e; the copy has the mode of the file.
Copied(d, e, f) ==
    IF f = "manifest" THEN [d EXCEPT !.manifest = e.manifest]
    ELSE [d EXCEPT !.payload = e.payload, !.executable = e.executable]

\* One file of that copy, whose errors are ignored. The backup stays.
CopyBack(i) ==
    /\ pc[i] = "recopy"
    /\ \/ /\ \E f \in left[i] :
               /\ dest.there /\ backup[i][f] # Missing
               /\ dest' = Copied(dest, backup[i], f)
               /\ left' = [left EXCEPT ![i] = @ \ {f}]
          /\ UNCHANGED <<pc, queue, staged, outcome, failures>>
       \/ /\ dest.there /\ Refuse
          /\ \E f \in left[i] : dest' = [dest EXCEPT ![f] = Malformed]
          /\ left' = [left EXCEPT ![i] = {}]
          /\ Fail(i)
       \/ /\ ~dest.there \/ \A f \in left[i] : backup[i][f] = Missing
          /\ left' = [left EXCEPT ![i] = {}]
          /\ Fail(i) /\ UNCHANGED <<dest, failures>>
    /\ UNCHANGED <<constants, backup, had, remover, crashes, alone, before>>

\* The process is killed; the file it was copying may be cut short.
Crash(i) ==
    /\ Active(i)
    /\ crashes < MaxCrashes /\ crashes' = crashes + 1
    /\ Goto(i, "crashed")
    /\ queue' = [queue EXCEPT ![i] = <<>>]
    /\ staged' = [staged EXCEPT ![i] = Absent]
    /\ left' = [left EXCEPT ![i] = {}]
    /\ \/ UNCHANGED dest
       \/ /\ pc[i] \in {"copy", "recopy"} /\ dest.there
          /\ \E f \in left[i] : dest' = [dest EXCEPT ![f] = Malformed]
    /\ UNCHANGED <<constants, backup, had, outcome, remover, failures, alone,
                   before>>

-----------------------------------------------------------------------------
(* remove_module_from, remove_extension_from: the files one by one, then the *)
(* directory. The daemon is not told.                                        *)

RemoveBegin ==
    /\ remover = "idle"
    /\ remover' = IF dest.there THEN "dest" ELSE "done"
    /\ alone' = [j \in Installers |-> FALSE]
    /\ UNCHANGED <<constants, disk, pc, queue, staged, had, left, outcome,
                   failures, crashes, before>>

RemoveFile ==
    /\ \E f \in Files :
         \/ /\ remover = "dest" /\ dest[f] # Missing
            /\ dest' = Without(dest, f) /\ UNCHANGED backup
         \/ /\ remover \in Installers /\ backup[remover][f] # Missing
            /\ backup' = [backup EXCEPT ![remover] = Without(@, f)]
            /\ UNCHANGED dest
    /\ UNCHANGED <<constants, pc, queue, staged, had, left, outcome, remover,
                   failures, crashes, alone, before>>

\* The directory is removed by its name; that fails if there are files in
\* the one that has the name now. A removal may also fail or be killed.
RemoveEnds ==
    /\ Removing
    /\ \/ /\ Empty(IF remover = "dest" THEN dest ELSE backup[remover])
          /\ dest' = IF Empty(dest) THEN Absent ELSE dest
          /\ UNCHANGED <<failures, crashes>>
       \/ Refuse /\ UNCHANGED <<dest, crashes>>
       \/ /\ crashes < MaxCrashes /\ crashes' = crashes + 1
          /\ UNCHANGED <<dest, failures>>
    /\ remover' = "done"
    /\ UNCHANGED <<constants, backup, pc, queue, staged, had, left, outcome,
                   alone, before>>

-----------------------------------------------------------------------------
Step(i) ==
    \/ Begin(i) \/ Judge(i) \/ Look(i) \/ MoveAside(i) \/ Move(i)
    \/ CopyFile(i) \/ DropBackup(i) \/ Finish(i) \/ Discard(i) \/ Restore(i)
    \/ CopyBack(i) \/ Crash(i)

Next == (\E i \in Installers : Step(i)) \/ RemoveBegin \/ RemoveFile \/ RemoveEnds

Spec == Init /\ [][Next]_vars

-----------------------------------------------------------------------------
(* Properties. *)

Directories ==
    {d \in [there : BOOLEAN, executable : BOOLEAN,
            manifest : {Missing, Malformed} \cup Manifests,
            payload : {Missing, Malformed} \cup Payloads] :
        ~d.there => Empty(d)}

\* The type invariant.
TypeOK ==
    /\ kind \in {"module", "extension"} /\ sameFs \in BOOLEAN
    /\ dest \in Directories /\ backup \in [Installers -> Directories]
    /\ pc \in [Installers -> {"idle", "next", "place", "aside", "move", "copy",
                              "placed", "finish", "failed", "restore", "recopy",
                              "done", "crashed"}]
    /\ staged \in [Installers -> {Absent} \cup OnePackage]
    /\ had \in [Installers -> BOOLEAN]
    /\ left \in [Installers -> SUBSET Files]
    /\ outcome \in [Installers -> {"none", "error", "skip", "fresh", "replace"}]
    /\ remover \in {"idle", "dest", "done"} \cup Installers
    /\ failures \in 0 .. MaxFailures /\ crashes \in 0 .. MaxCrashes
    /\ alone \in [Installers -> BOOLEAN]

\* d holds all of one package.
Whole(d) == /\ {d.manifest, d.payload} \cap {Missing, Malformed} = {}
            /\ d.payload = d.manifest.version

\* Whatever fails, and wherever the process is killed, the package that was
\* there is not lost as long as nobody else is at work: a whole package, old
\* or new, is in place, or the old one is in the backup (place_package_dir).
NothingLost ==
    \A i \in Installers :
        alone[i] /\ pc[i] # "next" /\ Whole(before[i]) =>
            \/ Whole(dest)
            \/ backup[i] = before[i]

\* The files of the package are in place.
NewInPlace(i) == /\ dest'.there
                 /\ dest'.manifest = staged[i].manifest
                 /\ dest'.payload = staged[i].payload

\* After a success all of the package is in place, an extension with the right
\* to execute it.
SuccessIsTrue(i) ==
    pc[i] = "finish" /\ outcome'[i] # "error" /\ pc'[i] \in {"next", "done"} =>
        NewInPlace(i) /\ (kind = "extension" => dest'.executable)

\* After an error the package that was there is as it was; a fresh package may
\* stay in part. There are two exceptions: the new package is in place, and
\* only its mode or its manifest was refused then (place_staged_extension);
\* and the undoing failed as well, twice if there was a whole package to bring
\* back, since the copy is the second attempt. Then the backup has it.
ErrorIsTrue(i) ==
    pc'[i] = "done" /\ outcome'[i] = "error" =>
        \/ ~before'[i].there
        \/ dest' = before'[i]
        \/ /\ pc[i] = "finish" /\ NewInPlace(i)
           /\ ~ManifestParses(staged[i].manifest, kind) \/ failures' > failures
        \/ /\ backup'[i] = before'[i]
           /\ failures' >= IF Whole(before'[i]) THEN 3 ELSE 2

\* What an installer reports is true, if it was alone.
ReportIsTrue ==
    [][\A i \in Installers :
        Active(i) /\ alone[i] => SuccessIsTrue(i) /\ ErrorIsTrue(i)]_vars

\* Two installers at work at once, without a failure or an error, with renames
\* that work and with none that found a package to replace: when all are done,
\* what is in place is one package, not a mixture of two (move_or_copy_dir
\* copies over a package that was placed after the look). A third installer, or
\* a third request that replaces the package meanwhile, does produce a mixture.
FreshInstallsAgree ==
    /\ sameFs /\ failures = 0 /\ crashes = 0 /\ remover = "idle"
    /\ \A i \in Installers : ~Active(i) /\ outcome[i] \notin {"replace", "error"}
    => dest = Absent \/ Whole(dest)
=============================================================================
