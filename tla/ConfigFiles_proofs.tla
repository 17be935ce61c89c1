-------------------------- MODULE ConfigFiles_proofs --------------------------
(***************************************************************************)
(* Theorems about ConfigFiles, for any processes, presets, documents and   *)
(* kills: type correctness, and that the operations of processes that keep *)
(* out of each other's way take effect one at a time, as PresetStore says. *)
(*                                                                         *)
(* A step moves one process.  What it leaves of the others is in Others,   *)
(* what the shared steps Goto, Look, WriteTo and Return do to it in lemmas *)
(* of their own.                                                           *)
(***************************************************************************)
EXTENDS ConfigFiles, SequenceTheorems, TLAPS

Steps == {"idle", "check", "active", "read", "list", "unlink", "open", "write",
          "rename", "pointer"}
Writing == {"open", "write", "rename"}
Contents == Documents \cup {Absent, Empty, Garbled}

FileTypes ==
    /\ files \in [Paths -> Names \cup Contents]
    /\ tmp \in [Paths -> Names \cup Contents]
    /\ {files[Program], tmp[Program]} \subseteq Names \cup {Absent, Empty, Garbled}
    /\ \A n \in Names : files[n] \in Contents /\ tmp[n] \in Contents

LocalTypes ==
    /\ pc \in [Processes -> Steps]
    /\ task \in [Processes -> [does : Tasks \cup {"none"}, name : Names]]
    /\ source \in [Processes -> Names]
    /\ out \in [Processes -> Names \cup Contents]
    /\ target \in [Processes -> Paths]
    /\ open \in [Processes -> {"none", "tmp", "path", "gone"}]
    /\ seen \in [Processes -> SUBSET Paths]

\* The step a process is at fits its operation and what it writes where.
Fits(p) ==
    /\ pc[p] = "idle" <=> task[p].does = "none"
    /\ open[p] # "none" <=> pc[p] = "write"
    /\ pc[p] = "active" => task[p].does \in {"edit", "save", "remove"}
    /\ pc[p] = "read" => task[p].does \in {"edit", "save"}
    /\ pc[p] \in {"list", "unlink"} => task[p].does = "remove"
    /\ pc[p] = "pointer" => task[p].does \in {"init", "force"}
    /\ pc[p] \in Writing =>
         IF target[p] = Program THEN out[p] \in Names
                                ELSE out[p] \in Contents \ {Absent}

Types == FileTypes /\ LocalTypes /\ \A p \in Processes : Fits(p)

LEMMA NamesFacts ==
  /\ Program \in Paths /\ Default \in Paths /\ Names \subseteq Paths
  /\ Program \notin Names /\ Default \in Names
  /\ \A c \in Contents : c \notin Names
  /\ Empty \in Contents \ {Absent} /\ Absent \in Contents
  /\ Garbled \in Contents \ {Absent}
  /\ \A d \in Documents : d \in Contents /\ d \notin {Absent, Empty, Garbled}
  BY NamesAssumption DEF Contents, Paths

LEMMA SkeletonIsDocument == Skeleton \in Documents
  BY EmptySeq DEF Skeleton, Documents

\* An edit makes a document of a document.
LEMMA EditedIsDocument ==
  ASSUME NEW doc \in Documents, NEW new \in Edited(doc)
  PROVE  new \in Documents
<1>1. doc.modules \in Seq(Entries)
  BY DEF Documents
<1>2. ASSUME NEW s \in Seq(Entries) PROVE [doc EXCEPT !.modules = s] \in Documents
  BY DEF Documents
<1>3. CASE \E e \in Entries : new = WriteModuleAdd(doc, doc.modules, e)
  <2>1. PICK e \in Entries : new = WriteModuleAdd(doc, doc.modules, e)
    BY <1>3
  <2>2. new \in {Refused, [doc EXCEPT !.modules = Append(doc.modules, e)]}
    BY <2>1 DEF WriteModuleAdd
  <2>3. Append(doc.modules, e) \in Seq(Entries)
    BY <1>1, AppendProperties
  <2> QED BY <1>2, <2>2, <2>3 DEF Edited
<1>4. CASE \E k \in DOMAIN doc.modules :
             new = WriteModuleRemove(doc, doc.modules, k)
  <2>1. PICK k \in DOMAIN doc.modules :
          new = WriteModuleRemove(doc, doc.modules, k)
    BY <1>4
  <2>2. new \in {Refused, [doc EXCEPT !.modules = RemoveAt(doc.modules, k)]}
    BY <2>1 DEF WriteModuleRemove
  <2> DEFINE m == doc.modules
  <2>3. RemoveAt(m, k) \in Seq(Entries)
    <3>1. Len(m) \in Nat /\ k \in 1 .. Len(m)
      BY <1>1, LenProperties
    <3>2. SubSeq(m, 1, k - 1) \in Seq(Entries)
      BY <1>1, <3>1, SubSeqProperties
    <3>3. SubSeq(m, k + 1, Len(m)) \in Seq(Entries)
      BY <1>1, <3>1, SubSeqProperties
    <3> QED BY <3>2, <3>3, ConcatProperties DEF RemoveAt
  <2> QED BY <1>2, <2>2, <2>3 DEF Edited
<1> QED BY <1>3, <1>4 DEF Edited

-----------------------------------------------------------------------------
(* The shared steps. *)

LEMMA GotoMoves ==
  ASSUME LocalTypes, NEW p \in Processes, NEW w \in Steps, Goto(p, w)
  PROVE  /\ pc' \in [Processes -> Steps] /\ pc'[p] = w
         /\ \A q \in Processes \ {p} : pc'[q] = pc[q]
  BY DEF LocalTypes, Goto

LEMMA LookMoves ==
  ASSUME LocalTypes, NEW p \in Processes, NEW what \in SUBSET Paths,
         Look(p, what)
  PROVE  /\ seen' \in [Processes -> SUBSET Paths]
         /\ seen'[p] = seen[p] \cup what
         /\ \A q \in Processes \ {p} : seen'[q] = seen[q]
  BY DEF LocalTypes, Look

LEMMA WriteToMoves ==
  ASSUME LocalTypes, NEW p \in Processes, NEW path \in Paths,
         NEW content \in Names \cup Contents, WriteTo(p, path, content)
  PROVE  /\ pc' \in [Processes -> Steps] /\ pc'[p] = "open"
         /\ target' \in [Processes -> Paths] /\ target'[p] = path
         /\ out' \in [Processes -> Names \cup Contents] /\ out'[p] = content
         /\ \A q \in Processes \ {p} : /\ pc'[q] = pc[q]
                                       /\ target'[q] = target[q]
                                       /\ out'[q] = out[q]
<1>1. "open" \in Steps /\ Goto(p, "open")
  BY DEF Steps, WriteTo
<1> QED BY <1>1, GotoMoves DEF LocalTypes, WriteTo

\* What a step of p leaves of the other processes.
Stays(q) ==
    /\ pc'[q] = pc[q] /\ task'[q] = task[q] /\ source'[q] = source[q]
    /\ out'[q] = out[q] /\ target'[q] = target[q] /\ seen'[q] = seen[q]
Others(p) == \A q \in Processes \ {p} : Stays(q) /\ open'[q] = open[q]

LEMMA ForgetMoves ==
  ASSUME LocalTypes, NEW p \in Processes, Forget(p)
  PROVE  /\ open' \in [Processes -> {"none", "tmp", "path", "gone"}]
              => LocalTypes'
         /\ pc'[p] = "idle" /\ task'[p].does = "none"
         /\ \A q \in Processes \ {p} : Stays(q)
<1>1. "idle" \in Steps /\ Goto(p, "idle")
  BY DEF Steps, Forget
<1>2. pc' \in [Processes -> Steps] /\ pc'[p] = "idle"
      /\ \A q \in Processes \ {p} : pc'[q] = pc[q]
  BY <1>1, GotoMoves
<1>3. Default \in Names /\ Program \in Paths /\ Empty \in Contents
  BY NamesFacts
<1> QED BY <1>2, <1>3 DEF LocalTypes, Forget, Stays

LEMMA ReturnMoves ==
  ASSUME LocalTypes, NEW p \in Processes, Return(p)
  PROVE  /\ LocalTypes' /\ Others(p)
         /\ pc'[p] = "idle" /\ task'[p].does = "none" /\ open'[p] = "none"
<1>1. /\ open' \in [Processes -> {"none", "tmp", "path", "gone"}]
      /\ open'[p] = "none" /\ \A q \in Processes \ {p} : open'[q] = open[q]
  BY DEF LocalTypes, Return
<1> QED BY <1>1, ForgetMoves DEF Return, Others

-----------------------------------------------------------------------------
(* What the operations do before they write. *)

Idled(p) == pc'[p] = "idle" /\ task'[p].does = "none" /\ open'[p] = "none"

\* A step of p that touches no file.
Local(p) == LocalTypes' /\ Others(p) /\ UNCHANGED <<files, tmp, spoiled>>

LEMMA Refuses ==
  ASSUME Types, NEW p \in Processes, Return(p), UNCHANGED <<files, tmp, spoiled>>
  PROVE  Local(p) /\ Idled(p)
  BY ReturnMoves DEF Types, Local, Idled

\* p goes on to the step w, having looked at the files in what.
LEMMA GoesOn ==
  ASSUME Types, NEW p \in Processes, NEW w \in Steps, NEW what \in SUBSET Paths,
         Goto(p, w), Look(p, what), source' \in [Processes -> Names],
         \A q \in Processes \ {p} : source'[q] = source[q],
         UNCHANGED <<task, out, target, open, files, tmp, spoiled>>
  PROVE  Local(p) /\ pc'[p] = w /\ seen'[p] = seen[p] \cup what
<1>1. /\ pc' \in [Processes -> Steps] /\ pc'[p] = w
      /\ \A q \in Processes \ {p} : pc'[q] = pc[q]
  BY GotoMoves DEF Types
<1>2. /\ seen' \in [Processes -> SUBSET Paths] /\ seen'[p] = seen[p] \cup what
      /\ \A q \in Processes \ {p} : seen'[q] = seen[q]
  BY LookMoves DEF Types
<1> QED BY <1>1, <1>2 DEF Types, LocalTypes, Local, Others, Stays

\* p is about to write content, having looked at the files in what.
LEMMA WillWrite ==
  ASSUME Types, NEW p \in Processes, NEW path \in Paths,
         NEW content \in Names \cup Contents, NEW what \in SUBSET Paths,
         WriteTo(p, path, content), Look(p, what),
         UNCHANGED <<task, source, open, files, tmp, spoiled>>
  PROVE  /\ Local(p) /\ pc'[p] = "open" /\ target'[p] = path
         /\ out'[p] = content /\ seen'[p] = seen[p] \cup what
<1>1. /\ pc' \in [Processes -> Steps] /\ pc'[p] = "open"
      /\ target' \in [Processes -> Paths] /\ target'[p] = path
      /\ out' \in [Processes -> Names \cup Contents] /\ out'[p] = content
      /\ \A q \in Processes \ {p} : /\ pc'[q] = pc[q] /\ target'[q] = target[q]
                                    /\ out'[q] = out[q]
  BY WriteToMoves DEF Types
<1>2. /\ seen' \in [Processes -> SUBSET Paths] /\ seen'[p] = seen[p] \cup what
      /\ \A q \in Processes \ {p} : seen'[q] = seen[q]
  BY LookMoves DEF Types
<1> QED BY <1>1, <1>2 DEF Types, LocalTypes, Local, Others, Stays

LEMMA StartMoves ==
  ASSUME Types, NEW p \in Processes, Start(p)
  PROVE  /\ Local(p) /\ task'[p].does \in Tasks
         /\ pc'[p] = IF task'[p].does \in {"edit", "remove"} THEN "active"
                                                             ELSE "check"
         /\ UNCHANGED <<source, out, target, open, seen>> /\ pc[p] = "idle"
<1>1. PICK does \in Tasks, n \in Names :
        /\ task' = [task EXCEPT ![p] = [does |-> does, name |-> n]]
        /\ Goto(p, IF does \in {"edit", "remove"} THEN "active" ELSE "check")
  BY DEF Start
<1>2. /\ task' \in [Processes -> [does : Tasks \cup {"none"}, name : Names]]
      /\ task'[p].does = does
      /\ \A q \in Processes \ {p} : task'[q] = task[q]
  BY <1>1 DEF Types, LocalTypes
<1> DEFINE w == IF does \in {"edit", "remove"} THEN "active" ELSE "check"
<1>3. w \in Steps
  BY DEF Steps
<1>4. /\ pc' \in [Processes -> Steps] /\ pc'[p] = w
      /\ \A q \in Processes \ {p} : pc'[q] = pc[q]
  BY <1>1, <1>3, GotoMoves DEF Types
<1> QED
  BY <1>2, <1>4 DEF Start, Types, LocalTypes, Local, Others, Stays

LEMMA CheckUseMoves ==
  ASSUME Types, NEW p \in Processes, CheckUse(p)
  PROVE  /\ Local(p)
         /\ \/ Idled(p)
            \/ LET n == task[p].name IN
               /\ pc'[p] = "open" /\ target'[p] = Program /\ out'[p] = n
               /\ seen'[p] = seen[p] \cup {n} /\ n \in Existing
               /\ task[p].does = "use" /\ UNCHANGED <<task, source, open>>
<1> DEFINE n == task[p].name
<1>1. n \in Names /\ n \in Paths /\ Program \in Paths
  BY NamesFacts DEF Types, LocalTypes
<1>2. CASE n \in Existing /\ files[Program] # Garbled
  <2>1. /\ WriteTo(p, Program, n) /\ Look(p, {n}) /\ task[p].does = "use"
        /\ UNCHANGED <<task, source, open, files, tmp, spoiled>>
    BY <1>2 DEF CheckUse
  <2> QED BY <1>1, <1>2, <2>1, WillWrite
<1>3. CASE ~(n \in Existing /\ files[Program] # Garbled)
  BY <1>3, Refuses DEF CheckUse
<1> QED BY <1>2, <1>3

LEMMA CheckSaveMoves ==
  ASSUME Types, NEW p \in Processes, CheckSave(p)
  PROVE  /\ Local(p)
         /\ \/ Idled(p)
            \/ LET n == task[p].name IN
               /\ pc'[p] = "active" /\ seen'[p] = seen[p] \cup {n}
               /\ n \notin Existing /\ task[p].does = "save"
               /\ UNCHANGED <<task, source, out, target, open>>
<1> DEFINE n == task[p].name
<1>1. n \in Names /\ n \in Paths /\ "active" \in Steps
  BY NamesFacts DEF Types, LocalTypes, Steps
<1>2. CASE n \notin Existing
  <2>1. /\ Goto(p, "active") /\ Look(p, {n}) /\ task[p].does = "save"
        /\ UNCHANGED <<task, source, out, target, open, files, tmp, spoiled>>
    BY <1>2 DEF CheckSave
  <2>2. source' \in [Processes -> Names]
        /\ \A q \in Processes \ {p} : source'[q] = source[q]
    BY <2>1 DEF Types, LocalTypes
  <2> QED BY <1>1, <1>2, <2>1, <2>2, GoesOn
<1>3. CASE n \in Existing
  BY <1>3, Refuses DEF CheckSave
<1> QED BY <1>2, <1>3

LEMMA CheckInitMoves ==
  ASSUME Types, NEW p \in Processes, CheckInit(p)
  PROVE  /\ Local(p)
         /\ \/ Idled(p)
            \/ /\ pc'[p] = "open" /\ target'[p] = Default /\ out'[p] = Skeleton
               /\ task[p].does \in {"init", "force"}
               /\ UNCHANGED <<task, source, open>>
<1> DEFINE looks == IF task[p].does = "force" THEN {} ELSE {Program, Default}
           may   == \/ task[p].does = "force"
                    \/ {files[Program], files[Default]} = {Absent}
<1>1. /\ Skeleton \in Names \cup Contents /\ Default \in Paths
      /\ looks \in SUBSET Paths
  BY NamesFacts, SkeletonIsDocument
<1>2. CASE may
  <2>1. /\ WriteTo(p, Default, Skeleton) /\ Look(p, looks)
        /\ task[p].does \in {"init", "force"}
        /\ UNCHANGED <<task, source, open, files, tmp, spoiled>>
    BY <1>2 DEF CheckInit
  <2> QED BY <1>1, <2>1, WillWrite
<1>3. CASE ~may
  BY <1>3, Refuses DEF CheckInit
<1> QED BY <1>2, <1>3

LEMMA ReadActiveMoves ==
  ASSUME Types, NEW p \in Processes, ReadActive(p)
  PROVE  /\ Local(p)
         /\ \/ Idled(p)
            \/ /\ pc[p] = "active" /\ source'[p] = files[Program]
               /\ seen'[p] = seen[p] \cup {Program}
               /\ \/ pc'[p] = "list" /\ task[p].does = "remove"
                                     /\ files[Program] # task[p].name
                  \/ pc'[p] = "read" /\ task[p].does # "remove"
               /\ UNCHANGED <<task, out, target, open>>
<1> DEFINE w == IF task[p].does = "remove" THEN "list" ELSE "read"
           may == /\ Loads(files[Program])
                  /\ task[p].does = "remove" => files[Program] # task[p].name
<1>1. w \in Steps /\ {Program} \in SUBSET Paths
  BY NamesFacts DEF Steps
<1>2. CASE may
  <2>1. /\ source' = [source EXCEPT ![p] = files[Program]]
        /\ Look(p, {Program}) /\ Goto(p, w) /\ pc[p] = "active"
        /\ UNCHANGED <<task, out, target, open, files, tmp, spoiled>>
    BY <1>2 DEF ReadActive
  <2>2. files[Program] \in Names
    BY <1>2 DEF Types, FileTypes, Loads
  <2>3. /\ source' \in [Processes -> Names] /\ source'[p] = files[Program]
        /\ \A q \in Processes \ {p} : source'[q] = source[q]
    BY <2>1, <2>2 DEF Types, LocalTypes
  <2>4. Local(p) /\ pc'[p] = w /\ seen'[p] = seen[p] \cup {Program}
    BY <1>1, <2>1, <2>3, GoesOn
  <2> QED BY <1>2, <2>1, <2>3, <2>4
<1>3. CASE ~may
  BY <1>3, Refuses DEF ReadActive
<1> QED BY <1>2, <1>3

LEMMA ReadForEditMoves ==
  ASSUME Types, NEW p \in Processes, ReadForEdit(p)
  PROVE  /\ Local(p)
         /\ \/ Idled(p)
            \/ LET n == source[p] IN
               /\ pc[p] = "read" /\ pc'[p] = "open" /\ target'[p] = n
               /\ n \in Existing /\ files[n] \in Documents
               /\ out'[p] \in Edited(files[n])
               /\ seen'[p] = seen[p] \cup {n}
               /\ task[p].does = "edit" /\ UNCHANGED <<task, source, open>>
<1> DEFINE n == source[p]
<1>1. n \in Names /\ n \in Paths
  BY NamesFacts DEF Types, LocalTypes
<1>2. CASE Return(p)
  BY <1>2, Refuses DEF ReadForEdit
<1>3. CASE /\ Loads(files[n])
           /\ \E doc \in Edited(files[n]) : WriteTo(p, n, doc)
           /\ Look(p, {n}) /\ UNCHANGED <<task, source, open>>
  <2>1. PICK doc \in Edited(files[n]) : WriteTo(p, n, doc)
    BY <1>3
  <2>2. files[n] \in Documents /\ n \in Existing
    BY <1>1, <1>3 DEF Types, FileTypes, Loads, Contents, Existing
  <2>3. doc \in Names \cup Contents
    BY <2>2, EditedIsDocument, NamesFacts
  <2>4. /\ UNCHANGED <<files, tmp, spoiled>> /\ pc[p] = "read"
        /\ task[p].does = "edit"
    BY DEF ReadForEdit
  <2>5. /\ Local(p) /\ pc'[p] = "open" /\ target'[p] = n
        /\ out'[p] = doc /\ seen'[p] = seen[p] \cup {n}
    BY <1>1, <1>3, <2>1, <2>3, <2>4, WillWrite
  <2> QED BY <1>3, <2>2, <2>4, <2>5
<1> QED BY <1>2, <1>3 DEF ReadForEdit

LEMMA ReadForCopyMoves ==
  ASSUME Types, NEW p \in Processes, ReadForCopy(p)
  PROVE  /\ Local(p)
         /\ \/ Idled(p)
            \/ LET n == source[p] IN
               /\ pc[p] = "read" /\ pc'[p] = "open"
               /\ target'[p] = task[p].name
               /\ n \in Existing /\ out'[p] = files[n]
               /\ seen'[p] = seen[p] \cup {n}
               /\ task[p].does = "save" /\ UNCHANGED <<task, source, open>>
<1> DEFINE n == source[p]
<1>1. /\ n \in Names /\ n \in Paths /\ task[p].name \in Paths
      /\ files[n] \in Names \cup Contents
  BY NamesFacts DEF Types, LocalTypes, FileTypes
<1>2. CASE n \in Existing
  <2>1. /\ WriteTo(p, task[p].name, files[n]) /\ Look(p, {n})
        /\ UNCHANGED <<task, source, open, files, tmp, spoiled>>
        /\ pc[p] = "read" /\ task[p].does = "save"
    BY <1>2 DEF ReadForCopy
  <2> QED BY <1>1, <1>2, <2>1, WillWrite
<1>3. CASE n \notin Existing
  BY <1>3, Refuses DEF ReadForCopy
<1> QED BY <1>2, <1>3

LEMMA ListNamesMoves ==
  ASSUME Types, NEW p \in Processes, ListNames(p)
  PROVE  /\ Local(p)
         /\ \/ Idled(p)
            \/ /\ pc[p] = "list" /\ pc'[p] = "unlink"
               /\ seen'[p] = seen[p] \cup Names
               /\ Cardinality(Existing) > 1 /\ task[p].name \in Existing
               /\ UNCHANGED <<task, source, out, target, open>>
<1> DEFINE may == Cardinality(Existing) > 1 /\ task[p].name \in Existing
<1>1. "unlink" \in Steps /\ Names \in SUBSET Paths
  BY NamesFacts DEF Steps
<1>2. CASE may
  <2>1. /\ Goto(p, "unlink") /\ Look(p, Names) /\ pc[p] = "list"
        /\ UNCHANGED <<task, source, out, target, open, files, tmp, spoiled>>
    BY <1>2 DEF ListNames
  <2>2. source' \in [Processes -> Names]
        /\ \A q \in Processes \ {p} : source'[q] = source[q]
    BY <2>1 DEF Types, LocalTypes
  <2> QED BY <1>1, <1>2, <2>1, <2>2, GoesOn
<1>3. CASE ~may
  BY <1>3, Refuses DEF ListNames
<1> QED BY <1>2, <1>3

LEMMA CheckPointerMoves ==
  ASSUME Types, NEW p \in Processes, CheckPointer(p)
  PROVE  /\ Local(p)
         /\ \/ Idled(p)
            \/ /\ pc[p] = "pointer" /\ pc'[p] = "open" /\ target'[p] = Program
               /\ out'[p] = Default /\ seen'[p] = seen[p] \cup {Program}
               /\ UNCHANGED <<task, source, open>>
<1>1. Default \in Names /\ Program \in Paths
  BY NamesFacts
<1>2. CASE files[Program] = Absent
  <2>1. /\ WriteTo(p, Program, Default) /\ Look(p, {Program})
        /\ UNCHANGED <<task, source, open, files, tmp, spoiled>>
        /\ pc[p] = "pointer"
    BY <1>2 DEF CheckPointer
  <2> QED BY <1>1, <2>1, WillWrite
<1>3. CASE files[Program] # Absent
  BY <1>3, Refuses DEF CheckPointer
<1> QED BY <1>2, <1>3

LEMMA CrashMoves ==
  ASSUME Types, NEW p \in Processes, Crash(p)
  PROVE  Local(p) /\ Idled(p)
  BY Refuses DEF Crash

-----------------------------------------------------------------------------
(* The steps that touch files. *)

LEMMA UnlinkMoves ==
  ASSUME Types, NEW p \in Processes, Unlink(p)
  PROVE  /\ LocalTypes' /\ Others(p) /\ Idled(p) /\ pc[p] = "unlink"
         /\ files' = [files EXCEPT ![task[p].name] = Absent] /\ tmp' = tmp
         /\ spoiled' = (spoiled \/ Disturbs(p, task[p].name))
  BY ReturnMoves DEF Unlink, Types, Idled

LEMMA OpenTmpMoves ==
  ASSUME Types, NEW p \in Processes, OpenTmp(p)
  PROVE  /\ LocalTypes' /\ Others(p) /\ files' = files
         /\ pc[p] = "open" /\ pc'[p] = "write" /\ open'[p] = "tmp"
         /\ tmp' = [tmp EXCEPT ![target[p]] = Empty]
         /\ UNCHANGED <<task, source, out, target, seen>>
         /\ spoiled' = (spoiled \/ \E q \in Processes \ {p} :
                          pc[q] \in {"write", "rename"} /\ target[q] = target[p])
<1>1. /\ pc' \in [Processes -> Steps] /\ pc'[p] = "write"
      /\ \A q \in Processes \ {p} : pc'[q] = pc[q]
  BY GotoMoves DEF OpenTmp, Types, Steps
<1>2. /\ open' \in [Processes -> {"none", "tmp", "path", "gone"}]
      /\ open'[p] = "tmp" /\ \A q \in Processes \ {p} : open'[q] = open[q]
  BY DEF OpenTmp, Types, LocalTypes
<1> QED BY <1>1, <1>2 DEF OpenTmp, Types, LocalTypes, Others, Stays

LEMMA WriteMoves ==
  ASSUME Types, NEW p \in Processes, Write(p)
  PROVE  /\ LocalTypes' /\ Others(p)
         /\ pc[p] = "write" /\ pc'[p] = "rename" /\ open'[p] = "none"
         /\ UNCHANGED <<task, source, out, target, seen, spoiled>>
<1>1. /\ pc' \in [Processes -> Steps] /\ pc'[p] = "rename"
      /\ \A q \in Processes \ {p} : pc'[q] = pc[q]
  BY GotoMoves DEF Write, Types, Steps
<1>2. /\ open' \in [Processes -> {"none", "tmp", "path", "gone"}]
      /\ open'[p] = "none" /\ \A q \in Processes \ {p} : open'[q] = open[q]
  BY DEF Write, Types, LocalTypes
<1> QED BY <1>1, <1>2 DEF Write, Types, LocalTypes, Others, Stays

LEMMA RenameMoves ==
  ASSUME Types, NEW p \in Processes, Rename(p)
  PROVE  LET f == target[p] IN
         \/ Local(p) /\ Idled(p) /\ pc[p] = "rename" /\ tmp[f] = Absent
         \/ /\ LocalTypes' /\ \A q \in Processes \ {p} : Stays(q)
            /\ open' = Moved(p, f) /\ pc[p] = "rename" /\ tmp[f] # Absent
            /\ files' = [files EXCEPT ![f] = tmp[f]]
            /\ tmp' = [tmp EXCEPT ![f] = Absent]
            /\ spoiled' = (spoiled \/ Disturbs(p, f))
            /\ \/ pc'[p] = "idle" /\ task'[p].does = "none"
               \/ /\ pc'[p] = "pointer" /\ task[p].does \in {"init", "force"}
                  /\ f = Default /\ seen'[p] = seen[p] \cup {Default}
                  /\ task' = task
<1> DEFINE f == target[p]
<1>1. CASE tmp[f] = Absent
  <2>1. Return(p) /\ UNCHANGED <<files, tmp, spoiled>> /\ pc[p] = "rename"
    BY <1>1 DEF Rename
  <2> QED BY <1>1, <2>1, Refuses
<1>2. CASE tmp[f] # Absent
  <2>1. /\ open' = Moved(p, f) /\ pc[p] = "rename"
        /\ files' = [files EXCEPT ![f] = tmp[f]]
        /\ tmp' = [tmp EXCEPT ![f] = Absent]
        /\ spoiled' = (spoiled \/ Disturbs(p, f))
    BY <1>2 DEF Rename
  <2>2. open' \in [Processes -> {"none", "tmp", "path", "gone"}]
    BY <2>1 DEF Moved, Types, LocalTypes
  <2>3. CASE task[p].does \in {"init", "force"} /\ f = Default
    <3>1. /\ Goto(p, "pointer") /\ Look(p, {Default})
          /\ UNCHANGED <<task, source, out, target>>
      BY <1>2, <2>3 DEF Rename
    <3>2. "pointer" \in Steps /\ {Default} \in SUBSET Paths
      BY NamesFacts DEF Steps
    <3>3. /\ pc' \in [Processes -> Steps] /\ pc'[p] = "pointer"
          /\ \A q \in Processes \ {p} : pc'[q] = pc[q]
      BY <3>1, <3>2, GotoMoves DEF Types
    <3>4. /\ seen' \in [Processes -> SUBSET Paths]
          /\ seen'[p] = seen[p] \cup {Default}
          /\ \A q \in Processes \ {p} : seen'[q] = seen[q]
      BY <3>1, <3>2, LookMoves DEF Types
    <3>5. LocalTypes' /\ \A q \in Processes \ {p} : Stays(q)
      BY <2>2, <3>1, <3>3, <3>4 DEF Types, LocalTypes, Stays
    <3> QED BY <1>2, <2>1, <2>3, <3>1, <3>3, <3>4, <3>5
  <2>4. CASE ~(task[p].does \in {"init", "force"} /\ f = Default)
    <3>1. Forget(p)
      BY <1>2, <2>4 DEF Rename
    <3> QED BY <1>2, <2>1, <2>2, <3>1, ForgetMoves DEF Types
  <2> QED BY <2>3, <2>4
<1> QED BY <1>1, <1>2

-----------------------------------------------------------------------------
(* Types. *)

LEMMA InitTypes == Init => Types
<1> SUFFICES ASSUME Init PROVE Types
  OBVIOUS
<1>1. /\ Skeleton \in Contents /\ Default \in Names /\ Program \in Paths
      /\ Absent \in Contents /\ Empty \in Contents /\ Program # Default
  BY NamesFacts, SkeletonIsDocument
<1>2. \/ files = [f \in Paths |-> Absent]
      \/ files = [f \in Paths |-> IF f = Default THEN Skeleton
                                  ELSE IF f = Program THEN Default ELSE Absent]
  BY DEF Init
<1>3. FileTypes
  <2>1. files \in [Paths -> Names \cup Contents]
    BY <1>1, <1>2
  <2>2. files[Program] \in Names \cup {Absent, Empty, Garbled}
    BY <1>1, <1>2
  <2>3. \A n \in Names : n \in Paths /\ n # Program
    BY NamesFacts
  <2>4. \A n \in Names : files[n] \in Contents
    BY <1>1, <1>2, <2>3
  <2>5. tmp = [f \in Paths |-> Absent]
    BY DEF Init
  <2> QED BY <1>1, <2>1, <2>2, <2>3, <2>4, <2>5 DEF FileTypes
<1>4. LocalTypes
  BY <1>1 DEF Init, LocalTypes, Steps
<1>5. \A p \in Processes : Fits(p)
  BY DEF Init, Fits, Writing
<1> QED BY <1>3, <1>4, <1>5 DEF Types

\* Files that are written get what their kind may hold.
LEMMA FileWritten ==
  ASSUME FileTypes, NEW f \in Paths, NEW c,
         IF f = Program THEN c \in Names \cup {Absent, Empty, Garbled}
                        ELSE c \in Contents,
         \/ files' = [files EXCEPT ![f] = c] /\ tmp' \in {tmp, [tmp EXCEPT ![f] = Absent]}
         \/ files' = files /\ tmp' = [tmp EXCEPT ![f] = c]
  PROVE  FileTypes'
<1>1. /\ Program \in Paths /\ Absent \in Contents
      /\ \A n \in Names : n \in Paths /\ n # Program
      /\ {Absent, Empty, Garbled} \subseteq Contents
  BY NamesFacts
<1> QED BY <1>1 DEF FileTypes

LEMMA FilesKept == ASSUME FileTypes, UNCHANGED <<files, tmp>> PROVE FileTypes'
  BY DEF FileTypes

\* The others still fit.
LEMMA TypesStep ==
  ASSUME Types, NEW p \in Processes, FileTypes', LocalTypes',
         \A q \in Processes \ {p} :
            Stays(q) /\ (open'[q] = "none" <=> open[q] = "none"),
         Fits(p)'
  PROVE  Types'
  BY DEF Types, Fits, Stays

LEMMA NextTypes == Types /\ [Next]_vars => Types'
<1> SUFFICES ASSUME Types, [Next]_vars PROVE Types'
  OBVIOUS
<1>1. ASSUME NEW p \in Processes, Local(p), Idled(p) PROVE Types'
  BY <1>1, TypesStep, FilesKept DEF Types, Fits, Writing, Local, Others, Idled
<1>2. ASSUME NEW p \in Processes, Local(p), Fits(p)' PROVE Types'
  BY <1>2, TypesStep, FilesKept DEF Types, Local, Others
<1>n. /\ Program \notin Names /\ Default \in Names /\ Program # Default
      /\ \A c \in Contents : c \notin Names
      /\ \A d \in Documents : d \in Contents \ {Absent}
  BY NamesFacts
<1>3. ASSUME NEW p \in Processes, Start(p) PROVE Types'
  <2>1. Fits(p)'
    BY <1>3, StartMoves DEF Types, Fits, Writing, Tasks
  <2> QED BY <1>2, <1>3, <2>1, StartMoves
<1>4. ASSUME NEW p \in Processes, CheckUse(p) PROVE Types'
  <2>1. CASE Idled(p)
    BY <1>1, <1>4, <2>1, CheckUseMoves
  <2>2. CASE ~Idled(p)
    <3>1. task[p].name \in Names /\ pc[p] = "check"
      BY <1>4 DEF Types, LocalTypes, CheckUse
    <3>2. Fits(p)'
      BY <1>4, <2>2, <3>1, CheckUseMoves DEF Types, Fits, Writing
    <3> QED BY <1>2, <1>4, <3>2, CheckUseMoves
  <2> QED BY <2>1, <2>2
<1>5. ASSUME NEW p \in Processes, CheckSave(p) PROVE Types'
  <2>1. CASE Idled(p)
    BY <1>1, <1>5, <2>1, CheckSaveMoves
  <2>2. CASE ~Idled(p)
    <3>1. Fits(p)'
      BY <1>5, <2>2, CheckSaveMoves DEF Types, Fits, Writing, CheckSave
    <3> QED BY <1>2, <1>5, <3>1, CheckSaveMoves
  <2> QED BY <2>1, <2>2
<1>6. ASSUME NEW p \in Processes, CheckInit(p) PROVE Types'
  <2>1. CASE Idled(p)
    BY <1>1, <1>6, <2>1, CheckInitMoves
  <2>2. CASE ~Idled(p)
    <3>1. Fits(p)'
      BY <1>6, <1>n, <2>2, CheckInitMoves, SkeletonIsDocument
         DEF Types, Fits, Writing, CheckInit
    <3> QED BY <1>2, <1>6, <3>1, CheckInitMoves
  <2> QED BY <2>1, <2>2
<1>7. ASSUME NEW p \in Processes, ReadActive(p) PROVE Types'
  <2>1. CASE Idled(p)
    BY <1>1, <1>7, <2>1, ReadActiveMoves
  <2>2. CASE ~Idled(p)
    <3>1. Fits(p)'
      BY <1>7, <2>2, ReadActiveMoves DEF Types, Fits, Writing
    <3> QED BY <1>2, <1>7, <3>1, ReadActiveMoves
  <2> QED BY <2>1, <2>2
<1>8. ASSUME NEW p \in Processes, ReadForEdit(p) PROVE Types'
  <2>1. CASE Idled(p)
    BY <1>1, <1>8, <2>1, ReadForEditMoves
  <2>2. CASE ~Idled(p)
    <3>1. source[p] \in Names /\ out'[p] \in Contents \ {Absent}
      BY <1>8, <1>n, <2>2, ReadForEditMoves, EditedIsDocument
         DEF Types, LocalTypes
    <3>2. Fits(p)'
      BY <1>8, <1>n, <2>2, <3>1, ReadForEditMoves DEF Types, Fits, Writing
    <3> QED BY <1>2, <1>8, <3>2, ReadForEditMoves
  <2> QED BY <2>1, <2>2
<1>9. ASSUME NEW p \in Processes, ReadForCopy(p) PROVE Types'
  <2>1. CASE Idled(p)
    BY <1>1, <1>9, <2>1, ReadForCopyMoves
  <2>2. CASE ~Idled(p)
    <3>1. /\ task[p].name \in Names /\ source[p] \in Names
          /\ out'[p] \in Contents \ {Absent}
      BY <1>9, <2>2, ReadForCopyMoves DEF Types, LocalTypes, FileTypes, Existing
    <3>2. Fits(p)'
      BY <1>9, <1>n, <2>2, <3>1, ReadForCopyMoves DEF Types, Fits, Writing
    <3> QED BY <1>2, <1>9, <3>2, ReadForCopyMoves
  <2> QED BY <2>1, <2>2
<1>10. ASSUME NEW p \in Processes, ListNames(p) PROVE Types'
  <2>1. CASE Idled(p)
    BY <1>1, <1>10, <2>1, ListNamesMoves
  <2>2. CASE ~Idled(p)
    <3>1. Fits(p)'
      BY <1>10, <2>2, ListNamesMoves DEF Types, Fits, Writing
    <3> QED BY <1>2, <1>10, <3>1, ListNamesMoves
  <2> QED BY <2>1, <2>2
<1>11. ASSUME NEW p \in Processes, CheckPointer(p) PROVE Types'
  <2>1. CASE Idled(p)
    BY <1>1, <1>11, <2>1, CheckPointerMoves
  <2>2. CASE ~Idled(p)
    <3>1. Fits(p)'
      BY <1>11, <1>n, <2>2, CheckPointerMoves DEF Types, Fits, Writing
    <3> QED BY <1>2, <1>11, <3>1, CheckPointerMoves
  <2> QED BY <2>1, <2>2
<1>12. ASSUME NEW p \in Processes, Crash(p) PROVE Types'
  BY <1>1, <1>12, CrashMoves
<1>13. ASSUME NEW p \in Processes, Unlink(p) PROVE Types'
  <2>1. task[p].name \in Names /\ task[p].name \in Paths
    BY NamesFacts DEF Types, LocalTypes
  <2>2. FileTypes'
    BY <1>13, <1>n, <2>1, UnlinkMoves, FileWritten, NamesFacts DEF Types
  <2>3. Fits(p)'
    BY <1>13, UnlinkMoves DEF Fits, Writing, Idled
  <2> QED BY <1>13, <2>2, <2>3, UnlinkMoves, TypesStep DEF Others
<1>14. ASSUME NEW p \in Processes, OpenTmp(p) PROVE Types'
  <2>1. target[p] \in Paths
    BY DEF Types, LocalTypes
  <2>2. FileTypes'
    BY <1>14, <2>1, OpenTmpMoves, FileWritten, NamesFacts DEF Types
  <2>3. Fits(p)'
    BY <1>14, OpenTmpMoves DEF Types, Fits, Writing
  <2> QED BY <1>14, <2>2, <2>3, OpenTmpMoves, TypesStep DEF Others
<1>15. ASSUME NEW p \in Processes, Write(p) PROVE Types'
  <2> DEFINE f == target[p]
  <2>1. f \in Paths
    BY DEF Types, LocalTypes
  <2>2. /\ pc[p] = "write"
        /\ IF f = Program THEN out[p] \in Names ELSE out[p] \in Contents
    BY <1>15, WriteMoves DEF Types, Fits, Writing
  <2>3. \A old, c : c \in Overlaid(old, out[p]) =>
           IF f = Program THEN c \in Names \cup {Absent, Empty, Garbled}
                          ELSE c \in Contents
    BY <2>2, NamesFacts DEF Overlaid
  <2>4. FileTypes'
    <3>1. CASE \E c \in Overlaid(tmp[f], out[p]) :
                 tmp' = [tmp EXCEPT ![f] = c] /\ files' = files
      <4>1. PICK c \in Overlaid(tmp[f], out[p]) :
                 tmp' = [tmp EXCEPT ![f] = c] /\ files' = files
        BY <3>1
      <4>2. IF f = Program THEN c \in Names \cup {Absent, Empty, Garbled}
                           ELSE c \in Contents
        BY <2>3, <4>1
      <4> QED BY <2>1, <4>1, <4>2, FileWritten DEF Types
    <3>2. CASE \E c \in Overlaid(files[f], out[p]) :
                 files' = [files EXCEPT ![f] = c] /\ tmp' = tmp
      <4>1. PICK c \in Overlaid(files[f], out[p]) :
                 files' = [files EXCEPT ![f] = c] /\ tmp' = tmp
        BY <3>2
      <4>2. IF f = Program THEN c \in Names \cup {Absent, Empty, Garbled}
                           ELSE c \in Contents
        BY <2>3, <4>1
      <4> QED BY <2>1, <4>1, <4>2, FileWritten DEF Types
    <3>3. CASE UNCHANGED <<files, tmp>>
      BY <3>3, FilesKept DEF Types
    <3> QED BY <1>15, <3>1, <3>2, <3>3 DEF Write
  <2>5. Fits(p)'
    BY <1>15, WriteMoves DEF Types, Fits, Writing
  <2> QED BY <1>15, <2>4, <2>5, WriteMoves, TypesStep DEF Others
<1>16. ASSUME NEW p \in Processes, Rename(p) PROVE Types'
  <2> DEFINE f == target[p]
  <2>1. CASE Local(p) /\ Idled(p)
    BY <1>1, <2>1
  <2>2. CASE ~(Local(p) /\ Idled(p))
    <3>1. /\ LocalTypes' /\ \A q \in Processes \ {p} : Stays(q)
          /\ open' = Moved(p, f) /\ pc[p] = "rename"
          /\ files' = [files EXCEPT ![f] = tmp[f]]
          /\ tmp' = [tmp EXCEPT ![f] = Absent]
          /\ \/ pc'[p] = "idle" /\ task'[p].does = "none"
             \/ /\ pc'[p] = "pointer" /\ task[p].does \in {"init", "force"}
                /\ task' = task
      BY <1>16, <2>2, RenameMoves
    <3>2. /\ f \in Paths
          /\ IF f = Program THEN tmp[f] \in Names \cup {Absent, Empty, Garbled}
                            ELSE tmp[f] \in Contents
      BY DEF Types, LocalTypes, FileTypes, Paths
    <3>3. FileTypes'
      BY <3>1, <3>2, FileWritten DEF Types
    <3>4. \A q \in Processes : open'[q] = "none" <=> open[q] = "none"
      BY <3>1 DEF Moved, Types, LocalTypes
    <3>5. Fits(p)'
      BY <3>1, <3>4 DEF Types, Fits, Writing
    <3> QED BY <3>1, <3>3, <3>4, <3>5, TypesStep
  <2> QED BY <2>1, <2>2
<1>17. CASE UNCHANGED vars
  BY <1>17 DEF vars, local, Types, FileTypes, LocalTypes, Fits
<1> QED
  BY <1>3, <1>4, <1>5, <1>6, <1>7, <1>8, <1>9, <1>10, <1>11, <1>12, <1>13,
     <1>14, <1>15, <1>16, <1>17 DEF Next

LEMMA TypesGiveTypeOK == Types => TypeOK
<1> SUFFICES ASSUME Types PROVE TypeOK
  OBVIOUS
<1>1. \A c \in Contents : c \notin Names
  BY NamesFacts
<1> QED
  BY <1>1 DEF Types, FileTypes, LocalTypes, Fits, Writing, TypeOK

\* Every reachable state of the files and of the processes that edit them is
\* well typed, and each process is at a step of its own operation, whatever
\* the others do to its files.
THEOREM TypeCorrect == Spec => []TypeOK
<1>1. Spec => []Types
  BY InitTypes, NextTypes, PTL DEF Spec
<1> QED BY <1>1, TypesGiveTypeOK, PTL

-----------------------------------------------------------------------------
(* What holds as long as the operations keep out of each other's way.      *)

ReadFrom(p) ==
    \/ pc[p] \in {"read", "list", "unlink"}
    \/ pc[p] \in Writing /\ task[p].does \in {"edit", "save"}

\* What p is about to rename to target[p] is what its operation promises.
Promised(p) ==
    \/ /\ target[p] = Program /\ task[p].does \in {"use", "init", "force"}
       /\ out[p] \in seen[p] \cap Existing
    \/ /\ target[p] = source[p] /\ task[p].does = "edit"
       /\ target[p] \in seen[p] \cap Existing
       /\ out[p] \in Edited(files[target[p]])
    \/ /\ target[p] = task[p].name /\ task[p].does = "save"
       /\ source[p] \in seen[p] \cap Existing /\ out[p] = files[source[p]]
    \/ /\ target[p] = Default /\ task[p].does \in {"init", "force"}
       /\ out[p] = Skeleton

\* What p has checked still holds: it speaks of files p has looked at.
Knows(p) ==
    /\ ReadFrom(p) => Program \in seen[p] /\ files[Program] = source[p]
    /\ pc[p] \in {"list", "unlink"} => source[p] # task[p].name
    /\ pc[p] = "unlink" => /\ Names \subseteq seen[p] /\ task[p].name \in Existing
                           /\ Cardinality(Existing) > 1
    /\ task[p].does = "save" =>
         pc[p] = "check" \/ task[p].name \in seen[p] \ Existing
    /\ pc[p] = "pointer" => Default \in seen[p] \cap Existing
    /\ pc[p] \in Writing => Promised(p)

Holds(p) == pc[p] \in {"write", "rename"}   \* p has made its temporary file

\* The temporary file p has made is its own and holds what p wrote.
OwnsTmp(p) ==
    /\ open[p] \in {"none", "tmp"}
    /\ pc[p] = "write" => tmp[target[p]] = Empty
    /\ pc[p] = "rename" => tmp[target[p]] = out[p]
    /\ \A q \in Processes \ {p} : Holds(p) /\ Holds(q) => target[p] # target[q]

\* What ActiveExists says of the files.
Clean ==
    /\ files[Program] # Absent => files[Program] \in Existing
    /\ \A f \in Paths : files[f] \notin {Empty, Garbled}

Sound == Clean /\ \A p \in Processes : Knows(p) /\ OwnsTmp(p)

Whole == Types /\ spoiled \in BOOLEAN /\ (~spoiled => Sound)

LEMMA InitWhole == Init => Whole
<1> SUFFICES ASSUME Init PROVE Whole
  OBVIOUS
<1>1. Types
  BY InitTypes
<1>2. \A p \in Processes : Knows(p) /\ OwnsTmp(p)
  BY DEF Init, Knows, ReadFrom, Promised, OwnsTmp, Holds, Writing
<1>3. Clean
  <2>1. /\ Absent \notin {Empty, Garbled} /\ Skeleton \notin {Absent, Empty, Garbled}
        /\ Default \notin {Absent, Empty, Garbled} /\ Default # Program
        /\ Default \in Names /\ Default \in Paths /\ Program \in Paths
    BY NamesFacts, NamesAssumption, SkeletonIsDocument
  <2>2. CASE files = [f \in Paths |-> Absent]
    BY <2>1, <2>2 DEF Clean
  <2>3. CASE files = [f \in Paths |-> IF f = Default THEN Skeleton
                                ELSE IF f = Program THEN Default ELSE Absent]
    BY <2>1, <2>3 DEF Clean, Existing
  <2> QED BY <2>2, <2>3 DEF Init
<1> QED BY <1>1, <1>2, <1>3 DEF Whole, Sound, Init

\* A step of another process that changes no file q has looked at.
LEMMA KnowsKept ==
  ASSUME Types, NEW q \in Processes, Knows(q), Stays(q),
         Busy(q) => \A f \in seen[q] : files'[f] = files[f]
  PROVE  Knows(q)'
<1>1. CASE pc[q] = "idle"
  <2>1. task[q].does = "none"
    BY <1>1 DEF Types, Fits
  <2> QED BY <1>1, <2>1 DEF Knows, ReadFrom, Stays, Writing
<1>2. CASE pc[q] # "idle"
  <2>1. \A f \in seen[q] : files'[f] = files[f]
    BY <1>2 DEF Busy
  <2>2. \A f \in seen[q] : f \in Existing' <=> f \in Existing
    BY <2>1 DEF Existing
  <2>3. Names \subseteq seen[q] => Existing' = Existing
    BY <2>1 DEF Existing
  <2>4. pc[q] \in Writing /\ Promised(q) => Promised(q)'
    BY <2>1, <2>2 DEF Promised, Stays
  <2>5. ReadFrom(q)' <=> ReadFrom(q)
    BY DEF ReadFrom, Stays
  <2> QED BY <2>1, <2>2, <2>3, <2>4, <2>5 DEF Knows, Stays
<1> QED BY <1>1, <1>2

\* A step of p that touches no file and makes none.
LEMMA LocalSound ==
  ASSUME Types, Sound, NEW p \in Processes, Local(p), Knows(p)',
         open'[p] = "none", ~Holds(p)'
  PROVE  Sound'
<1>1. Clean'
  BY DEF Sound, Clean, Local, Existing
<1>2. ASSUME NEW q \in Processes, q # p PROVE Knows(q)' /\ OwnsTmp(q)'
  <2>1. Stays(q) /\ open'[q] = open[q] /\ files' = files /\ tmp' = tmp
    BY <1>2 DEF Local, Others
  <2>2. Knows(q)'
    BY <1>2, <2>1, KnowsKept DEF Sound
  <2>3. \A r \in Processes : Holds(r)' => Holds(r) /\ r # p /\ target'[r] = target[r]
    BY DEF Local, Others, Stays, Holds
  <2>4. OwnsTmp(q)'
    BY <1>2, <2>1, <2>3 DEF Sound, OwnsTmp, Stays
  <2> QED BY <2>2, <2>4
<1>3. OwnsTmp(p)'
  BY DEF OwnsTmp, Holds
<1> QED BY <1>1, <1>2, <1>3 DEF Sound

LEMMA IdledSound ==
  ASSUME Types, Sound, NEW p \in Processes, Local(p), Idled(p)
  PROVE  Sound'
<1>1. Knows(p)' /\ ~Holds(p)'
  BY DEF Idled, Knows, ReadFrom, Writing, Holds
<1> QED BY <1>1, LocalSound DEF Idled

\* The steps before the temporary file is made.
LEMMA ChecksSound ==
  ASSUME Types, Sound, NEW p \in Processes,
         \/ Start(p) \/ CheckUse(p) \/ CheckSave(p) \/ CheckInit(p)
         \/ ReadActive(p) \/ ReadForEdit(p) \/ ReadForCopy(p) \/ ListNames(p)
         \/ CheckPointer(p)
  PROVE  Sound' /\ files' = files /\ spoiled' = spoiled
<1>0. /\ task[p].name \in Names /\ Default \in Names /\ source[p] \in Names
      /\ Fits(p) /\ Knows(p) /\ Program \notin Names
  BY NamesFacts DEF Types, LocalTypes, Sound
<1> DEFINE Done == Sound' /\ files' = files /\ spoiled' = spoiled
<1>a. ASSUME Local(p), Idled(p) PROVE Done
  BY <1>a, IdledSound DEF Local
<1>b. ASSUME Local(p), open'[p] = open[p], pc[p] # "write", Knows(p)', ~Holds(p)'
      PROVE  Done
  <2>1. open[p] = "none"
    BY <1>0, <1>b DEF Fits
  <2> QED BY <1>b, <2>1, LocalSound DEF Local
<1>1. CASE Start(p)
  <2>1. /\ Local(p) /\ task'[p].does \in Tasks /\ open' = open
        /\ pc'[p] = IF task'[p].does \in {"edit", "remove"} THEN "active"
                                                            ELSE "check"
        /\ pc[p] = "idle"
    BY <1>1, StartMoves
  <2>2. Knows(p)' /\ ~Holds(p)'
    BY <2>1 DEF Knows, ReadFrom, Writing, Holds
  <2> QED BY <1>b, <2>1, <2>2
<1>2. CASE CheckUse(p) /\ ~Idled(p)
  <2>1. /\ Local(p) /\ pc'[p] = "open" /\ target'[p] = Program
        /\ out'[p] = task[p].name /\ task[p].name \in seen'[p]
        /\ task[p].name \in Existing /\ task[p].does = "use"
        /\ UNCHANGED <<task, source, open>> /\ pc[p] = "check"
    BY <1>2, CheckUseMoves DEF CheckUse
  <2>2. Promised(p)'
    BY <2>1 DEF Promised, Existing, Local
  <2>3. Knows(p)' /\ ~Holds(p)'
    BY <2>1, <2>2 DEF Knows, ReadFrom, Writing, Holds
  <2> QED BY <1>b, <2>1, <2>3
<1>3. CASE CheckSave(p) /\ ~Idled(p)
  <2>1. /\ Local(p) /\ pc'[p] = "active" /\ task[p].name \in seen'[p]
        /\ task[p].name \notin Existing /\ task[p].does = "save"
        /\ UNCHANGED <<task, source, open>> /\ pc[p] = "check"
    BY <1>3, CheckSaveMoves DEF CheckSave
  <2>2. Knows(p)' /\ ~Holds(p)'
    BY <2>1 DEF Knows, ReadFrom, Writing, Holds, Existing, Local
  <2> QED BY <1>b, <2>1, <2>2
<1>4. CASE CheckInit(p) /\ ~Idled(p)
  <2>1. /\ Local(p) /\ pc'[p] = "open" /\ target'[p] = Default
        /\ out'[p] = Skeleton /\ task[p].does \in {"init", "force"}
        /\ UNCHANGED <<task, source, open>> /\ pc[p] = "check"
    BY <1>4, CheckInitMoves DEF CheckInit
  <2>2. Promised(p)'
    BY <2>1 DEF Promised
  <2>3. Knows(p)' /\ ~Holds(p)'
    BY <2>1, <2>2 DEF Knows, ReadFrom, Writing, Holds
  <2> QED BY <1>b, <2>1, <2>3
<1>5. CASE ReadActive(p) /\ ~Idled(p)
  <2>1. /\ Local(p) /\ pc[p] = "active" /\ source'[p] = files[Program]
        /\ seen'[p] = seen[p] \cup {Program}
        /\ \/ pc'[p] = "list" /\ task[p].does = "remove"
                              /\ files[Program] # task[p].name
           \/ pc'[p] = "read" /\ task[p].does # "remove"
        /\ UNCHANGED <<task, open>>
    BY <1>5, ReadActiveMoves
  <2>2. Knows(p)' /\ ~Holds(p)'
    BY <1>0, <2>1 DEF Knows, ReadFrom, Writing, Holds, Existing, Local
  <2> QED BY <1>b, <2>1, <2>2
<1>6. CASE ReadForEdit(p) /\ ~Idled(p)
  <2>1. /\ Local(p) /\ pc[p] = "read" /\ pc'[p] = "open"
        /\ target'[p] = source[p] /\ source[p] \in Existing
        /\ out'[p] \in Edited(files[source[p]])
        /\ seen'[p] = seen[p] \cup {source[p]}
        /\ task[p].does = "edit" /\ UNCHANGED <<task, source, open>>
    BY <1>6, ReadForEditMoves
  <2>2. Promised(p)'
    BY <2>1 DEF Promised, Existing, Local
  <2>3. Knows(p)' /\ ~Holds(p)'
    BY <1>0, <2>1, <2>2 DEF Knows, ReadFrom, Writing, Holds, Local
  <2> QED BY <1>b, <2>1, <2>3
<1>7. CASE ReadForCopy(p) /\ ~Idled(p)
  <2>1. /\ Local(p) /\ pc[p] = "read" /\ pc'[p] = "open"
        /\ target'[p] = task[p].name /\ source[p] \in Existing
        /\ out'[p] = files[source[p]]
        /\ seen'[p] = seen[p] \cup {source[p]}
        /\ task[p].does = "save" /\ UNCHANGED <<task, source, open>>
    BY <1>7, ReadForCopyMoves
  <2>2. Promised(p)'
    BY <2>1 DEF Promised, Existing, Local
  <2>3. Knows(p)' /\ ~Holds(p)'
    BY <1>0, <2>1, <2>2 DEF Knows, ReadFrom, Writing, Holds, Existing, Local
  <2> QED BY <1>b, <2>1, <2>3
<1>8. CASE ListNames(p) /\ ~Idled(p)
  <2>1. /\ Local(p) /\ pc[p] = "list" /\ pc'[p] = "unlink"
        /\ seen'[p] = seen[p] \cup Names
        /\ Cardinality(Existing) > 1 /\ task[p].name \in Existing
        /\ UNCHANGED <<task, source, open>>
    BY <1>8, ListNamesMoves
  <2>2. Existing' = Existing /\ files' = files
    BY <2>1 DEF Existing, Local
  <2>3. task[p].does = "remove"
    BY <1>0, <2>1 DEF Fits
  <2>4. Knows(p)' /\ ~Holds(p)'
    BY <1>0, <2>1, <2>2, <2>3 DEF Knows, ReadFrom, Writing, Holds
  <2> QED BY <1>b, <2>1, <2>4
<1>9. CASE CheckPointer(p) /\ ~Idled(p)
  <2>1. /\ Local(p) /\ pc[p] = "pointer" /\ pc'[p] = "open"
        /\ target'[p] = Program /\ out'[p] = Default
        /\ seen'[p] = seen[p] \cup {Program} /\ UNCHANGED <<task, source, open>>
    BY <1>9, CheckPointerMoves
  <2>2. task[p].does \in {"init", "force"} /\ Default \in seen[p] \cap Existing
    BY <1>0, <2>1 DEF Fits, Knows
  <2>3. Promised(p)'
    BY <2>1, <2>2 DEF Promised, Existing, Local
  <2>4. Knows(p)' /\ ~Holds(p)'
    BY <2>1, <2>2, <2>3 DEF Knows, ReadFrom, Writing, Holds
  <2> QED BY <1>b, <2>1, <2>4
<1>10. CASE Idled(p)
  <2>1. Local(p)
    BY StartMoves, CheckUseMoves, CheckSaveMoves, CheckInitMoves,
       ReadActiveMoves, ReadForEditMoves, ReadForCopyMoves, ListNamesMoves,
       CheckPointerMoves
  <2> QED BY <1>a, <1>10, <2>1
<1> QED
  BY <1>1, <1>2, <1>3, <1>4, <1>5, <1>6, <1>7, <1>8, <1>9, <1>10

-----------------------------------------------------------------------------
(* The steps that write. *)

LEMMA OpenTmpSound ==
  ASSUME Types, Sound, NEW p \in Processes, OpenTmp(p), ~spoiled'
  PROVE  Sound' /\ files' = files
<1>1. /\ Others(p) /\ files' = files /\ pc[p] = "open" /\ pc'[p] = "write"
      /\ open'[p] = "tmp" /\ tmp' = [tmp EXCEPT ![target[p]] = Empty]
      /\ UNCHANGED <<task, source, out, target, seen>>
      /\ ~\E q \in Processes \ {p} :
            pc[q] \in {"write", "rename"} /\ target[q] = target[p]
  BY OpenTmpMoves
<1>2. tmp'[target[p]] = Empty
  BY <1>1 DEF Types, LocalTypes, FileTypes
<1>3. Clean'
  BY <1>1 DEF Sound, Clean, Existing
<1>4. ASSUME NEW q \in Processes, q # p PROVE Knows(q)' /\ OwnsTmp(q)'
  <2>1. Stays(q) /\ open'[q] = open[q]
    BY <1>1, <1>4 DEF Others
  <2>2. Knows(q)'
    BY <1>1, <1>4, <2>1, KnowsKept DEF Sound
  <2>3. Holds(q)' => target[q] # target[p] /\ tmp'[target[q]] = tmp[target[q]]
    BY <1>1, <1>4, <2>1 DEF Holds, Stays, Types, LocalTypes, FileTypes
  <2>4. OwnsTmp(q)'
    BY <1>1, <1>4, <2>1, <2>3 DEF Sound, OwnsTmp, Holds, Others, Stays
  <2> QED BY <2>2, <2>4
<1>5. Knows(p)'
  <2>1. Promised(p)' /\ Knows(p)
    BY <1>1 DEF Sound, Knows, Promised, Writing, Existing
  <2> QED BY <1>1, <2>1 DEF Knows, ReadFrom, Writing, Existing
<1>6. OwnsTmp(p)'
  BY <1>1, <1>2 DEF OwnsTmp, Holds, Others, Stays
<1> QED BY <1>1, <1>3, <1>4, <1>5, <1>6 DEF Sound

LEMMA WriteSound ==
  ASSUME Types, Sound, NEW p \in Processes, Write(p)
  PROVE  Sound' /\ files' = files
<1> DEFINE f == target[p]
<1>1. /\ Others(p) /\ pc[p] = "write" /\ pc'[p] = "rename" /\ open'[p] = "none"
      /\ UNCHANGED <<task, source, out, target, seen>>
  BY WriteMoves
<1>2. open[p] = "tmp" /\ tmp[f] = Empty /\ f \in Paths
  BY <1>1 DEF Types, Fits, LocalTypes, Sound, OwnsTmp
<1>3. files' = files /\ tmp' = [tmp EXCEPT ![f] = out[p]]
  <2>1. Overlaid(tmp[f], out[p]) = {out[p]}
    BY <1>2 DEF Overlaid
  <2> QED BY <1>2, <2>1 DEF Write
<1>4. tmp'[f] = out[p]
  BY <1>2, <1>3 DEF Types, FileTypes
<1>5. Clean'
  BY <1>3 DEF Sound, Clean, Existing
<1>6. ASSUME NEW q \in Processes, q # p PROVE Knows(q)' /\ OwnsTmp(q)'
  <2>1. Stays(q) /\ open'[q] = open[q]
    BY <1>1, <1>6 DEF Others
  <2>2. Knows(q)'
    BY <1>3, <1>6, <2>1, KnowsKept DEF Sound
  <2>3. Holds(q)' => target[q] # f /\ tmp'[target[q]] = tmp[target[q]]
    BY <1>1, <1>3, <1>6, <2>1
       DEF Holds, Stays, Types, LocalTypes, FileTypes, Sound, OwnsTmp
  <2>4. OwnsTmp(q)'
    BY <1>1, <1>6, <2>1, <2>3 DEF Sound, OwnsTmp, Holds, Others, Stays
  <2> QED BY <2>2, <2>4
<1>7. Knows(p)'
  <2>1. Promised(p)' /\ Knows(p)
    BY <1>1, <1>3 DEF Sound, Knows, Promised, Writing, Existing
  <2> QED BY <1>1, <1>3, <2>1 DEF Knows, ReadFrom, Writing, Existing
<1>8. OwnsTmp(p)'
  <2>1. \A q \in Processes \ {p} : Holds(q)' => target'[q] # target'[p]
    BY <1>1 DEF Sound, OwnsTmp, Holds, Others, Stays
  <2> QED BY <1>1, <1>4, <2>1 DEF OwnsTmp, Holds
<1> QED BY <1>3, <1>5, <1>6, <1>7, <1>8 DEF Sound

LEMMA UnlinkSound ==
  ASSUME Types, Sound, NEW p \in Processes, Unlink(p), ~spoiled'
  PROVE  /\ Sound' /\ files' = [files EXCEPT ![task[p].name] = Absent]
         /\ task[p].name \in Existing /\ Cardinality(Existing) > 1
         /\ files[Program] \notin {task[p].name, Absent}
<1> DEFINE n == task[p].name
<1>1. /\ Others(p) /\ Idled(p) /\ pc[p] = "unlink" /\ tmp' = tmp
      /\ files' = [files EXCEPT ![n] = Absent] /\ ~Disturbs(p, n)
  BY UnlinkMoves
<1>2. /\ n \in Existing /\ Cardinality(Existing) > 1
      /\ files[Program] = source[p] /\ source[p] # n /\ source[p] \in Names
  BY <1>1 DEF Sound, Knows, ReadFrom, Types, LocalTypes
<1>3. /\ Absent \notin Names /\ Absent \notin {Empty, Garbled}
      /\ Program \notin Names
  BY NamesAssumption
<1>4. Clean'
  BY <1>1, <1>2, <1>3 DEF Sound, Clean, Existing, Types, FileTypes
<1>5. ASSUME NEW q \in Processes, q # p PROVE Knows(q)' /\ OwnsTmp(q)'
  <2>1. Stays(q) /\ open'[q] = open[q]
    BY <1>1, <1>5 DEF Others
  <2>2. Busy(q) => \A g \in seen[q] : files'[g] = files[g]
    BY <1>1, <1>5 DEF Disturbs, Types, FileTypes, LocalTypes
  <2>3. Knows(q)'
    BY <1>5, <2>1, <2>2, KnowsKept DEF Sound
  <2>4. OwnsTmp(q)'
    BY <1>1, <1>5, <2>1 DEF Sound, OwnsTmp, Holds, Others, Stays, Idled
  <2> QED BY <2>3, <2>4
<1>6. Knows(p)' /\ OwnsTmp(p)'
  BY <1>1 DEF Idled, Knows, ReadFrom, Writing, OwnsTmp, Holds
<1> QED BY <1>1, <1>2, <1>3, <1>4, <1>5, <1>6 DEF Sound

LEMMA RenameSound ==
  ASSUME Types, Sound, NEW p \in Processes, Rename(p), ~spoiled'
  PROVE  /\ Sound'
         /\ files' = [files EXCEPT ![target[p]] = out[p]] /\ Promised(p)
<1> DEFINE f == target[p]
<1>1. /\ f \in Paths /\ pc[p] = "rename" /\ Fits(p) /\ Knows(p) /\ OwnsTmp(p)
      /\ open[p] = "none" /\ tmp[f] = out[p] /\ Promised(p)
      /\ out[p] # Absent
  <2>1. pc[p] = "rename"
    BY DEF Rename
  <2>2. /\ f \in Paths /\ Fits(p) /\ Knows(p) /\ OwnsTmp(p)
        /\ \A c \in Names : c # Absent
    BY NamesAssumption DEF Types, LocalTypes, Sound
  <2> QED BY <2>1, <2>2 DEF Fits, Knows, OwnsTmp, Writing
<1>2. /\ \A q \in Processes \ {p} : Stays(q)
      /\ open' = Moved(p, f)
      /\ files' = [files EXCEPT ![f] = out[p]]
      /\ tmp' = [tmp EXCEPT ![f] = Absent]
      /\ ~Disturbs(p, f)
      /\ \/ pc'[p] = "idle" /\ task'[p].does = "none"
         \/ /\ pc'[p] = "pointer" /\ task[p].does \in {"init", "force"}
            /\ f = Default /\ seen'[p] = seen[p] \cup {Default}
            /\ task' = task
  BY <1>1, RenameMoves
<1>3. /\ Program \notin Names /\ Default \in Names
      /\ \A c \in Documents \cup Names : c \notin {Absent, Empty, Garbled}
  BY NamesAssumption, NamesFacts
<1>4. /\ out[p] \notin {Absent, Empty, Garbled}
      /\ f = Program => out[p] \in Existing
      /\ f # Program => f \in Names
  <2>1. CASE f = Program /\ out[p] \in Existing
    BY <1>3, <2>1 DEF Existing
  <2>2. CASE /\ f = source[p] /\ f \in Existing
             /\ out[p] \in Edited(files[f])
    <3>1. f \in Names /\ files[f] \in Documents
      BY <2>2 DEF Existing, Types, FileTypes, Contents, Sound, Clean, Paths
    <3>2. out[p] \in Documents
      BY <2>2, <3>1, EditedIsDocument
    <3> QED BY <1>3, <3>1, <3>2
  <2>3. CASE /\ f = task[p].name
             /\ source[p] \in Existing /\ out[p] = files[source[p]]
    <3>1. f \in Names /\ out[p] \in Documents
      BY <2>3 DEF Existing, Types, FileTypes, LocalTypes, Contents, Sound,
                  Clean, Paths
    <3> QED BY <1>3, <3>1
  <2>4. CASE f = Default /\ out[p] = Skeleton
    BY <1>3, <2>4, SkeletonIsDocument
  <2> QED BY <1>1, <2>1, <2>2, <2>3, <2>4 DEF Promised
<1>5. /\ files'[f] = out[p]
      /\ \A g \in Paths \ {f} : files'[g] = files[g] /\ tmp'[g] = tmp[g]
  BY <1>1, <1>2 DEF Types, FileTypes
<1>6. Clean'
  <2>1. Existing \subseteq Existing'
    BY <1>4, <1>5 DEF Existing, Paths
  <2>2. files'[Program] # Absent => files'[Program] \in Existing'
    <3>1. CASE f = Program
      BY <1>4, <1>5, <2>1, <3>1
    <3>2. CASE f # Program
      BY <1>5, <2>1, <3>2 DEF Sound, Clean, Paths
    <3> QED BY <3>1, <3>2
  <2>3. \A g \in Paths : files'[g] \notin {Empty, Garbled}
    BY <1>4, <1>5 DEF Sound, Clean
  <2> QED BY <2>2, <2>3 DEF Clean
<1>7. ASSUME NEW q \in Processes, q # p PROVE Knows(q)' /\ OwnsTmp(q)'
  <2>1. Stays(q) /\ OwnsTmp(q) /\ Knows(q) /\ Fits(q)
        /\ seen[q] \subseteq Paths /\ target[q] \in Paths
    BY <1>2, <1>7 DEF Sound, Types, LocalTypes
  <2>2. Busy(q) => \A g \in seen[q] : files'[g] = files[g]
    BY <1>2, <1>5, <1>7, <2>1 DEF Disturbs
  <2>3. Knows(q)'
    BY <1>7, <2>1, <2>2, KnowsKept
  <2>4. Holds(q) => target[q] # f
    BY <1>1, <1>7 DEF OwnsTmp, Holds
  <2>5. open'[q] = open[q]
    <3>1. CASE target[q] # f
      BY <1>2, <3>1 DEF Moved
    <3>2. CASE target[q] = f
      <4>1. open[q] = "none"
        BY <2>1, <2>4, <3>2 DEF Fits, Holds
      <4> QED BY <1>2, <3>2, <4>1 DEF Moved
    <3> QED BY <3>1, <3>2
  <2>6. Holds(q) => tmp'[target[q]] = tmp[target[q]]
    BY <1>5, <2>1, <2>4
  <2>7. \A r \in Processes : Holds(r)' => Holds(r) /\ target'[r] = target[r]
    BY <1>2 DEF Holds, Stays
  <2>8. OwnsTmp(q)'
    BY <2>1, <2>5, <2>6, <2>7 DEF OwnsTmp, Stays, Holds
  <2> QED BY <2>3, <2>8
<1>8. Knows(p)'
  <2>1. pc'[p] = "pointer" => Default \in Existing'
    BY <1>2, <1>3, <1>4, <1>5 DEF Existing
  <2> QED BY <1>2, <2>1 DEF Knows, ReadFrom, Writing
<1>9. OwnsTmp(p)'
  <2>1. open'[p] = "none"
    BY <1>1, <1>2 DEF Moved
  <2> QED BY <1>2, <2>1 DEF OwnsTmp, Holds
<1> QED BY <1>1, <1>2, <1>6, <1>7, <1>8, <1>9 DEF Sound

LEMMA SpoiledMoves ==
  ASSUME Types, spoiled \in BOOLEAN, NEW p \in Processes,
         \/ Unlink(p) \/ OpenTmp(p) \/ Write(p) \/ Rename(p) \/ Crash(p)
  PROVE  spoiled' \in BOOLEAN /\ (spoiled => spoiled')
  BY UnlinkMoves, OpenTmpMoves, WriteMoves, RenameMoves, CrashMoves DEF Local

\* A step with which nobody gets in anybody's way keeps Sound, and changes the
\* files, if at all, as the operation promises.
LEMMA NextSound ==
  ASSUME Types, Sound, NEW p \in Processes, ~spoiled',
         \/ Start(p) \/ CheckUse(p) \/ CheckSave(p) \/ CheckInit(p)
         \/ ReadActive(p) \/ ReadForEdit(p) \/ ReadForCopy(p) \/ ListNames(p)
         \/ Unlink(p) \/ OpenTmp(p) \/ Write(p) \/ Rename(p) \/ CheckPointer(p)
         \/ Crash(p)
  PROVE  /\ Sound'
         /\ files' = files \/ Unlink(p) \/ Rename(p)
  BY ChecksSound, OpenTmpSound, WriteSound, UnlinkSound, RenameSound,
     CrashMoves, IdledSound DEF Local

LEMMA NextWhole == Whole /\ [Next]_vars => Whole'
<1> SUFFICES ASSUME Whole, [Next]_vars PROVE Whole'
  OBVIOUS
<1>1. Types /\ Types'
  BY NextTypes DEF Whole
<1>2. CASE UNCHANGED vars
  <2>1. UNCHANGED <<files, tmp, pc, task, source, out, target, open, seen, spoiled>>
    BY <1>2 DEF vars, local
  <2>2. Sound => Sound'
    BY <2>1 DEF Sound, Clean, Existing, Knows, ReadFrom, Promised, OwnsTmp, Holds
  <2> QED BY <1>1, <2>1, <2>2 DEF Whole
<1>3. CASE Next
  <2>1. PICK p \in Processes :
        \/ Start(p) \/ CheckUse(p) \/ CheckSave(p) \/ CheckInit(p)
        \/ ReadActive(p) \/ ReadForEdit(p) \/ ReadForCopy(p) \/ ListNames(p)
        \/ Unlink(p) \/ OpenTmp(p) \/ Write(p) \/ Rename(p) \/ CheckPointer(p)
        \/ Crash(p)
    BY <1>3 DEF Next
  <2>2. spoiled' \in BOOLEAN /\ (spoiled => spoiled')
    <3>1. CASE Unlink(p) \/ OpenTmp(p) \/ Write(p) \/ Rename(p) \/ Crash(p)
      BY <1>1, <3>1, SpoiledMoves DEF Whole
    <3>2. CASE ~(Unlink(p) \/ OpenTmp(p) \/ Write(p) \/ Rename(p) \/ Crash(p))
      <4>1. spoiled' = spoiled
        BY <2>1, <3>2 DEF Start, CheckUse, CheckSave, CheckInit, ReadActive,
             ReadForEdit, ReadForCopy, ListNames, CheckPointer
      <4> QED BY <4>1 DEF Whole
    <3> QED BY <3>1, <3>2
  <2>3. ~spoiled' => Sound'
    BY <1>1, <2>1, <2>2, NextSound DEF Whole
  <2> QED BY <1>1, <2>2, <2>3 DEF Whole
<1> QED BY <1>2, <1>3

LEMMA SpecWhole == Spec => []Whole
  BY InitWhole, NextWhole, PTL DEF Spec

\* However many operations run, are killed or refuse, as long as none of them
\* changes a file another one has looked at and no two write one file at a
\* time, config.toml names a preset that exists and no file is ever cut.
THEOREM ActiveNamesAPreset == Spec => []ActiveExists
<1>1. Whole => ActiveExists
  BY DEF Whole, Sound, Clean, ActiveExists
<1> QED BY <1>1, SpecWhole, PTL

-----------------------------------------------------------------------------
(* The refinement of PresetStore. *)

LEMMA StoreNames ==
  /\ Store!Existing = Existing
  /\ Store!Skeleton = Skeleton
  /\ \A doc : Store!Edited(doc) = Edited(doc)
  /\ \A S : Store!Cardinality(S) = Cardinality(S)
<1>1. Store!Existing = Existing
  BY DEF Store!Existing, Existing
<1>2. Store!Skeleton = Skeleton
  BY Zenon DEF Store!Skeleton, Skeleton
<1>3. ASSUME NEW doc PROVE Store!Edited(doc) = Edited(doc)
  BY Zenon DEF Store!Edited, Edited, Store!WriteModuleAdd, WriteModuleAdd,
       Store!WriteModuleRemove, WriteModuleRemove, Store!Contains, Contains,
       Store!RemoveAt, RemoveAt
<1>4. ASSUME NEW S PROVE Store!Cardinality(S) = Cardinality(S)
  BY Zenon DEF Store!Cardinality, Cardinality
<1> QED BY <1>1, <1>2, <1>3, <1>4

LEMMA InitRefines == Init => Store!SInit
<1> SUFFICES ASSUME Init PROVE Store!SInit
  OBVIOUS
<1>1. Program \in Paths /\ Names \subseteq Paths /\ Default \in Names /\ Program # Default
      /\ Program \notin Names
  BY NamesFacts
<1>2. Skeleton # Absent
  BY SkeletonIsDocument, NamesFacts
<1> DEFINE presets == [n \in Names |-> files[n]]
<1>3. CASE files = [f \in Paths |-> Absent]
  <2>1. presets = [n \in Names |-> Absent] /\ files[Program] = Absent
    BY <1>1, <1>3
  <2> QED BY <1>1, <2>1 DEF Store!SInit, Init
<1>4. CASE files = [f \in Paths |-> IF f = Default THEN Skeleton
                                  ELSE IF f = Program THEN Default ELSE Absent]
  <2>1. /\ presets = [n \in Names |-> IF n = Default THEN Store!Skeleton ELSE Absent]
        /\ files[Program] = Default /\ presets[Default] # Absent
    BY <1>1, <1>2, <1>4, StoreNames
  <2> QED BY <2>1 DEF Store!SInit, Init
<1> QED BY <1>3, <1>4 DEF Init

LEMMA UnlinkRefines ==
  ASSUME Whole, ~spoiled, NEW p \in Processes, Unlink(p), ~spoiled'
  PROVE  Store!SNext
<1>0. PICK n \in Names : n = task[p].name
  BY DEF Whole, Types, LocalTypes
<1>1. /\ files' = [files EXCEPT ![n] = Absent] /\ n \in Existing
      /\ Cardinality(Existing) > 1 /\ files[Program] \notin {n, Absent}
  BY <1>0, UnlinkSound DEF Whole
<1>2. n \in Names /\ n # Program /\ Program \in Paths
  BY <1>1, NamesFacts DEF Existing
<1>3. /\ [m \in Names |-> files[m]]' = [[m \in Names |-> files[m]] EXCEPT ![n] = Absent]
      /\ files'[Program] = files[Program]
  BY <1>1, <1>2 DEF Whole, Types, FileTypes, Paths
<1>4. Store!RemovePreset(n)
  BY <1>1, <1>3, StoreNames DEF Store!RemovePreset
<1>5. spoiled' = spoiled
  BY SpoiledMoves DEF Whole
<1> QED BY Zenon, <1>2, <1>4, <1>5 DEF Store!SNext

LEMMA RenameRefines ==
  ASSUME Whole, ~spoiled, NEW p \in Processes, Rename(p), ~spoiled'
  PROVE  Store!SNext
<1> DEFINE presets == [m \in Names |-> files[m]]
<1>0. PICK f \in Paths, c \in Names \cup Contents : f = target[p] /\ c = out[p]
  BY DEF Whole, Types, LocalTypes
<1>1. files' = [files EXCEPT ![f] = c] /\ Promised(p) /\ Types /\ Sound
  BY <1>0, RenameSound DEF Whole
<1>2. pc[p] = "rename" /\ Knows(p) /\ f \in Paths /\ source[p] \in Names
  BY <1>1 DEF Rename, Sound, Types, LocalTypes
<1>3. Program \notin Names /\ Program \in Paths /\ Default \in Names
  BY NamesFacts
<1>4. spoiled' = spoiled
  BY SpoiledMoves DEF Whole
<1>5. ASSUME f = Program
      PROVE  presets' = presets /\ files'[Program] = c
  BY <1>1, <1>3, <1>5 DEF Types, FileTypes, Paths
<1>6. ASSUME f \in Names
      PROVE  /\ presets' = [presets EXCEPT ![f] = c]
             /\ files'[Program] = files[Program]
  BY <1>1, <1>3, <1>6 DEF Types, FileTypes, Paths
<1>7. CASE f = Program /\ c \in Existing
  <2>1. Store!UsePreset(c) /\ c \in Names
    BY <1>5, <1>7, StoreNames DEF Store!UsePreset, Existing
  <2> QED BY Zenon, <1>4, <2>1 DEF Store!SNext
<1>8. CASE /\ f = source[p] /\ task[p].does = "edit" /\ f \in Existing
           /\ c \in Edited(files[f])
  <2>1. files[Program] = f /\ f \in Names
    BY <1>0, <1>2, <1>8 DEF Knows, ReadFrom, Writing
  <2>2. c \in Store!Edited(presets[f])
    BY <1>8, <2>1, StoreNames
  <2>3. Store!EditPreset(f)
    BY <1>6, <1>8, <2>1, <2>2, StoreNames DEF Store!EditPreset
  <2> QED BY Zenon, <1>4, <2>1, <2>3 DEF Store!SNext
<1>9. CASE /\ f = task[p].name /\ task[p].does = "save"
           /\ source[p] \in Existing /\ c = files[source[p]]
  <2>1. files[Program] = source[p] /\ f \in Names /\ f \notin Existing
    BY <1>0, <1>1, <1>2, <1>9 DEF Knows, ReadFrom, Writing, Types, LocalTypes
  <2>2. c = presets[files[Program]]
    BY <1>2, <1>9, <2>1
  <2>3. Store!SavePreset(f)
    BY <1>6, <1>9, <2>1, <2>2, StoreNames DEF Store!SavePreset
  <2> QED BY Zenon, <1>4, <2>1, <2>3 DEF Store!SNext
<1>10. CASE f = Default /\ c = Skeleton
  <2>1. Store!InitPreset
    BY <1>3, <1>6, <1>10, StoreNames DEF Store!InitPreset
  <2> QED BY Zenon, <1>4, <2>1 DEF Store!SNext
<1> QED BY <1>0, <1>1, <1>7, <1>8, <1>9, <1>10 DEF Promised

LEMMA NextRefines == Whole /\ Whole' /\ [Next]_vars => [Store!SNext]_(Store!svars)
<1> SUFFICES ASSUME Whole, Whole', [Next]_vars
             PROVE  Store!SNext \/ UNCHANGED Store!svars
  OBVIOUS
<1>1. ASSUME files' = files, spoiled' = spoiled PROVE UNCHANGED Store!svars
  BY <1>1 DEF Store!svars
<1>2. CASE UNCHANGED vars
  BY <1>1, <1>2 DEF vars
<1>3. CASE spoiled'
  BY <1>3 DEF Store!SNext
<1>4. CASE Next /\ ~spoiled'
  <2>1. PICK p \in Processes :
        \/ Start(p) \/ CheckUse(p) \/ CheckSave(p) \/ CheckInit(p)
        \/ ReadActive(p) \/ ReadForEdit(p) \/ ReadForCopy(p) \/ ListNames(p)
        \/ Unlink(p) \/ OpenTmp(p) \/ Write(p) \/ Rename(p) \/ CheckPointer(p)
        \/ Crash(p)
    BY <1>4 DEF Next
  <2>2. ~spoiled
    <3>1. CASE Unlink(p) \/ OpenTmp(p) \/ Write(p) \/ Rename(p) \/ Crash(p)
      BY <1>4, <3>1, SpoiledMoves DEF Whole
    <3>2. CASE ~(Unlink(p) \/ OpenTmp(p) \/ Write(p) \/ Rename(p) \/ Crash(p))
      BY <1>4, <2>1, <3>2 DEF Start, CheckUse, CheckSave, CheckInit, ReadActive,
           ReadForEdit, ReadForCopy, ListNames, CheckPointer
    <3> QED BY <3>1, <3>2
  <2>3. files' = files \/ Unlink(p) \/ Rename(p)
    BY <1>4, <2>1, <2>2, NextSound DEF Whole
  <2>4. spoiled' = spoiled
    BY <1>4, <2>2 DEF Whole
  <2> QED BY <1>1, <1>4, <2>2, <2>3, <2>4, UnlinkRefines, RenameRefines
<1> QED BY <1>2, <1>3, <1>4

\* Every operation of the configuration, killed at any point, takes effect as a
\* whole, at its rename or unlink, or not at all, as PresetStore says, until
\* operations get in each other's way.
THEOREM Refinement == Spec => ImplementsPresetStore
<1>1. Spec => []Whole
  BY SpecWhole
<1> QED
  BY <1>1, InitRefines, NextRefines, PTL
     DEF Spec, ImplementsPresetStore, Store!SSpec
=============================================================================
