--------------------------- MODULE Install_proofs ---------------------------
(***************************************************************************)
(* Theorems about Install, for any requests, any number of installers and  *)
(* any number of failures and crashes: type correctness, that an installer *)
(* that is alone loses nothing, and when what it reports is true.  At the  *)
(* end, what two installers leave that are at work at once.                *)
(*                                                                         *)
(* Journal says where the old and the new package are at each place in     *)
(* place_package_dir. It holds of an installer only while it is alone: the *)
(* first step of anybody else ends that.                                   *)
(***************************************************************************)
EXTENDS Install, SequenceTheorems, TLAPS

Working == {"place", "aside", "move", "copy", "placed", "finish"}

\* An installer that is at work has a request, and staged what it places.
Pending(i) ==
    /\ pc[i] \in Working \cup {"next", "failed", "restore", "recopy"} => queue[i] # <<>>
    /\ pc[i] \in Working =>
        staged[i] \in OnePackage /\ outcome[i] \in {"fresh", "replace"}
    /\ pc[i] = "idle" => before[i] = Absent

Types ==
    /\ TypeOK
    /\ before \in [Installers -> Directories]
    /\ queue \in [Installers -> Seq(DOMAIN Requests)]
    /\ \A i \in Installers : Pending(i)

\* What the other installers have of their own stays.
Steady(i) == \A j \in Installers \ {i} :
    /\ pc'[j] = pc[j] /\ queue'[j] = queue[j] /\ staged'[j] = staged[j]
    /\ before'[j] = before[j] /\ had'[j] = had[j] /\ left'[j] = left[j]
    /\ outcome'[j] = outcome[j] /\ backup'[j] = backup[j]

Places == {"idle", "next", "place", "aside", "move", "copy", "placed",
           "finish", "failed", "restore", "recopy", "done", "crashed"}
Outcomes == {"none", "error", "skip", "fresh", "replace"}

LEMMA Goes ==
  ASSUME Types, NEW i \in Installers, NEW where \in Places, Goto(i, where)
  PROVE  /\ pc' \in [Installers -> Places] /\ pc'[i] = where
         /\ \A j \in Installers \ {i} : pc'[j] = pc[j]
BY DEF Types, TypeOK, Goto, Places

LEMMA Fails ==
  ASSUME Types, NEW i \in Installers, Fail(i)
  PROVE  /\ pc' \in [Installers -> Places] /\ pc'[i] = "done"
         /\ outcome' \in [Installers -> Outcomes] /\ outcome'[i] = "error"
         /\ queue' \in [Installers -> Seq(DOMAIN Requests)]
         /\ staged' \in [Installers -> {Absent} \cup OnePackage]
         /\ \A j \in Installers \ {i} :
              /\ pc'[j] = pc[j] /\ outcome'[j] = outcome[j]
              /\ queue'[j] = queue[j] /\ staged'[j] = staged[j]
<1>1. "done" \in Places /\ Goto(i, "done")
  BY DEF Fail, Places
<1>2. /\ pc' \in [Installers -> Places] /\ pc'[i] = "done"
      /\ \A j \in Installers \ {i} : pc'[j] = pc[j]
  BY <1>1, Goes
<1>3. /\ outcome' \in [Installers -> Outcomes] /\ outcome'[i] = "error"
      /\ \A j \in Installers \ {i} : outcome'[j] = outcome[j]
  BY DEF Fail, Types, TypeOK, Outcomes
<1>4. /\ queue' \in [Installers -> Seq(DOMAIN Requests)]
      /\ \A j \in Installers \ {i} : queue'[j] = queue[j]
  BY DEF Fail, Types
<1>5. /\ staged' \in [Installers -> {Absent} \cup OnePackage]
      /\ \A j \in Installers \ {i} : staged'[j] = staged[j]
  BY DEF Fail, Types, TypeOK
<1> QED BY <1>2, <1>3, <1>4, <1>5

LEMMA Serves ==
  ASSUME Types, NEW i \in Installers, NEW how \in Outcomes, Served(i, how),
         queue[i] # <<>>
  PROVE  /\ pc' \in [Installers -> Places] /\ pc'[i] \in {"done", "next"}
         /\ outcome' \in [Installers -> Outcomes] /\ outcome'[i] = how
         /\ queue' \in [Installers -> Seq(DOMAIN Requests)]
         /\ pc'[i] = "next" => queue'[i] # <<>>
         /\ staged' \in [Installers -> {Absent} \cup OnePackage]
         /\ \A j \in Installers \ {i} :
              /\ pc'[j] = pc[j] /\ outcome'[j] = outcome[j]
              /\ queue'[j] = queue[j] /\ staged'[j] = staged[j]
<1> DEFINE where == IF Len(queue[i]) = 1 THEN "done" ELSE "next"
<1>1. where \in Places /\ Goto(i, where)
  BY DEF Served, Places
<1>2. /\ pc' \in [Installers -> Places] /\ pc'[i] = where
      /\ \A j \in Installers \ {i} : pc'[j] = pc[j]
  BY <1>1, Goes
<1>3. /\ outcome' \in [Installers -> Outcomes] /\ outcome'[i] = how
      /\ \A j \in Installers \ {i} : outcome'[j] = outcome[j]
  BY DEF Served, Types, TypeOK, Outcomes
<1>4. /\ queue' \in [Installers -> Seq(DOMAIN Requests)]
      /\ queue'[i] = Tail(queue[i]) /\ Len(Tail(queue[i])) = Len(queue[i]) - 1
      /\ \A j \in Installers \ {i} : queue'[j] = queue[j]
  <2>1. queue[i] \in Seq(DOMAIN Requests)
    BY DEF Types
  <2>2. /\ Tail(queue[i]) \in Seq(DOMAIN Requests)
        /\ Len(Tail(queue[i])) = Len(queue[i]) - 1
    BY <2>1, HeadTailProperties
  <2> QED BY <2>2 DEF Served, Types
<1>5. where = "next" => queue'[i] # <<>>
  <2>1. Len(queue[i]) \in Nat
    BY LenProperties DEF Types
  <2>2. SUFFICES ASSUME Len(queue[i]) # 1, queue'[i] = <<>> PROVE FALSE
    OBVIOUS
  <2>3. Len(queue[i]) - 1 = 0
    <3>1. Tail(queue[i]) = <<>>
      BY <1>4, <2>2
    <3>2. Len(<<>>) = 0
      OBVIOUS
    <3> QED BY Zenon, <1>4, <3>1, <3>2
  <2> QED BY <2>1, <2>2, <2>3
<1>6. /\ staged' \in [Installers -> {Absent} \cup OnePackage]
      /\ \A j \in Installers \ {i} : staged'[j] = staged[j]
  BY DEF Served, Types, TypeOK
<1> QED BY <1>2, <1>3, <1>4, <1>5, <1>6

-----------------------------------------------------------------------------
(* Types. *)

\* What a step of an installer has to keep: its own part, and nobody else's.
Proper(i) ==
    /\ TypeOK' /\ Steady(i) /\ Pending(i)'
    /\ before' \in [Installers -> Directories]
    /\ queue' \in [Installers -> Seq(DOMAIN Requests)]

LEMMA TypesFromOne ==
  ASSUME Types, NEW i \in Installers, Proper(i)
  PROVE  Types'
<1>1. ASSUME NEW j \in Installers PROVE Pending(j)'
  <2>1. CASE j = i
    BY Zenon, <2>1 DEF Proper
  <2>2. CASE j # i
    BY <2>2 DEF Proper, Steady, Pending, Types
  <2> QED BY <2>1, <2>2
<1> QED BY <1>1 DEF Proper, Types

LEMMA AbsentTyped == Absent \in Directories /\ Empty(Absent) /\ ~Whole(Absent)
                     /\ ~Absent.there
BY DEF Absent, Directories, Empty, Whole

LEMMA Refuses ==
  ASSUME Types, UNCHANGED failures \/ Refuse
  PROVE  failures' \in 0 .. MaxFailures /\ failures' >= failures
BY InstallAssumption DEF Refuse, Types, TypeOK

LEMMA InitTypes == Init => Types
<1> SUFFICES ASSUME Init PROVE Types
  OBVIOUS
<1>1. TypeOK
  BY AbsentTyped, InstallAssumption DEF Init, TypeOK
<1>2. queue \in [Installers -> Seq(DOMAIN Requests)]
  BY DEF Init
<1>3. before \in [Installers -> Directories]
  BY AbsentTyped DEF Init
<1>4. \A i \in Installers : Pending(i)
  BY DEF Init, Pending, Working
<1> QED BY <1>1, <1>2, <1>3, <1>4 DEF Types

LEMMA BeginTypes ==
  ASSUME Types, NEW i \in Installers, Begin(i)
  PROVE  Proper(i)
<1>1. PICK application \in Applications : queue' = [queue EXCEPT ![i] = application]
  BY DEF Begin
<1>2. application \in Seq(DOMAIN Requests) /\ application # <<>>
  BY RequestsAssumption
<1>3. /\ pc' \in [Installers -> Places] /\ pc'[i] = "next"
      /\ \A j \in Installers \ {i} : pc'[j] = pc[j]
  BY Goes DEF Begin, Places
<1>4. /\ queue' \in [Installers -> Seq(DOMAIN Requests)] /\ queue'[i] # <<>>
      /\ \A j \in Installers \ {i} : queue'[j] = queue[j]
  BY <1>1, <1>2 DEF Types
<1>5. alone' \in [Installers -> BOOLEAN]
  BY DEF Begin
<1>6. UNCHANGED <<kind, sameFs, dest, backup, staged, had, left, outcome,
                  remover, failures, crashes, before>>
  BY DEF Begin, constants, disk
<1>7. TypeOK'
  BY <1>3, <1>5, <1>6 DEF Types, TypeOK, Places
<1>8. Pending(i)'
  BY <1>3, <1>4 DEF Pending, Working
<1> QED BY <1>3, <1>4, <1>6, <1>7, <1>8 DEF Proper, Steady, Types

\* What is judged and found good.
LEMMA RequestFiles ==
  ASSUME Types, NEW i \in Installers, queue[i] # <<>>
  PROVE  RequireFiles(Request(i).archive, kind) \in {Refused} \cup OnePackage
<1>1. queue[i] \in Seq(DOMAIN Requests) /\ kind \in {"module", "extension"}
  BY DEF Types, TypeOK
<1>2. Head(queue[i]) \in DOMAIN Requests
  BY <1>1, HeadTailProperties
<1> QED BY <1>1, <1>2, RequestsAssumption DEF Request

LEMMA JudgeTypes ==
  ASSUME Types, NEW i \in Installers, Judge(i)
  PROVE  Proper(i)
<1>0. pc[i] = "next" /\ queue[i] # <<>>
  BY DEF Judge, Types, Pending
<1>1. /\ before' \in [Installers -> Directories] /\ had' \in [Installers -> BOOLEAN]
      /\ \A j \in Installers \ {i} : before'[j] = before[j] /\ had'[j] = had[j]
  BY AbsentTyped DEF Judge, Types, TypeOK
<1>2. UNCHANGED <<kind, sameFs, dest, backup, left, remover, crashes, alone>>
  BY DEF Judge, constants, disk
<1>3. failures' \in 0 .. MaxFailures
  BY InstallAssumption DEF Judge, Refuse, Types, TypeOK
<1>4. CASE Fail(i)
  <2>1. TypeOK'
    BY <1>1, <1>2, <1>3, <1>4, Fails DEF Types, TypeOK, Places, Outcomes
  <2> QED BY <1>1, <1>2, <1>4, <2>1, Fails DEF Proper, Steady, Pending, Working
<1>5. CASE Served(i, "skip")
  <2>1. TypeOK'
    BY <1>0, <1>1, <1>2, <1>3, <1>5, Serves DEF Types, TypeOK, Places, Outcomes
  <2> QED BY <1>0, <1>1, <1>2, <1>5, <2>1, Serves DEF Proper, Steady, Pending, Working, Outcomes
<1>6. CASE ~Fail(i) /\ ~Served(i, "skip")
  <2>1. /\ RequireFiles(Request(i).archive, kind) # Refused /\ Goto(i, "place")
        /\ staged' = [staged EXCEPT ![i] = RequireFiles(Request(i).archive, kind)]
        /\ outcome' = [outcome EXCEPT ![i] = IF dest.there THEN "replace" ELSE "fresh"]
        /\ UNCHANGED queue
    BY <1>6 DEF Judge
  <2>2. /\ staged' \in [Installers -> {Absent} \cup OnePackage] /\ staged'[i] \in OnePackage
        /\ \A j \in Installers \ {i} : staged'[j] = staged[j]
    BY <1>0, <2>1, RequestFiles DEF Types, TypeOK
  <2>3. /\ outcome' \in [Installers -> Outcomes] /\ outcome'[i] \in {"fresh", "replace"}
        /\ \A j \in Installers \ {i} : outcome'[j] = outcome[j]
    BY <2>1 DEF Types, TypeOK, Outcomes
  <2>4. /\ pc' \in [Installers -> Places] /\ pc'[i] = "place"
        /\ \A j \in Installers \ {i} : pc'[j] = pc[j]
    BY <2>1, Goes DEF Places
  <2>5. TypeOK'
    BY <1>1, <1>2, <1>3, <2>2, <2>3, <2>4 DEF Types, TypeOK, Places, Outcomes
  <2>6. Pending(i)'
    BY <1>0, <2>1, <2>2, <2>3, <2>4 DEF Pending, Working
  <2> QED BY <1>1, <1>2, <2>1, <2>2, <2>3, <2>4, <2>5, <2>6 DEF Proper, Steady, Types
<1> QED BY <1>4, <1>5, <1>6

LEMMA LookTypes ==
  ASSUME Types, NEW i \in Installers, Look(i)
  PROVE  Proper(i)
<1>1. /\ pc[i] = "place" /\ (UNCHANGED failures \/ Refuse)
      /\ UNCHANGED <<kind, sameFs, dest, backup, had, left, remover, crashes, alone,
                     before>>
  BY DEF Look, constants, disk
<1>2. failures' \in 0 .. MaxFailures
  BY <1>1, Refuses
<1>3. CASE Fail(i)
  <2>1. TypeOK'
    BY <1>1, <1>2, <1>3, Fails DEF Types, TypeOK, Places, Outcomes
  <2> QED BY <1>1, <1>3, <2>1, Fails DEF Proper, Steady, Pending, Working, Types
<1>4. CASE ~Fail(i)
  <2>1. /\ UNCHANGED <<queue, staged, outcome>>
        /\ Goto(i, "aside") \/ Goto(i, "move")
    BY <1>4 DEF Look
  <2>2. /\ pc' \in [Installers -> Places] /\ pc'[i] \in {"aside", "move"}
        /\ \A j \in Installers \ {i} : pc'[j] = pc[j]
    BY <2>1, Goes DEF Places
  <2>3. TypeOK'
    BY <1>1, <1>2, <2>1, <2>2 DEF Types, TypeOK, Places
  <2>4. Pending(i)'
    BY <1>1, <2>1, <2>2 DEF Types, Pending, Working
  <2> QED BY <1>1, <2>1, <2>2, <2>3, <2>4 DEF Proper, Steady, Types
<1> QED BY <1>3, <1>4

LEMMA MoveAsideTypes ==
  ASSUME Types, NEW i \in Installers, MoveAside(i)
  PROVE  Proper(i)
<1>1. /\ pc[i] = "aside" /\ (UNCHANGED failures \/ Refuse)
      /\ UNCHANGED <<kind, sameFs, left, crashes, alone, before>>
  BY DEF MoveAside, constants
<1>2. failures' \in 0 .. MaxFailures
  BY <1>1, Refuses
<1>3. CASE Fail(i) /\ UNCHANGED <<dest, backup, had, remover>>
  <2>1. TypeOK'
    BY <1>1, <1>2, <1>3, Fails DEF Types, TypeOK, Places, Outcomes
  <2> QED BY <1>1, <1>3, <2>1, Fails DEF Proper, Steady, Pending, Working, Types
<1>4. CASE ~(Fail(i) /\ UNCHANGED <<dest, backup, had, remover>>)
  <2>1. /\ backup' = [backup EXCEPT ![i] = dest] /\ dest' = Absent
        /\ had' = [had EXCEPT ![i] = TRUE] /\ UNCHANGED <<queue, staged, outcome>>
        /\ remover' = IF remover = "dest" THEN i ELSE remover
        /\ Goto(i, "move")
    BY <1>4 DEF MoveAside, disk
  <2>2. /\ pc' \in [Installers -> Places] /\ pc'[i] = "move"
        /\ \A j \in Installers \ {i} : pc'[j] = pc[j]
    BY <2>1, Goes DEF Places
  <2>3. /\ backup' \in [Installers -> Directories] /\ had' \in [Installers -> BOOLEAN]
        /\ \A j \in Installers \ {i} : backup'[j] = backup[j] /\ had'[j] = had[j]
    BY <2>1 DEF Types, TypeOK
  <2>4. TypeOK'
    BY <1>1, <1>2, <2>1, <2>2, <2>3, AbsentTyped DEF Types, TypeOK, Places
  <2>5. Pending(i)'
    BY <1>1, <2>1, <2>2 DEF Types, Pending, Working
  <2> QED BY <1>1, <2>1, <2>2, <2>3, <2>4, <2>5 DEF Proper, Steady, Types
<1> QED BY <1>3, <1>4

\* What is staged is a whole package.
LEMMA StagedTyped ==
  ASSUME Types, NEW i \in Installers, pc[i] \in Working
  PROVE  /\ staged[i].manifest \in Manifests /\ staged[i].payload \in Payloads
         /\ staged[i].manifest \notin {Missing, Malformed}
         /\ staged[i].payload \notin {Missing, Malformed}
         /\ staged[i].payload = staged[i].manifest.version
<1>1. staged[i] \in OnePackage
  BY DEF Types, Pending
<1> QED BY <1>1, InstallAssumption DEF OnePackage

LEMMA MoveTypes ==
  ASSUME Types, NEW i \in Installers, Move(i)
  PROVE  Proper(i)
<1>1. /\ pc[i] = "move"
      /\ UNCHANGED <<kind, sameFs, backup, queue, staged, had, outcome, remover,
                     crashes, alone, before>>
  BY DEF Move, constants
<1>2. PICK where \in {"placed", "copy", "failed"} : Goto(i, where)
  BY DEF Move
<1>3. /\ pc' \in [Installers -> Places] /\ pc'[i] = where
      /\ \A j \in Installers \ {i} : pc'[j] = pc[j]
  BY <1>2, Goes DEF Places
<1>4. dest' \in Directories
  <2>1. CASE dest' = [there |-> TRUE, manifest |-> staged[i].manifest,
                      payload |-> staged[i].payload, executable |-> FALSE]
    BY <1>1, <2>1, StagedTyped DEF Directories, Working
  <2>2. CASE dest' = [dest EXCEPT !.there = TRUE]
    BY <2>2 DEF Directories, Types, TypeOK
  <2>3. CASE dest' = dest
    BY <2>3 DEF Types, TypeOK
  <2> QED BY <2>1, <2>2, <2>3 DEF Move
<1>5. /\ left' \in [Installers -> SUBSET Files]
      /\ \A j \in Installers \ {i} : left'[j] = left[j]
  BY DEF Move, Types, TypeOK
<1>6. failures' \in 0 .. MaxFailures
  BY InstallAssumption DEF Move, Refuse, Types, TypeOK
<1>7. TypeOK'
  BY <1>1, <1>3, <1>4, <1>5, <1>6 DEF Types, TypeOK, Places
<1>8. Pending(i)'
  BY <1>1, <1>2, <1>3 DEF Types, Pending, Working
<1> QED BY <1>1, <1>3, <1>5, <1>7, <1>8 DEF Proper, Steady, Types

\* A directory with one file written.
LEMMA WriteTyped ==
  ASSUME NEW d \in Directories, d.there, NEW f \in Files, NEW b,
         b = Malformed \/ (f = "manifest" /\ b \in Manifests)
                       \/ (f = "payload" /\ b \in Payloads)
  PROVE  [d EXCEPT ![f] = b] \in Directories
<1>1. CASE f = "manifest"
  <2>1. [d EXCEPT !.manifest = b] \in Directories
    BY <1>1 DEF Directories
  <2> QED BY Zenon, <1>1, <2>1
<1>2. CASE f = "payload"
  <2>1. [d EXCEPT !.payload = b] \in Directories
    BY <1>2 DEF Directories
  <2> QED BY Zenon, <1>2, <2>1
<1> QED BY <1>1, <1>2 DEF Files

LEMMA CopyFileTypes ==
  ASSUME Types, NEW i \in Installers, CopyFile(i)
  PROVE  Proper(i)
<1>1. /\ pc[i] = "copy"
      /\ UNCHANGED <<kind, sameFs, backup, queue, staged, had, outcome, remover,
                     crashes, alone, before>>
  BY DEF CopyFile, constants
<1>2. PICK where \in {"placed", "copy", "failed"} : Goto(i, where)
  BY DEF CopyFile
<1>3. /\ pc' \in [Installers -> Places] /\ pc'[i] = where
      /\ \A j \in Installers \ {i} : pc'[j] = pc[j]
  BY <1>2, Goes DEF Places
<1>4. left[i] \subseteq Files /\ dest \in Directories
  BY DEF Types, TypeOK
<1>5. PICK f \in left[i] :
        /\ \/ dest.there /\ dest' = [dest EXCEPT ![f] = staged[i][f]]
           \/ dest.there /\ dest' = [dest EXCEPT ![f] = Malformed]
           \/ dest' = dest
        /\ left' = [left EXCEPT ![i] = @ \ {f}] \/ left' = [left EXCEPT ![i] = {}]
        /\ failures' = failures \/ Refuse
  BY Zenon DEF CopyFile
<1>6. dest' \in Directories
  <2>1. staged[i].manifest \in Manifests /\ staged[i].payload \in Payloads
    BY <1>1, StagedTyped DEF Working
  <2>2. \/ f = "manifest" /\ staged[i][f] \in Manifests
        \/ f = "payload" /\ staged[i][f] \in Payloads
    <3>1. CASE f = "manifest"
      BY <2>1, <3>1
    <3>2. CASE f = "payload"
      BY <2>1, <3>2
    <3> QED BY <1>4, <3>1, <3>2 DEF Files
  <2>3. PICK b : b = staged[i][f]
    OBVIOUS
  <2>4. dest.there => /\ [dest EXCEPT ![f] = b] \in Directories
                      /\ [dest EXCEPT ![f] = Malformed] \in Directories
    BY <1>4, <2>2, <2>3, WriteTyped
  <2> QED BY <1>4, <1>5, <2>3, <2>4
<1>7. /\ left' \in [Installers -> SUBSET Files]
      /\ \A j \in Installers \ {i} : left'[j] = left[j]
  BY <1>4, <1>5 DEF Types, TypeOK
<1>8. failures' \in 0 .. MaxFailures
  BY <1>5, InstallAssumption DEF Refuse, Types, TypeOK
<1>9. TypeOK'
  BY <1>1, <1>3, <1>6, <1>7, <1>8 DEF Types, TypeOK, Places
<1>10. Pending(i)'
  BY <1>1, <1>2, <1>3 DEF Types, Pending, Working
<1> QED BY <1>1, <1>3, <1>7, <1>9, <1>10 DEF Proper, Steady, Types

LEMMA WithoutTyped ==
  ASSUME NEW d \in Directories, NEW f \in Files
  PROVE  Without(d, f) \in Directories
BY DEF Without, Directories, Files, Empty

LEMMA DropBackupTypes ==
  ASSUME Types, NEW i \in Installers, DropBackup(i)
  PROVE  Proper(i)
<1>1. /\ pc[i] = "placed" /\ (UNCHANGED failures \/ Refuse)
      /\ UNCHANGED <<kind, sameFs, dest, queue, staged, had, left, outcome, remover,
                     crashes, alone, before>>
  BY DEF DropBackup, constants
<1>2. failures' \in 0 .. MaxFailures
  BY <1>1, Refuses
<1>3. /\ pc' \in [Installers -> Places] /\ pc'[i] \in {"placed", "finish"}
      /\ \A j \in Installers \ {i} : pc'[j] = pc[j]
  BY <1>1, Goes DEF DropBackup, Places, Types, TypeOK
<1>4. /\ backup' \in [Installers -> Directories]
      /\ \A j \in Installers \ {i} : backup'[j] = backup[j]
  <2>1. \E d \in Directories : backup' = [backup EXCEPT ![i] = d]
    BY AbsentTyped, WithoutTyped DEF DropBackup, Types, TypeOK
  <2> QED BY <2>1 DEF Types, TypeOK
<1>5. TypeOK'
  BY <1>1, <1>2, <1>3, <1>4 DEF Types, TypeOK, Places
<1>6. Pending(i)'
  BY <1>1, <1>3 DEF Types, Pending, Working
<1> QED BY <1>1, <1>3, <1>4, <1>5, <1>6 DEF Proper, Steady, Types

\* The binary of a package that is there is made executable.
LEMMA RunnableTyped ==
  ASSUME NEW d \in Directories, d.payload # Missing
  PROVE  /\ [d EXCEPT !.executable = TRUE] \in Directories /\ d.there
         /\ [d EXCEPT !.executable = TRUE].there = d.there
         /\ [d EXCEPT !.executable = TRUE].manifest = d.manifest
         /\ [d EXCEPT !.executable = TRUE].payload = d.payload
BY DEF Directories, Empty

LEMMA FinishTypes ==
  ASSUME Types, NEW i \in Installers, Finish(i)
  PROVE  Proper(i)
<1>1. /\ pc[i] = "finish" /\ queue[i] # <<>> /\ outcome[i] \in Outcomes
      /\ UNCHANGED failures \/ Refuse
      /\ UNCHANGED <<kind, sameFs, backup, had, left, remover, crashes, alone, before>>
  BY DEF Finish, constants, Types, TypeOK, Pending, Working, Outcomes
<1>2. failures' \in 0 .. MaxFailures
  BY <1>1, Refuses
<1>3. dest' \in Directories
  <2>1. \/ dest' = dest
        \/ dest.payload # Missing /\ dest' = [dest EXCEPT !.executable = TRUE]
    BY DEF Finish
  <2>2. dest \in Directories
    BY DEF Types, TypeOK
  <2> QED BY <2>1, <2>2, RunnableTyped
<1>4. CASE Fail(i)
  <2>1. TypeOK'
    BY <1>1, <1>2, <1>3, <1>4, Fails DEF Types, TypeOK, Places, Outcomes
  <2> QED BY <1>1, <1>4, <2>1, Fails DEF Proper, Steady, Pending, Working, Types
<1>5. CASE Served(i, outcome[i])
  <2>1. TypeOK'
    BY <1>1, <1>2, <1>3, <1>5, Serves DEF Types, TypeOK, Places, Outcomes
  <2> QED BY <1>1, <1>5, <2>1, Serves DEF Proper, Steady, Pending, Working, Types
<1> QED BY <1>4, <1>5 DEF Finish

\* The two ways a step of the undoing ends: with an error, or at another place.
LEMMA UndoTypes ==
  ASSUME Types, NEW i \in Installers, UNCHANGED failures \/ Refuse,
         pc[i] \in {"failed", "restore", "recopy"},
         UNCHANGED <<kind, sameFs, had, crashes, alone, before>>,
         dest' \in Directories, remover' \in {remover, "dest", "done"},
         NEW d \in Directories, backup' = [backup EXCEPT ![i] = d],
         NEW fs \in SUBSET Files, left' = [left EXCEPT ![i] = fs],
         NEW where \in {"failed", "restore", "recopy"},
         Fail(i) \/ (pc' = [pc EXCEPT ![i] = where] /\ UNCHANGED <<queue, staged, outcome>>)
  PROVE  Proper(i)
<1>1. failures' \in 0 .. MaxFailures
  BY Refuses
<1>2. /\ backup' \in [Installers -> Directories] /\ left' \in [Installers -> SUBSET Files]
      /\ \A j \in Installers \ {i} : backup'[j] = backup[j] /\ left'[j] = left[j]
  BY DEF Types, TypeOK
<1>3. CASE Fail(i)
  <2>1. TypeOK'
    BY <1>1, <1>2, <1>3, Fails DEF Types, TypeOK, Places, Outcomes
  <2> QED BY <1>2, <1>3, <2>1, Fails DEF Proper, Steady, Pending, Working, Types
<1>4. CASE pc' = [pc EXCEPT ![i] = where] /\ UNCHANGED <<queue, staged, outcome>>
  <2>1. /\ pc' \in [Installers -> Places] /\ pc'[i] = where
        /\ \A j \in Installers \ {i} : pc'[j] = pc[j]
    BY <1>4, Goes DEF Goto, Places
  <2>2. TypeOK'
    BY <1>1, <1>2, <1>4, <2>1 DEF Types, TypeOK, Places
  <2>3. Pending(i)'
    BY <1>4, <2>1 DEF Types, Pending, Working
  <2> QED BY <1>2, <1>4, <2>1, <2>2, <2>3 DEF Proper, Steady, Types
<1> QED BY <1>3, <1>4

\* A part of the state that stays is also one that is written back.
LEMMA Same ==
  ASSUME Types, NEW i \in Installers
  PROVE  /\ backup[i] \in Directories /\ backup = [backup EXCEPT ![i] = backup[i]]
         /\ left[i] \in SUBSET Files /\ left = [left EXCEPT ![i] = left[i]]
         /\ pc = [pc EXCEPT ![i] = pc[i]] /\ dest \in Directories
BY DEF Types, TypeOK

LEMMA DiscardTypes ==
  ASSUME Types, NEW i \in Installers, Discard(i)
  PROVE  Proper(i)
<1>1. /\ pc[i] = "failed" /\ (UNCHANGED failures \/ Refuse)
      /\ remover' \in {remover, "done"}
      /\ UNCHANGED <<kind, sameFs, backup, had, left, crashes, alone, before>>
  BY DEF Discard, constants
<1>2. dest' \in Directories
  BY Same, AbsentTyped, WithoutTyped DEF Discard
<1>3. \E where \in {"failed", "restore"} :
        Fail(i) \/ (pc' = [pc EXCEPT ![i] = where] /\ UNCHANGED <<queue, staged, outcome>>)
  BY <1>1, Same DEF Discard, Goto
<1> QED BY <1>1, <1>2, <1>3, Same, UndoTypes

LEMMA RestoreTypes ==
  ASSUME Types, NEW i \in Installers, Restore(i)
  PROVE  Proper(i)
<1>1. /\ pc[i] = "restore" /\ (UNCHANGED failures \/ Refuse)
      /\ remover' \in {remover, "dest"}
      /\ UNCHANGED <<kind, sameFs, had, crashes, alone, before>>
  BY DEF Restore, constants
<1>2. CASE /\ dest' = backup[i] /\ backup' = [backup EXCEPT ![i] = Absent]
           /\ Fail(i) /\ UNCHANGED left
  <2>1. Absent \in Directories /\ dest' \in Directories
    BY <1>2, Same, AbsentTyped
  <2>2. PICK fs \in SUBSET Files : left' = [left EXCEPT ![i] = fs]
    BY <1>2, Same
  <2> QED BY <1>1, <1>2, <2>1, <2>2, UndoTypes
<1>3. CASE /\ dest' = [dest EXCEPT !.there = TRUE]
           /\ left' = [left EXCEPT ![i] = {f \in Files : backup[i][f] # Missing}]
           /\ Goto(i, "recopy") /\ UNCHANGED <<backup, queue, staged, outcome>>
  <2>1. dest' \in Directories
    BY <1>3, Same DEF Directories
  <2>2. PICK fs \in SUBSET Files : left' = [left EXCEPT ![i] = fs]
    BY <1>3
  <2>3. PICK d \in Directories : backup' = [backup EXCEPT ![i] = d]
    BY <1>3, Same
  <2>4. pc' = [pc EXCEPT ![i] = "recopy"] /\ UNCHANGED <<queue, staged, outcome>>
    BY <1>3 DEF Goto
  <2> QED BY <1>1, <2>1, <2>2, <2>3, <2>4, UndoTypes
<1> QED BY <1>2, <1>3 DEF Restore

LEMMA CopiedTyped ==
  ASSUME NEW d \in Directories, NEW e \in Directories, d.there, NEW f \in Files
  PROVE  Copied(d, e, f) \in Directories /\ Copied(d, e, f).there
BY DEF Copied, Directories

LEMMA CopyBackTypes ==
  ASSUME Types, NEW i \in Installers, CopyBack(i)
  PROVE  Proper(i)
<1>1. /\ pc[i] = "recopy" /\ (UNCHANGED failures \/ Refuse)
      /\ UNCHANGED <<kind, sameFs, backup, had, remover, crashes, alone, before>>
  BY DEF CopyBack, constants
<1>2. left[i] \subseteq Files
  BY Same
<1>3. dest' \in Directories
  <2>1. CASE dest' = dest
    BY <2>1, Same
  <2>2. CASE dest' # dest
    <3>1. PICK f \in Files : /\ dest.there
                            /\ \/ dest' = Copied(dest, backup[i], f)
                               \/ dest' = [dest EXCEPT ![f] = Malformed]
      BY <1>2, <2>2 DEF CopyBack
    <3>2. dest \in Directories /\ backup[i] \in Directories
      BY Same
    <3>3. CASE dest' = Copied(dest, backup[i], f)
      BY <3>1, <3>2, <3>3, CopiedTyped
    <3>4. CASE dest' = [dest EXCEPT ![f] = Malformed]
      BY <3>1, <3>2, <3>4, WriteTyped
    <3> QED BY <3>1, <3>3, <3>4
  <2> QED BY <2>1, <2>2
<1>4. \E fs \in SUBSET Files : left' = [left EXCEPT ![i] = fs]
  BY <1>2 DEF CopyBack
<1>5. \/ Fail(i)
      \/ pc' = [pc EXCEPT ![i] = "recopy"] /\ UNCHANGED <<queue, staged, outcome>>
  BY <1>1, Same DEF CopyBack
<1> QED BY <1>1, <1>3, <1>4, <1>5, Same, UndoTypes

LEMMA CrashTypes ==
  ASSUME Types, NEW i \in Installers, Crash(i)
  PROVE  Proper(i)
<1>1. UNCHANGED <<kind, sameFs, backup, had, outcome, remover, failures, alone, before>>
  BY DEF Crash, constants
<1>2. /\ pc' \in [Installers -> Places] /\ pc'[i] = "crashed"
      /\ \A j \in Installers \ {i} : pc'[j] = pc[j]
  BY Goes DEF Crash, Places
<1>3. /\ queue' \in [Installers -> Seq(DOMAIN Requests)]
      /\ \A j \in Installers \ {i} : queue'[j] = queue[j]
  BY DEF Crash, Types
<1>4. /\ staged' \in [Installers -> {Absent} \cup OnePackage]
      /\ \A j \in Installers \ {i} : staged'[j] = staged[j]
  BY DEF Crash, Types, TypeOK
<1>5. /\ left' \in [Installers -> SUBSET Files]
      /\ \A j \in Installers \ {i} : left'[j] = left[j]
  BY DEF Crash, Types, TypeOK
<1>6. dest' \in Directories
  <2>1. left[i] \subseteq Files /\ dest \in Directories
    BY DEF Types, TypeOK
  <2>2. CASE dest' = dest
    BY <2>1, <2>2
  <2>3. CASE dest.there /\ \E f \in left[i] : dest' = [dest EXCEPT ![f] = Malformed]
    <3>1. PICK f \in Files : dest' = [dest EXCEPT ![f] = Malformed]
      BY <2>1, <2>3
    <3> QED BY <2>1, <2>3, <3>1, WriteTyped
  <2> QED BY <2>2, <2>3 DEF Crash
<1>7. crashes' \in 0 .. MaxCrashes
  BY InstallAssumption DEF Crash, Types, TypeOK
<1>8. TypeOK'
  BY <1>1, <1>2, <1>4, <1>5, <1>6, <1>7 DEF Types, TypeOK, Places
<1> QED BY <1>1, <1>2, <1>3, <1>4, <1>5, <1>8 DEF Proper, Steady, Pending, Working, Types

LEMMA StepTypes ==
  ASSUME Types, NEW i \in Installers, Step(i)
  PROVE  Proper(i) /\ Types'
<1>1. Proper(i)
  BY BeginTypes, JudgeTypes, LookTypes, MoveAsideTypes, MoveTypes, CopyFileTypes,
     DropBackupTypes, FinishTypes, DiscardTypes, RestoreTypes, CopyBackTypes,
     CrashTypes DEF Step
<1> QED BY <1>1, TypesFromOne

LEMMA RemoverTypes ==
  ASSUME Types, RemoveBegin \/ RemoveFile \/ RemoveEnds
  PROVE  Types'
<1>1. /\ UNCHANGED <<kind, sameFs, pc, queue, staged, had, left, outcome, before>>
      /\ \/ alone' = alone \/ alone' = [j \in Installers |-> FALSE]
      /\ remover' \in {remover, "dest", "done"}
      /\ crashes' \in 0 .. MaxCrashes /\ failures' \in 0 .. MaxFailures
  BY InstallAssumption
     DEF RemoveBegin, RemoveFile, RemoveEnds, Refuse, constants, Types, TypeOK
<1>2. ASSUME NEW d \in Directories, NEW f \in Files PROVE Without(d, f) \in Directories
  BY WithoutTyped
<1>3. dest' \in Directories /\ backup' \in [Installers -> Directories]
  <2>1. CASE RemoveBegin
    BY <2>1 DEF RemoveBegin, disk, Types, TypeOK
  <2>2. CASE RemoveFile
    <3>1. PICK f \in Files :
            \/ dest' = Without(dest, f) /\ UNCHANGED backup
            \/ /\ remover \in Installers /\ UNCHANGED dest
               /\ backup' = [backup EXCEPT ![remover] = Without(@, f)]
      BY <2>2 DEF RemoveFile
    <3>2. CASE dest' = Without(dest, f) /\ UNCHANGED backup
      BY <1>2, <3>2 DEF Types, TypeOK
    <3>3. CASE /\ remover \in Installers /\ UNCHANGED dest
               /\ backup' = [backup EXCEPT ![remover] = Without(@, f)]
      <4>1. Without(backup[remover], f) \in Directories
        BY <1>2, <3>3 DEF Types, TypeOK
      <4> QED BY <3>3, <4>1 DEF Types, TypeOK
    <3> QED BY <3>1, <3>2, <3>3
  <2>3. CASE RemoveEnds
    <3>1. dest' \in {dest, Absent} /\ backup' = backup
      BY <2>3 DEF RemoveEnds
    <3> QED BY <3>1, AbsentTyped DEF Types, TypeOK
  <2> QED BY <2>1, <2>2, <2>3
<1>4. TypeOK'
  BY <1>1, <1>3 DEF Types, TypeOK
<1> QED BY <1>1, <1>4 DEF Types, Pending

LEMMA TypesNext == Types /\ [Next]_vars => Types'
<1> SUFFICES ASSUME Types, [Next]_vars PROVE Types'
  OBVIOUS
<1>1. CASE UNCHANGED vars
  BY <1>1 DEF vars, Types, TypeOK, Pending
<1> QED BY <1>1, StepTypes, RemoverTypes DEF Next

LEMMA SpecTypes == Spec => []Types
BY InitTypes, TypesNext, PTL DEF Spec

\* What is on the disk is always a directory as the code makes them, also with
\* installers and a removal that act on one package at once.
THEOREM TypeCorrect == Spec => []TypeOK
<1>1. Types => TypeOK
  BY DEF Types
<1> QED BY <1>1, SpecTypes, PTL

-----------------------------------------------------------------------------
(* An installer that is alone. *)

Undisturbed(i) == ~Removing /\ \A j \in Installers \ {i} : ~Active(j)

Has(i, f) == dest[f] = staged[i][f]

Kept(i) == Whole(before[i]) => Whole(dest) \/ backup[i] = before[i]

\* f has been copied back, if there was such a file.
CopiedBack(i, f) ==
    before[i][f] # Missing =>
        /\ dest[f] = before[i][f]
        /\ f = "payload" => dest.executable = before[i].executable

\* Where the package that was there is, and what of the new one is in place;
\* and what has failed by then.
Journal(i) ==
    /\ pc[i] \in {"place", "aside"} => dest = before[i] /\ ~had[i]
    /\ pc[i] = "aside" => dest.there
    /\ pc[i] \in {"move", "copy", "failed"} =>
        IF had[i] THEN backup[i] = before[i] ELSE ~before[i].there
    /\ pc[i] \in {"copy", "placed", "finish"} => dest.there
    /\ pc[i] = "copy" => \A f \in Files \ left[i] : Has(i, f)
    /\ pc[i] \in {"placed", "finish"} => \A f \in Files : Has(i, f)
    /\ pc[i] = "failed" => failures >= 1
    /\ pc[i] = "restore" =>
        /\ backup[i] = before[i] /\ failures >= 1
        /\ dest = Absent \/ failures >= 2
    /\ pc[i] = "recopy" =>
        /\ backup[i] = before[i] /\ failures >= 2 /\ dest.there
        /\ left[i] \subseteq {f \in Files : before[i][f] # Missing}
        /\ \A f \in Files \ left[i] : CopiedBack(i, f)
    /\ pc[i] \in {"next", "done", "crashed"} => Kept(i)

Safe == Types /\ \A i \in Installers : alone[i] => Undisturbed(i) /\ Journal(i)

LEMMA FilesOf == \A d, e : (\A f \in Files : d[f] = e[f]) <=>
                           d.manifest = e.manifest /\ d.payload = e.payload
BY DEF Files

LEMMA NotThere ==
  ASSUME NEW d \in Directories, ~d.there
  PROVE  ~Whole(d)
BY DEF Directories, Empty, Whole

LEMMA OnlyActive ==
  ASSUME NEW j \in Installers, Step(j), ~Begin(j)
  PROVE  Active(j) /\ alone' = alone
BY DEF Step, Judge, Look, MoveAside, Move, CopyFile, DropBackup, Finish, Discard,
       Restore, CopyBack, Crash, Active

LEMMA RemoverStays ==
  ASSUME Types, ~Removing, NEW i \in Installers, Step(i)
  PROVE  remover' = remover
<1>1. remover # "dest" /\ remover # i
  BY InstallAssumption DEF Removing
<1> QED BY <1>1 DEF Step, Begin, Judge, Look, MoveAside, Move, CopyFile, DropBackup,
                    Finish, Discard, Restore, CopyBack, Crash

\* A step of anybody else ends that i is alone.
LEMMA AloneMoves ==
  ASSUME Safe, NEW i \in Installers, alone'[i], Next
  PROVE  /\ Step(i) /\ Undisturbed(i)'
         /\ Begin(i) \/ (alone[i] /\ Journal(i))
<1>1. Types /\ \A j \in Installers : alone[j] => Undisturbed(j) /\ Journal(j)
  BY DEF Safe
<1>2. ~RemoveBegin
  BY DEF RemoveBegin
<1>3. ~(RemoveFile \/ RemoveEnds)
  <2> SUFFICES ASSUME RemoveFile \/ RemoveEnds PROVE FALSE
    OBVIOUS
  <2>1. alone[i] /\ Removing
    BY InstallAssumption DEF RemoveFile, RemoveEnds, Removing
  <2> QED BY <1>1, <2>1 DEF Undisturbed
<1>4. ASSUME NEW j \in Installers, Step(j), j # i PROVE FALSE
  <2>1. CASE Begin(j)
    BY <1>4, <2>1 DEF Begin
  <2>2. CASE ~Begin(j)
    <3>1. Active(j) /\ alone[i]
      BY <1>4, <2>2, OnlyActive
    <3> QED BY <1>1, <1>4, <3>1 DEF Undisturbed
  <2> QED BY <2>1, <2>2
<1>5. Step(i)
  BY <1>2, <1>3, <1>4 DEF Next
<1>6. Begin(i) \/ alone[i]
  BY <1>5, OnlyActive
<1>7. Undisturbed(i)
  <2>1. CASE Begin(i)
    BY <2>1 DEF Begin, Undisturbed
  <2> QED BY <1>1, <1>6, <2>1
<1>8. remover' = remover
  BY <1>1, <1>5, <1>7, RemoverStays DEF Undisturbed
<1>9. \A j \in Installers \ {i} : pc'[j] = pc[j]
  BY <1>1, <1>5, StepTypes DEF Proper, Steady
<1>10. Undisturbed(i)'
  BY <1>7, <1>8, <1>9 DEF Undisturbed, Removing, Active
<1> QED BY <1>1, <1>5, <1>6, <1>10

LEMMA BeginKeeps ==
  ASSUME Types, NEW i \in Installers, Begin(i)
  PROVE  Journal(i)'
<1>1. pc'[i] = "next" /\ before'[i] = Absent
  <2>1. pc[i] = "idle" /\ Goto(i, "next") /\ before' = before
    BY DEF Begin
  <2>2. pc'[i] = "next"
    BY <2>1, Goes DEF Places
  <2> QED BY <2>1, <2>2 DEF Types, Pending
<1> QED BY <1>1, AbsentTyped DEF Journal, Kept

LEMMA JudgeKeeps ==
  ASSUME Types, NEW i \in Installers, alone[i], Judge(i)
  PROVE  Journal(i)'
<1>1. pc[i] = "next" /\ queue[i] # <<>> /\ before'[i] = dest /\ dest' = dest /\ ~had'[i]
  BY DEF Judge, Types, TypeOK, Pending, disk
<1>2. pc'[i] \in {"done", "next", "place"}
  <2>1. CASE Fail(i)
    BY <2>1, Fails
  <2>2. CASE Served(i, "skip")
    BY <1>1, <2>2, Serves DEF Outcomes
  <2>3. CASE Goto(i, "place")
    BY <2>3, Goes DEF Places
  <2> QED BY <2>1, <2>2, <2>3 DEF Judge
<1> QED BY <1>1, <1>2 DEF Journal, Kept

LEMMA LookKeeps ==
  ASSUME Types, NEW i \in Installers, Journal(i), Look(i)
  PROVE  /\ Journal(i)'
         /\ pc'[i] = "done" => dest' = before'[i]
<1>1. /\ dest = before[i] /\ ~had[i]
      /\ UNCHANGED <<dest, backup, before, had>>
  BY DEF Look, Journal, disk
<1>2. CASE Fail(i)
  <2>1. pc'[i] = "done"
    BY <1>2, Fails
  <2> QED BY <1>1, <2>1 DEF Journal, Kept
<1>3. CASE Goto(i, IF dest.there THEN "aside" ELSE "move")
  <2>1. PICK where \in Places : where = (IF dest.there THEN "aside" ELSE "move")
    BY DEF Places
  <2>2. pc'[i] = where
    BY <1>3, <2>1, Goes
  <2> QED BY <1>1, <2>1, <2>2 DEF Journal
<1> QED BY <1>2, <1>3 DEF Look

LEMMA MoveAsideKeeps ==
  ASSUME Types, NEW i \in Installers, Journal(i), MoveAside(i)
  PROVE  /\ Journal(i)'
         /\ pc'[i] = "done" => dest' = before'[i]
<1>1. dest = before[i] /\ dest.there /\ before' = before
  BY DEF MoveAside, Journal
<1>2. CASE Fail(i) /\ UNCHANGED dest
  <2>1. pc'[i] = "done"
    BY <1>2, Fails
  <2> QED BY <1>1, <1>2, <2>1 DEF Journal, Kept
<1>3. CASE /\ backup' = [backup EXCEPT ![i] = dest] /\ had' = [had EXCEPT ![i] = TRUE]
           /\ Goto(i, "move")
  <2>1. pc'[i] = "move" /\ backup'[i] = dest /\ had'[i]
    BY <1>3, Goes DEF Places, Types, TypeOK
  <2> QED BY <1>1, <2>1 DEF Journal
<1> QED BY <1>2, <1>3 DEF MoveAside, disk

LEMMA MoveKeeps ==
  ASSUME Types, NEW i \in Installers, Journal(i), Move(i)
  PROVE  Journal(i)'
<1>1. /\ pc[i] = "move" /\ UNCHANGED <<backup, before, had, staged>>
      /\ IF had[i] THEN backup[i] = before[i] ELSE ~before[i].there
  BY DEF Move, Journal
<1>2. CASE /\ Goto(i, "placed")
           /\ dest' = [there |-> TRUE, manifest |-> staged[i].manifest,
                       payload |-> staged[i].payload, executable |-> FALSE]
  <2>1. pc'[i] = "placed"
    BY <1>2, Goes DEF Places
  <2>2. \A f \in Files : Has(i, f)'
    BY <1>1, <1>2, FilesOf DEF Has
  <2> QED BY <1>1, <1>2, <2>1, <2>2 DEF Journal
<1>3. CASE /\ Goto(i, "copy") /\ dest' = [dest EXCEPT !.there = TRUE]
           /\ left' = [left EXCEPT ![i] = Files]
  <2>1. pc'[i] = "copy" /\ left'[i] = Files /\ dest'.there
    BY <1>3, Goes DEF Places, Types, TypeOK, Directories
  <2> QED BY <1>1, <2>1 DEF Journal
<1>4. CASE Goto(i, "failed") /\ Refuse
  <2>1. pc'[i] = "failed" /\ failures' >= 1
    BY <1>4, Goes DEF Places, Refuse, Types, TypeOK
  <2> QED BY <1>1, <2>1 DEF Journal
<1> QED BY <1>2, <1>3, <1>4 DEF Move

LEMMA CopyFileKeeps ==
  ASSUME Types, NEW i \in Installers, Journal(i), CopyFile(i)
  PROVE  Journal(i)'
<1>1. /\ pc[i] = "copy" /\ UNCHANGED <<backup, before, had, staged>> /\ dest.there
      /\ IF had[i] THEN backup[i] = before[i] ELSE ~before[i].there
      /\ \A f \in Files \ left[i] : Has(i, f)
      /\ left[i] \subseteq Files /\ dest \in Directories
  BY DEF CopyFile, Journal, Types, TypeOK
<1>2. PICK f \in left[i] :
        \/ /\ dest' = [dest EXCEPT ![f] = staged[i][f]]
           /\ left' = [left EXCEPT ![i] = @ \ {f}]
           /\ Goto(i, IF left[i] = {f} THEN "placed" ELSE "copy")
        \/ Goto(i, "failed") /\ Refuse
  BY <1>1 DEF CopyFile
<1>3. CASE Goto(i, "failed") /\ Refuse
  <2>1. pc'[i] = "failed" /\ failures' >= 1
    BY <1>3, Goes DEF Places, Refuse, Types, TypeOK
  <2> QED BY <1>1, <2>1 DEF Journal
<1>4. CASE /\ dest' = [dest EXCEPT ![f] = staged[i][f]]
           /\ left' = [left EXCEPT ![i] = @ \ {f}]
           /\ Goto(i, IF left[i] = {f} THEN "placed" ELSE "copy")
  <2>1. pc'[i] = IF left[i] = {f} THEN "placed" ELSE "copy"
    <3>1. PICK where \in Places : where = (IF left[i] = {f} THEN "placed" ELSE "copy")
      BY DEF Places
    <3> QED BY <1>4, <3>1, Goes
  <2>2. left'[i] = left[i] \ {f}
    BY <1>4 DEF Types, TypeOK
  <2>3. dest'.there /\ \A g \in Files \ left'[i] : dest'[g] = staged[i][g]
    <3>1. CASE f = "manifest"
      <4>1. dest' = [dest EXCEPT !.manifest = staged[i].manifest]
        BY Zenon, <1>4, <3>1
      <4>2. /\ dest'.there = dest.there /\ dest'.manifest = staged[i].manifest
            /\ dest'.payload = dest.payload
        BY <1>1, <4>1 DEF Directories
      <4>3. "payload" \notin left'[i] => dest.payload = staged[i].payload
        BY <1>1, <2>2, <3>1 DEF Has, Files
      <4> QED BY <1>1, <4>2, <4>3 DEF Files
    <3>2. CASE f = "payload"
      <4>1. dest' = [dest EXCEPT !.payload = staged[i].payload]
        BY Zenon, <1>4, <3>2
      <4>2. /\ dest'.there = dest.there /\ dest'.payload = staged[i].payload
            /\ dest'.manifest = dest.manifest
        BY <1>1, <4>1 DEF Directories
      <4>3. "manifest" \notin left'[i] => dest.manifest = staged[i].manifest
        BY <1>1, <2>2, <3>2 DEF Has, Files
      <4> QED BY <1>1, <4>2, <4>3 DEF Files
    <3> QED BY <1>1, <3>1, <3>2 DEF Files
  <2>4. pc'[i] = "placed" => left'[i] = {}
    BY <2>1, <2>2
  <2> QED BY <1>1, <2>1, <2>3, <2>4 DEF Journal, Has
<1> QED BY <1>2, <1>3, <1>4

LEMMA DropBackupKeeps ==
  ASSUME Types, NEW i \in Installers, Journal(i), DropBackup(i)
  PROVE  Journal(i)'
<1>1. pc[i] = "placed" /\ UNCHANGED <<dest, staged>> /\ pc'[i] \in {"placed", "finish"}
  BY Goes DEF DropBackup, Places
<1> QED BY <1>1 DEF Journal, Has

\* What is in place when the installer is about to finish.
LEMMA InPlace ==
  ASSUME Types, NEW i \in Installers, Journal(i), pc[i] \in {"placed", "finish"}
  PROVE  /\ dest.there /\ dest.manifest = staged[i].manifest
         /\ dest.payload = staged[i].payload /\ dest \in Directories
         /\ dest.manifest # Missing /\ dest.payload # Missing /\ Whole(dest)
<1>1. dest.there /\ \A f \in Files : dest[f] = staged[i][f]
  BY DEF Journal, Has
<1>2. dest.manifest = staged[i].manifest /\ dest.payload = staged[i].payload
  BY <1>1, FilesOf
<1> QED BY <1>1, <1>2, StagedTyped DEF Working, Whole, Types, TypeOK

LEMMA FinishKeeps ==
  ASSUME Types, NEW i \in Installers, Journal(i), Finish(i)
  PROVE  /\ Journal(i)' /\ NewInPlace(i)
         /\ kind = "extension" /\ outcome'[i] # "error" => dest'.executable
         /\ outcome'[i] = "error" =>
              ~ManifestParses(staged[i].manifest, kind) \/ failures' > failures
<1>1. /\ pc[i] = "finish" /\ queue[i] # <<>> /\ outcome[i] \in {"fresh", "replace"}
      /\ before' = before
  BY DEF Finish, Types, TypeOK, Pending, Working
<1>2. /\ dest.there /\ dest.manifest = staged[i].manifest
      /\ dest.payload = staged[i].payload /\ dest \in Directories
      /\ dest.manifest # Missing /\ dest.payload # Missing /\ Whole(dest)
  BY <1>1, InPlace
<1>3. dest' \in {dest, [dest EXCEPT !.executable = TRUE]}
  BY <1>2 DEF Finish
<1>4. /\ dest'.there /\ dest'.manifest = dest.manifest /\ dest'.payload = dest.payload
  BY <1>2, <1>3, RunnableTyped
<1>5. Whole(dest')
  BY <1>2, <1>4 DEF Whole
<1>6. pc'[i] \in {"done", "next"}
  BY <1>1, Fails, Serves DEF Finish, Outcomes
<1>7. Journal(i)'
  BY <1>5, <1>6 DEF Journal, Kept
<1>8. Served(i, outcome[i]) => outcome'[i] # "error"
  BY <1>1, Serves DEF Outcomes
<1>9. kind = "extension" /\ outcome'[i] # "error" => dest'.executable
  <2> SUFFICES ASSUME kind = "extension", outcome'[i] # "error" PROVE dest'.executable
    OBVIOUS
  <2>1. ~Fail(i)
    BY Fails
  <2>2. dest' = [dest EXCEPT !.executable = TRUE]
    BY <1>2, <2>1 DEF Finish
  <2> QED BY <1>2, <2>2 DEF Directories
<1>10. outcome'[i] = "error" =>
         ~ManifestParses(staged[i].manifest, kind) \/ failures' > failures
  BY <1>2, <1>8 DEF Finish, Readable, Refuse, Types, TypeOK
<1> QED BY <1>2, <1>4, <1>7, <1>9, <1>10 DEF NewInPlace

LEMMA DiscardKeeps ==
  ASSUME Types, NEW i \in Installers, Journal(i), Discard(i)
  PROVE  /\ Journal(i)'
         /\ pc'[i] = "done" => ~before'[i].there
<1>1. /\ pc[i] = "failed" /\ UNCHANGED <<backup, before, had>> /\ before[i] \in Directories
      /\ IF had[i] THEN backup[i] = before[i] ELSE ~before[i].there
      /\ failures >= 1 /\ failures \in Nat
  BY InstallAssumption DEF Discard, Journal, Types, TypeOK
<1>2. CASE ~had[i]
  <2>1. pc'[i] = "done"
    BY <1>2, Fails DEF Discard
  <2>2. ~Whole(before'[i])
    BY <1>1, <1>2, NotThere
  <2> QED BY <1>1, <1>2, <2>1, <2>2 DEF Journal, Kept
<1>3. CASE had[i] /\ UNCHANGED <<pc, failures>>
  BY <1>1, <1>3 DEF Journal
<1>4. CASE /\ had[i] /\ Goto(i, "restore")
           /\ (dest' = Absent /\ UNCHANGED failures) \/ Refuse
  <2>1. pc'[i] = "restore"
    BY <1>4, Goes DEF Places
  <2>2. failures' >= 1 /\ (dest' = Absent \/ failures' >= 2)
    BY <1>1, <1>4 DEF Refuse
  <2> QED BY <1>1, <1>4, <2>1, <2>2 DEF Journal
<1> QED BY <1>2, <1>3, <1>4 DEF Discard

LEMMA RestoreKeeps ==
  ASSUME Types, NEW i \in Installers, Journal(i), Restore(i)
  PROVE  /\ Journal(i)'
         /\ pc'[i] = "done" => dest' = before'[i]
<1>1. /\ pc[i] = "restore" /\ backup[i] = before[i] /\ before' = before
      /\ failures >= 1 /\ (dest = Absent \/ failures >= 2) /\ failures \in Nat
      /\ dest \in Directories
  BY InstallAssumption DEF Restore, Journal, Types, TypeOK
<1>2. CASE Fail(i) /\ dest' = backup[i]
  <2>1. pc'[i] = "done" /\ dest' = before'[i]
    BY <1>1, <1>2, Fails
  <2> QED BY <2>1 DEF Journal, Kept
<1>3. CASE /\ IF Empty(dest) THEN Refuse ELSE UNCHANGED failures
           /\ dest' = [dest EXCEPT !.there = TRUE] /\ UNCHANGED backup
           /\ left' = [left EXCEPT ![i] = {f \in Files : backup[i][f] # Missing}]
           /\ Goto(i, "recopy")
  <2>1. pc'[i] = "recopy" /\ dest'.there
    BY <1>1, <1>3, Goes DEF Places, Directories
  <2>2. left'[i] = {f \in Files : before'[i][f] # Missing}
    BY <1>1, <1>3 DEF Types, TypeOK
  <2>3. failures' >= 2
    BY <1>1, <1>3, AbsentTyped DEF Refuse
  <2>4. \A f \in Files \ left'[i] : CopiedBack(i, f)'
    BY <2>2 DEF CopiedBack
  <2> QED BY <1>1, <1>3, <2>1, <2>2, <2>3, <2>4 DEF Journal
<1> QED BY <1>2, <1>3 DEF Restore

\* A package that is copied back with all its files is the one that was there.
LEMMA AllBack ==
  ASSUME Types, NEW i \in Installers, dest.there, Whole(before[i]),
         \A f \in Files : CopiedBack(i, f)
  PROVE  dest = before[i]
<1>1. before[i] \in Directories /\ dest \in Directories
  BY DEF Types, TypeOK
<1>2. before[i].manifest # Missing /\ before[i].payload # Missing
  BY DEF Whole
<1>3. before[i].there
  BY <1>1, <1>2 DEF Directories, Empty
<1>4. "manifest" \in Files /\ "payload" \in Files
  BY DEF Files
<1>5. dest.manifest = before[i].manifest
  BY <1>2, <1>4 DEF CopiedBack
<1>6. /\ dest.payload = before[i].payload
      /\ dest.executable = before[i].executable
  BY <1>2, <1>4 DEF CopiedBack
<1> QED BY <1>1, <1>3, <1>5, <1>6 DEF Directories

LEMMA CopyBackKeeps ==
  ASSUME Types, NEW i \in Installers, Journal(i), CopyBack(i)
  PROVE  /\ Journal(i)'
         /\ pc'[i] = "done" =>
              \/ dest' = before'[i]
              \/ /\ backup'[i] = before'[i]
                 /\ failures' >= IF Whole(before'[i]) THEN 3 ELSE 2
<1>1. /\ pc[i] = "recopy" /\ backup[i] = before[i] /\ failures >= 2 /\ dest.there
      /\ left[i] \subseteq {f \in Files : before[i][f] # Missing}
      /\ \A f \in Files \ left[i] : CopiedBack(i, f)
      /\ UNCHANGED <<backup, before>> /\ failures \in Nat
      /\ dest \in Directories /\ before[i] \in Directories
  BY InstallAssumption DEF CopyBack, Journal, Types, TypeOK
<1>2. ASSUME Fail(i)
      PROVE  Journal(i)' /\ pc'[i] = "done"
  <2>1. pc'[i] = "done"
    BY <1>2, Fails
  <2> QED BY <1>1, <2>1 DEF Journal, Kept
<1>3. CASE Fail(i) /\ Refuse
  <2>1. failures' >= 3 /\ failures' >= 2
    BY <1>1, <1>3 DEF Refuse
  <2>2. backup'[i] = before'[i] /\ Journal(i)'
    BY <1>1, <1>2, <1>3
  <2> QED BY <2>1, <2>2
<1>4. CASE /\ Fail(i) /\ UNCHANGED <<dest, failures>>
           /\ \A f \in left[i] : backup[i][f] = Missing
  <2>1. left[i] = {}
    BY <1>1, <1>4
  <2>2. Whole(before[i]) => dest = before[i]
    BY <1>1, <2>1, AllBack
  <2> QED BY <1>1, <1>2, <1>4, <2>2
<1>5. ASSUME NEW f \in left[i], dest' = Copied(dest, backup[i], f),
             left' = [left EXCEPT ![i] = @ \ {f}], UNCHANGED <<pc, failures>>
      PROVE  Journal(i)' /\ pc'[i] # "done"
  <2>1. left'[i] = left[i] \ {f}
    BY <1>5 DEF Types, TypeOK
  <2>2. f \in Files /\ dest'.there
    BY <1>1, <1>5, CopiedTyped
  <2>3. ASSUME NEW g \in Files \ left'[i] PROVE CopiedBack(i, g)'
    <3>1. CASE g = f
      BY <1>1, <1>5, <2>2, <3>1 DEF CopiedBack, Copied, Files, Directories
    <3>2. CASE g # f
      <4>1. CopiedBack(i, g) /\ g \in Files
        BY <1>1, <2>1, <2>3, <3>2
      <4>2. g = "manifest" \/ g = "payload"
        BY <4>1 DEF Files
      <4> QED BY <1>1, <1>5, <2>2, <3>2, <4>1, <4>2 DEF CopiedBack, Copied, Files, Directories
    <3> QED BY <3>1, <3>2
  <2> QED BY <1>1, <1>5, <2>1, <2>2, <2>3 DEF Journal
<1> QED BY <1>1, <1>3, <1>4, <1>5 DEF CopyBack

\* At any place the old package is in the backup, or a whole one is in place.
LEMMA AlwaysKept ==
  ASSUME Types, NEW i \in Installers, Journal(i)
  PROVE  /\ Kept(i)
         /\ pc[i] \in {"copy", "recopy"} => (Whole(before[i]) => backup[i] = before[i])
<1>1. before[i] \in Directories /\ pc[i] \in Places
  BY DEF Types, TypeOK, Places
<1>2. CASE pc[i] = "idle"
  <2>1. before[i] = Absent
    BY <1>2 DEF Types, Pending
  <2> QED BY <1>2, <2>1, AbsentTyped DEF Kept
<1>3. CASE pc[i] \in {"place", "aside", "next", "done", "crashed", "restore", "recopy"}
  BY <1>3 DEF Journal, Kept
<1>4. CASE pc[i] \in {"move", "copy", "failed"}
  BY <1>1, <1>4, NotThere DEF Journal, Kept
<1>5. CASE pc[i] \in {"placed", "finish"}
  BY <1>5, InPlace DEF Kept
<1> QED BY <1>1, <1>2, <1>3, <1>4, <1>5 DEF Places

LEMMA CrashKeeps ==
  ASSUME Types, NEW i \in Installers, Journal(i), Crash(i)
  PROVE  Journal(i)'
<1>1. pc'[i] = "crashed" /\ UNCHANGED <<backup, before>>
  BY Goes DEF Crash, Places
<1>2. dest' = dest \/ pc[i] \in {"copy", "recopy"}
  BY DEF Crash
<1>3. Kept(i)'
  BY <1>1, <1>2, AlwaysKept DEF Kept
<1> QED BY <1>1, <1>3 DEF Journal

LEMMA SafeNext == Safe /\ [Next]_vars => Safe'
<1> SUFFICES ASSUME Safe, [Next]_vars PROVE Safe'
  OBVIOUS
<1>1. Types /\ Types'
  BY TypesNext DEF Safe
<1>2. CASE UNCHANGED vars
  BY <1>1, <1>2 DEF Safe, vars, Undisturbed, Removing, Active, Journal, Kept, Has, CopiedBack
<1>3. ASSUME Next, NEW i \in Installers, alone'[i]
      PROVE  Undisturbed(i)' /\ Journal(i)'
  <2>1. /\ Step(i) /\ Undisturbed(i)'
        /\ Begin(i) \/ (alone[i] /\ Journal(i))
    BY <1>3, AloneMoves
  <2>2. Journal(i)'
    BY <1>1, <2>1, BeginKeeps, JudgeKeeps, LookKeeps, MoveAsideKeeps, MoveKeeps,
       CopyFileKeeps, DropBackupKeeps, FinishKeeps, DiscardKeeps, RestoreKeeps,
       CopyBackKeeps, CrashKeeps DEF Step
  <2> QED BY <2>1, <2>2
<1> QED BY <1>1, <1>2, <1>3 DEF Safe

LEMMA SpecSafe == Spec => []Safe
<1>1. Init => Safe
  BY InitTypes DEF Init, Safe
<1> QED BY <1>1, SafeNext, PTL DEF Spec

\* Wherever an installer fails or is killed, and whether the new package is
\* renamed or copied, a whole package is in place or the old one in its backup,
\* unless somebody else has been at work on it.
THEOREM NothingIsLost == Spec => []NothingLost
<1>1. Safe => NothingLost
  BY AlwaysKept DEF Safe, NothingLost, Kept
<1> QED BY <1>1, SpecSafe, PTL

LEMMA ErrorReported ==
  ASSUME Safe, NEW i \in Installers, alone[i], Journal(i), Step(i),
         Active(i)
  PROVE  ErrorIsTrue(i)
<1> SUFFICES ASSUME pc'[i] = "done", outcome'[i] = "error"
             PROVE  \/ ~before'[i].there
                    \/ dest' = before'[i]
                    \/ /\ pc[i] = "finish" /\ NewInPlace(i)
                       /\ ~ManifestParses(staged[i].manifest, kind) \/ failures' > failures
                    \/ /\ backup'[i] = before'[i]
                       /\ failures' >= IF Whole(before'[i]) THEN 3 ELSE 2
  BY DEF ErrorIsTrue
<1>0. Types
  BY DEF Safe
<1>1. CASE Judge(i)
  BY <1>0, <1>1 DEF Judge, Types, disk
<1>2. CASE Look(i) \/ MoveAside(i) \/ Restore(i)
  BY <1>0, <1>2, LookKeeps, MoveAsideKeeps, RestoreKeeps
<1>3. CASE Finish(i)
  <2>1. pc[i] = "finish"
    BY <1>3 DEF Finish
  <2> QED BY <1>0, <1>3, <2>1, FinishKeeps
<1>4. CASE Discard(i)
  BY <1>0, <1>4, DiscardKeeps
<1>5. CASE CopyBack(i)
  BY <1>0, <1>5, CopyBackKeeps
<1>6. CASE Begin(i) \/ Move(i) \/ CopyFile(i) \/ DropBackup(i) \/ Crash(i)
  <2>1. \/ pc'[i] = pc[i]
        \/ \E where \in Places : Goto(i, where) /\ where # "done"
    BY <1>6 DEF Begin, Move, CopyFile, DropBackup, Crash, Places
  <2> QED BY <1>0, <2>1, Goes DEF Active
<1> QED BY <1>1, <1>2, <1>3, <1>4, <1>5, <1>6 DEF Step

LEMMA SuccessReported ==
  ASSUME Safe, NEW i \in Installers, Journal(i), Step(i)
  PROVE  SuccessIsTrue(i)
<1> SUFFICES ASSUME pc[i] = "finish", outcome'[i] # "error", pc'[i] \in {"next", "done"}
             PROVE  NewInPlace(i) /\ (kind = "extension" => dest'.executable)
  BY DEF SuccessIsTrue
<1>1. Types
  BY DEF Safe
<1>2. ~Crash(i)
  BY <1>1, Goes DEF Crash, Places
<1>3. Finish(i)
  BY <1>2 DEF Step, Begin, Judge, Look, MoveAside, Move, CopyFile, DropBackup,
              Discard, Restore, CopyBack
<1> QED BY <1>1, <1>3, FinishKeeps

\* A success means that all of the package is in place and can be run. An error
\* means that the package that was there is as it was, unless the new one is in
\* place and only its mode or its manifest was refused, or undoing the install
\* failed as well; then the backup has the old one.
THEOREM ReportsAreTrue == Spec => ReportIsTrue
<1>1. ASSUME Safe, Next, NEW i \in Installers, Active(i), alone[i]
      PROVE  SuccessIsTrue(i) /\ ErrorIsTrue(i)
  <2>1. Types /\ Journal(i) /\ Undisturbed(i)
    BY <1>1 DEF Safe
  <2>2. CASE Step(i)
    <3>1. SuccessIsTrue(i)
      BY <1>1, <2>1, <2>2, SuccessReported
    <3>2. ErrorIsTrue(i)
      BY <1>1, <2>1, <2>2, ErrorReported
    <3> QED BY <3>1, <3>2
  <2>3. CASE ~Step(i)
    <3>1. pc'[i] = pc[i]
      <4>1. CASE RemoveBegin \/ RemoveFile \/ RemoveEnds
        BY <4>1 DEF RemoveBegin, RemoveFile, RemoveEnds
      <4>2. CASE \E j \in Installers : Step(j)
        BY <2>1, <2>3, <4>2, StepTypes DEF Proper, Steady
      <4> QED BY <1>1, <4>1, <4>2 DEF Next
    <3> QED BY <1>1, <3>1 DEF Active, SuccessIsTrue, ErrorIsTrue
  <2> QED BY <2>2, <2>3
<1>2. Safe /\ [Next]_vars =>
        [\A i \in Installers : Active(i) /\ alone[i] => SuccessIsTrue(i) /\ ErrorIsTrue(i)]_vars
  BY <1>1
<1> QED BY <1>2, SpecSafe, PTL DEF Spec, ReportIsTrue

-----------------------------------------------------------------------------
(* Two installers that are not alone. *)

Pair == \E i, j \in Installers : Installers = {i, j}

\* Nobody asks for the package twice.
AskedOnce == \A application \in Applications : Len(application) = 1

\* The runs FreshInstallsAgree is about; it speaks of them when they have
\* ended, here it is about any state of theirs.
Plain ==
    /\ sameFs /\ failures = 0 /\ crashes = 0 /\ remover = "idle"
    /\ \A i \in Installers : outcome[i] \notin {"replace", "error"}

Behind == {"placed", "finish", "done"}

\* A package is there because somebody has placed it. Who copies over it is the
\* other one, and then nobody else is going to touch it.
OneAfterTheOther ==
    /\ dest.there => \E j \in Installers : pc[j] \in Behind \cup {"copy"}
    /\ \A i \in Installers : pc[i] \notin {"failed", "restore", "recopy", "crashed"}
    /\ (\A i \in Installers : pc[i] # "copy") => dest = Absent \/ Whole(dest)
    /\ \A i \in Installers : pc[i] = "copy" =>
         /\ dest.there /\ \A f \in Files \ left[i] : Has(i, f)
         /\ \A j \in Installers \ {i} : pc[j] \in Behind

\* The last outcome of an installer is its only one.
Once(i) ==
    /\ Len(queue[i]) =< 1
    /\ pc[i] \in {"idle", "next"} => outcome[i] = "none"

Agreeing ==
    /\ Types /\ \A i \in Installers : Once(i)
    /\ Plain => OneAfterTheOther

LEMMA InitAgreeing == Init => Agreeing
<1> SUFFICES ASSUME Init PROVE Agreeing
  OBVIOUS
<1>1. Types
  BY InitTypes
<1>2. \A i \in Installers : Once(i)
  <2>1. Len(<<>>) = 0
    OBVIOUS
  <2> QED BY <2>1 DEF Init, Once
<1>3. OneAfterTheOther
  BY AbsentTyped DEF Init, OneAfterTheOther
<1> QED BY <1>1, <1>2, <1>3 DEF Agreeing

LEMMA OneLeft ==
  ASSUME Types, NEW i \in Installers, Once(i), queue[i] # <<>>
  PROVE  Len(queue[i]) = 1
<1>1. ASSUME NEW n \in Nat, n # 0, n =< 1 PROVE n = 1
  BY <1>1
<1>2. Len(queue[i]) \in Nat /\ Len(queue[i]) # 0
  BY EmptySeq, LenProperties DEF Types
<1>3. Len(queue[i]) =< 1
  BY DEF Once
<1> QED BY Zenon, <1>1, <1>2, <1>3

\* Nothing makes an installer forget its outcome, but another request.
LEMMA OnceStays ==
  ASSUME AskedOnce, Types, NEW i \in Installers, Once(i), Step(i)
  PROVE  /\ Once(i)'
         /\ outcome[i] \in {"replace", "error"} => outcome'[i] \in {"replace", "error"}
<1>0. /\ queue[i] \in Seq(DOMAIN Requests) /\ Len(queue[i]) \in Nat
      /\ queue[i] # <<>> => Len(queue[i]) = 1
  BY OneLeft, LenProperties DEF Types
<1>1. CASE Fail(i)
  <2>1. pc'[i] = "done" /\ outcome'[i] = "error" /\ queue'[i] = <<>>
    BY <1>1, Fails DEF Fail, Types
  <2>2. Len(<<>>) = 0
    OBVIOUS
  <2> QED BY <2>1, <2>2 DEF Once
<1>2. ASSUME NEW how \in Outcomes, Served(i, how), queue[i] # <<>>
      PROVE  /\ Once(i)' /\ outcome'[i] = how
  <2>1. /\ Goto(i, "done") /\ outcome'[i] = how /\ queue'[i] = Tail(queue[i])
    BY <1>0, <1>2, Serves DEF Served, Types
  <2>2. pc'[i] = "done"
    BY <2>1, Goes DEF Places
  <2>3. Len(Tail(queue[i])) = Len(queue[i]) - 1
    BY <1>0, <1>2, HeadTailProperties
  <2> QED BY <1>0, <1>2, <2>1, <2>2, <2>3 DEF Once
<1>3. CASE Begin(i)
  <2>1. PICK application \in Applications : queue' = [queue EXCEPT ![i] = application]
    BY <1>3 DEF Begin
  <2>2. Len(queue'[i]) = 1
    BY <2>1 DEF AskedOnce, Types
  <2>3. pc[i] = "idle" /\ outcome' = outcome
    BY <1>3 DEF Begin
  <2> QED BY <2>2, <2>3 DEF Once
<1>4. CASE Judge(i)
  <2>1. pc[i] = "next" /\ outcome[i] = "none" /\ queue[i] # <<>>
    BY <1>4 DEF Judge, Once, Types, Pending
  <2>2. CASE Fail(i) \/ Served(i, "skip")
    BY <1>1, <1>2, <2>1, <2>2 DEF Outcomes
  <2>3. CASE Goto(i, "place") /\ UNCHANGED queue
    <3>1. pc'[i] = "place"
      BY <2>3, Goes DEF Places
    <3> QED BY <2>1, <2>3, <3>1 DEF Once
  <2> QED BY <1>4, <2>2, <2>3 DEF Judge
<1>5. CASE Finish(i)
  <2>1. pc[i] = "finish" /\ queue[i] # <<>> /\ outcome[i] \in Outcomes
    BY <1>5 DEF Finish, Types, TypeOK, Pending, Working, Outcomes
  <2>2. Fail(i) \/ Served(i, outcome[i])
    BY <1>5 DEF Finish
  <2> QED BY <1>1, <1>2, <2>1, <2>2
<1>6. CASE Crash(i)
  <2>1. pc'[i] = "crashed" /\ outcome' = outcome /\ queue'[i] = <<>>
    BY <1>6, Goes DEF Crash, Places, Types
  <2>2. Len(<<>>) = 0
    OBVIOUS
  <2> QED BY <2>1, <2>2 DEF Once
<1>7. CASE /\ ~Fail(i)
           /\ \/ Look(i) \/ MoveAside(i) \/ Move(i) \/ CopyFile(i) \/ DropBackup(i)
              \/ Discard(i) \/ Restore(i) \/ CopyBack(i)
  <2>1. /\ UNCHANGED <<queue, outcome>>
        /\ \/ \E where \in Places \ {"idle", "next"} : Goto(i, where)
           \/ pc' = pc /\ pc[i] \notin {"idle", "next"}
    BY <1>7 DEF Look, MoveAside, Move, CopyFile, DropBackup, Discard, Restore, CopyBack,
                Places
  <2>2. pc'[i] \notin {"idle", "next"}
    BY <2>1, Goes
  <2> QED BY <2>1, <2>2 DEF Once
<1> QED BY <1>1, <1>3, <1>4, <1>5, <1>6, <1>7 DEF Step

LEMMA OnceNext ==
  ASSUME AskedOnce, Types, \A i \in Installers : Once(i), Next
  PROVE  /\ \A i \in Installers : Once(i)'
         /\ \A i \in Installers :
              outcome[i] \in {"replace", "error"} => outcome'[i] \in {"replace", "error"}
<1>1. CASE RemoveBegin \/ RemoveFile \/ RemoveEnds
  BY <1>1 DEF RemoveBegin, RemoveFile, RemoveEnds, Once
<1>2. ASSUME NEW j \in Installers, Step(j), NEW i \in Installers
      PROVE  /\ Once(i)'
             /\ outcome[i] \in {"replace", "error"} => outcome'[i] \in {"replace", "error"}
  <2>1. CASE i = j
    <3>1. Once(j)
      OBVIOUS
    <3> HIDE DEF Once
    <3> QED BY <1>2, <2>1, <3>1, OnceStays
  <2>2. CASE i # j
    BY <1>2, <2>2, StepTypes DEF Proper, Steady, Once
  <2> QED BY <2>1, <2>2
<1> QED BY <1>1, <1>2 DEF Next

\* A plain run was so from its start.
LEMMA PlainBefore ==
  ASSUME AskedOnce, Types, \A i \in Installers : Once(i), Next, Plain'
  PROVE  Plain /\ ~Removing /\ \E i \in Installers : Step(i)
<1>1. \A i \in Installers : outcome[i] \notin {"replace", "error"}
  BY OnceNext DEF Plain
<1>2. ~(RemoveBegin \/ RemoveFile \/ RemoveEnds)
  BY InstallAssumption DEF RemoveBegin, RemoveFile, RemoveEnds, Removing, Plain
<1>3. PICK i \in Installers : Step(i)
  BY <1>2 DEF Next
<1>4. remover = "idle"
  BY <1>3, InstallAssumption
     DEF Plain, Step, Begin, Judge, Look, MoveAside, Move, CopyFile, DropBackup, Finish,
         Discard, Restore, CopyBack, Crash
<1>5. sameFs /\ failures = 0 /\ crashes = 0
  <2>1. /\ sameFs' = sameFs /\ failures' \in {failures, failures + 1}
        /\ crashes' \in {crashes, crashes + 1}
    BY <1>3
       DEF Step, Begin, Judge, Look, MoveAside, Move, CopyFile, DropBackup, Finish,
           Discard, Restore, CopyBack, Crash, constants, Refuse
  <2>2. failures \in Nat /\ crashes \in Nat
    BY InstallAssumption DEF Types, TypeOK
  <2> QED BY <2>1, <2>2 DEF Plain
<1> QED BY <1>1, <1>3, <1>4, <1>5 DEF Plain, Removing

\* The other one.
LEMMA TheOther ==
  ASSUME Pair, NEW i \in Installers, NEW j \in Installers, NEW k \in Installers,
         i # j, k # i
  PROVE  k = j
BY DEF Pair

\* A step that neither starts nor does a copy, and leaves the files alone.
LEMMA AgreesStill ==
  ASSUME NEW i \in Installers, OneAfterTheOther, pc[i] # "copy",
         pc'[i] \notin {"copy", "failed", "restore", "recopy", "crashed"},
         pc[i] \in Behind => pc'[i] \in Behind,
         \A j \in Installers \ {i} :
            pc'[j] = pc[j] /\ left'[j] = left[j] /\ staged'[j] = staged[j],
         dest = Absent => dest' = Absent, dest'.there = dest.there,
         dest'.manifest = dest.manifest, dest'.payload = dest.payload
  PROVE  OneAfterTheOther'
<1>1. dest'.there => \E j \in Installers : pc'[j] \in Behind \cup {"copy"}
  BY DEF OneAfterTheOther
<1>2. \A j \in Installers : pc'[j] \notin {"failed", "restore", "recopy", "crashed"}
  BY DEF OneAfterTheOther
<1>3. (\A j \in Installers : pc'[j] # "copy") => dest' = Absent \/ Whole(dest)'
  BY DEF OneAfterTheOther, Whole
<1>4. ASSUME NEW j \in Installers, pc'[j] = "copy"
      PROVE  /\ dest'.there /\ \A f \in Files \ left'[j] : Has(j, f)'
             /\ \A k \in Installers \ {j} : pc'[k] \in Behind
  <2>1. j # i /\ pc[j] = "copy"
    BY <1>4
  <2>2. /\ dest.there /\ \A f \in Files \ left[j] : dest[f] = staged[j][f]
        /\ \A k \in Installers \ {j} : pc[k] \in Behind
    BY <2>1 DEF OneAfterTheOther, Has
  <2>3. \A f \in Files : dest'[f] = dest[f]
    BY DEF Files
  <2>4. \A f \in Files \ left'[j] : Has(j, f)'
    BY <2>1, <2>2, <2>3 DEF Has
  <2>5. \A k \in Installers \ {j} : pc'[k] \in Behind
    BY <2>2
  <2> QED BY <2>2, <2>4, <2>5
<1> QED BY <1>1, <1>2, <1>3, <1>4 DEF OneAfterTheOther

LEMMA MoveAsideAgrees ==
  ASSUME Types, NEW i \in Installers, MoveAside(i), OneAfterTheOther,
         outcome'[i] # "error"
  PROVE  OneAfterTheOther'
<1>1. dest' = Absent /\ Goto(i, "move") /\ pc[i] = "aside"
  BY Fails DEF MoveAside
<1>2. pc'[i] = "move" /\ \A j \in Installers \ {i} : pc'[j] = pc[j]
  BY <1>1, Goes DEF Places
<1>3. \A j \in Installers : pc[j] # "copy"
  BY <1>1 DEF OneAfterTheOther, Behind
<1>4. \A j \in Installers : pc'[j] \notin {"copy", "failed", "restore", "recopy", "crashed"}
  BY <1>2, <1>3 DEF OneAfterTheOther
<1> QED BY <1>1, <1>4, AbsentTyped DEF OneAfterTheOther

LEMMA MoveAgrees ==
  ASSUME Pair, Types, NEW i \in Installers, Move(i), OneAfterTheOther,
         sameFs, failures = 0, failures' = 0
  PROVE  OneAfterTheOther'
<1>1. pc[i] = "move" /\ staged' = staged
  BY DEF Move
<1>2. ASSUME NEW j \in Installers PROVE pc[j] # "copy"
  BY <1>1 DEF OneAfterTheOther, Behind
<1>3. CASE Empty(dest)
  <2>1. /\ Goto(i, "placed")
        /\ dest' = [there |-> TRUE, manifest |-> staged[i].manifest,
                    payload |-> staged[i].payload, executable |-> FALSE]
    BY <1>3 DEF Move
  <2>2. pc'[i] = "placed" /\ \A j \in Installers \ {i} : pc'[j] = pc[j]
    BY <2>1, Goes DEF Places
  <2>3. \A j \in Installers : pc'[j] \notin {"copy", "failed", "restore", "recopy", "crashed"}
    BY <1>2, <2>2 DEF OneAfterTheOther
  <2>4. Whole(dest)'
    BY <1>1, <2>1, StagedTyped DEF Whole, Working
  <2> QED BY <2>2, <2>3, <2>4 DEF OneAfterTheOther, Behind
<1>4. CASE ~Empty(dest)
  <2>1. /\ Goto(i, "copy") /\ dest' = [dest EXCEPT !.there = TRUE]
        /\ left' = [left EXCEPT ![i] = Files]
    BY <1>4 DEF Move, Refuse
  <2>2. pc'[i] = "copy" /\ \A j \in Installers \ {i} : pc'[j] = pc[j]
    BY <2>1, Goes DEF Places
  <2>3. dest.there /\ dest'.there /\ left'[i] = Files
    BY <1>4, <2>1 DEF Types, TypeOK, Directories
  <2>4. PICK k \in Installers : pc[k] \in Behind
    BY <1>2, <2>3 DEF OneAfterTheOther
  <2>5. \A j \in Installers \ {i} : pc'[j] \in Behind
    BY <1>1, <2>2, <2>4, TheOther DEF Behind
  <2>6. \A j \in Installers : pc'[j] = "copy" => j = i
    BY <2>5 DEF Behind
  <2>7. \A j \in Installers : pc'[j] \notin {"failed", "restore", "recopy", "crashed"}
    BY <2>2, <2>5 DEF Behind
  <2> QED BY <2>2, <2>3, <2>5, <2>6, <2>7 DEF OneAfterTheOther
<1> QED BY <1>3, <1>4

LEMMA CopyFileAgrees ==
  ASSUME Types, NEW i \in Installers, CopyFile(i), OneAfterTheOther,
         failures = 0, failures' = 0
  PROVE  OneAfterTheOther'
<1>1. /\ pc[i] = "copy" /\ staged' = staged
      /\ dest.there /\ \A f \in Files \ left[i] : Has(i, f)
      /\ \A j \in Installers \ {i} : pc[j] \in Behind
      /\ dest \in Directories /\ left[i] \subseteq Files
  BY DEF CopyFile, OneAfterTheOther, Types, TypeOK
<1>2. PICK f \in left[i] :
        /\ dest' = [dest EXCEPT ![f] = staged[i][f]]
        /\ left' = [left EXCEPT ![i] = @ \ {f}]
        /\ Goto(i, IF left[i] = {f} THEN "placed" ELSE "copy")
  BY <1>1 DEF CopyFile, Refuse
<1>3. /\ pc'[i] = IF left[i] = {f} THEN "placed" ELSE "copy"
      /\ \A j \in Installers \ {i} : pc'[j] = pc[j]
  <2>1. PICK where \in Places : where = (IF left[i] = {f} THEN "placed" ELSE "copy")
    BY DEF Places
  <2> QED BY <1>2, <2>1, Goes
<1>4. dest'.there /\ left'[i] = left[i] \ {f} /\ \A g \in Files \ left'[i] : Has(i, g)'
  <2>1. f \in Files
    BY <1>1
  <2>2. dest'.there /\ dest'[f] = staged[i][f] /\ \A g \in Files \ {f} : dest'[g] = dest[g]
    BY <1>1, <1>2, <2>1 DEF Directories, Files
  <2>3. left'[i] = left[i] \ {f}
    BY <1>2 DEF Types, TypeOK
  <2> QED BY <1>1, <2>2, <2>3 DEF Has
<1>5. \A j \in Installers \ {i} : pc'[j] \in Behind
  BY <1>1, <1>3
<1>6. pc'[i] # "copy" => Whole(dest)'
  <2> SUFFICES ASSUME left[i] = {f} PROVE Whole(dest)'
    BY <1>3
  <2>1. \A g \in Files : dest'[g] = staged[i][g]
    BY <1>1, <1>4 DEF Has
  <2>2. dest'.manifest = staged[i].manifest /\ dest'.payload = staged[i].payload
    BY <2>1, FilesOf
  <2> QED BY <1>1, <2>2, StagedTyped DEF Whole, Working
<1>7. \A j \in Installers : pc'[j] \notin {"failed", "restore", "recopy", "crashed"}
  BY <1>3, <1>5 DEF Behind
<1>8. \A j \in Installers : pc'[j] = "copy" => j = i
  BY <1>5 DEF Behind
<1> QED BY <1>3, <1>4, <1>5, <1>6, <1>7, <1>8 DEF OneAfterTheOther, Behind

LEMMA FinishAgrees ==
  ASSUME Types, NEW i \in Installers, Finish(i), OneAfterTheOther, Once(i),
         outcome'[i] # "error"
  PROVE  OneAfterTheOther'
<1>1. pc[i] = "finish" /\ queue[i] # <<>> /\ outcome[i] \in Outcomes
  BY DEF Finish, Types, TypeOK, Pending, Working, Outcomes
<1>2. Served(i, outcome[i]) /\ UNCHANGED left
  BY Fails DEF Finish
<1>3. pc'[i] = "done"
  <2>1. Len(queue[i]) = 1
    BY <1>1, OneLeft
  <2>2. Goto(i, "done")
    BY <1>2, <2>1 DEF Served
  <2> QED BY <2>2, Goes DEF Places
<1>4. \A j \in Installers \ {i} : pc'[j] = pc[j] /\ staged'[j] = staged[j]
  BY <1>1, <1>2, Serves
<1>5. /\ dest = Absent => dest' = Absent
      /\ dest'.there = dest.there
      /\ dest'.manifest = dest.manifest /\ dest'.payload = dest.payload
  <2>1. \/ dest' = dest
        \/ dest.payload # Missing /\ dest' = [dest EXCEPT !.executable = TRUE]
    BY DEF Finish
  <2>2. dest \in Directories /\ Absent.payload = Missing
    BY DEF Types, TypeOK, Absent
  <2> QED BY <2>1, <2>2, RunnableTyped
<1> QED BY <1>1, <1>2, <1>3, <1>4, <1>5, AgreesStill DEF Behind

LEMMA StepAgrees ==
  ASSUME Pair, Types, NEW i \in Installers, Step(i), OneAfterTheOther, Once(i),
         Plain, Plain'
  PROVE  OneAfterTheOther'
<1>1. /\ sameFs /\ failures = 0 /\ failures' = 0 /\ crashes = 0 /\ crashes' = 0
      /\ outcome'[i] # "error"
  BY DEF Plain
<1>2. Proper(i)
  BY StepTypes
<1>3. \A j \in Installers \ {i} :
        pc'[j] = pc[j] /\ left'[j] = left[j] /\ staged'[j] = staged[j]
  BY <1>2 DEF Proper, Steady
<1>4. CASE Begin(i) \/ Judge(i) \/ Look(i) \/ DropBackup(i)
  <2>1. dest' = dest /\ pc[i] # "copy"
    BY <1>4 DEF Begin, Judge, Look, DropBackup, disk
  <2>2. /\ pc'[i] \notin {"copy", "failed", "restore", "recopy", "crashed"}
        /\ pc[i] \in Behind => pc'[i] \in Behind
    <3>1. CASE Begin(i)
      BY <3>1, Goes DEF Begin, Places, Behind
    <3>2. CASE Judge(i)
      <4>1. pc[i] = "next" /\ queue[i] # <<>>
        BY <3>2 DEF Judge, Types, Pending
      <4>2. ~Fail(i)
        BY <1>1, Fails
      <4>3. CASE Served(i, "skip")
        BY <4>1, <4>3, Serves DEF Outcomes, Behind
      <4>4. CASE Goto(i, "place")
        BY <4>1, <4>4, Goes DEF Places, Behind
      <4> QED BY <3>2, <4>2, <4>3, <4>4 DEF Judge
    <3>3. CASE Look(i)
      <4>1. ~Fail(i)
        BY <1>1, Fails
      <4>2. PICK where \in {"aside", "move"} : Goto(i, where) /\ pc[i] = "place"
        BY <3>3, <4>1 DEF Look
      <4> QED BY <4>2, Goes DEF Places, Behind
    <3>4. CASE DropBackup(i)
      BY <3>4, Goes DEF DropBackup, Places, Behind
    <3> QED BY <1>4, <3>1, <3>2, <3>3, <3>4
  <2> QED BY <1>3, <2>1, <2>2, AgreesStill
<1>5. CASE MoveAside(i)
  BY <1>1, <1>5, MoveAsideAgrees
<1>6. CASE Move(i)
  BY <1>1, <1>6, MoveAgrees
<1>7. CASE CopyFile(i)
  BY <1>1, <1>7, CopyFileAgrees
<1>8. CASE Finish(i)
  BY <1>1, <1>8, FinishAgrees
<1>9. ~(Discard(i) \/ Restore(i) \/ CopyBack(i))
  BY DEF Discard, Restore, CopyBack, OneAfterTheOther
<1>10. ~Crash(i)
  BY <1>1 DEF Crash
<1> QED BY <1>4, <1>5, <1>6, <1>7, <1>8, <1>9, <1>10 DEF Step

LEMMA AgreeingNext ==
  ASSUME Pair, AskedOnce, Agreeing, [Next]_vars
  PROVE  Agreeing'
<1>1. Types /\ (\A i \in Installers : Once(i)) /\ (Plain => OneAfterTheOther)
  BY DEF Agreeing
<1>2. Types'
  BY <1>1, TypesNext
<1>3. CASE UNCHANGED vars
  <2>1. UNCHANGED <<sameFs, failures, crashes, remover, outcome, queue, pc, dest,
                    left, staged>>
    BY <1>3 DEF vars
  <2> QED BY <1>1, <1>2, <2>1 DEF Agreeing, Once, Plain, OneAfterTheOther, Has, Whole
<1>4. CASE Next
  <2>1. \A i \in Installers : Once(i)'
    BY <1>1, <1>4, OnceNext
  <2>2. ASSUME Plain' PROVE OneAfterTheOther'
    <3>1. Plain /\ \E i \in Installers : Step(i)
      BY <1>1, <1>4, <2>2, PlainBefore
    <3> QED BY <1>1, <2>2, <3>1, StepAgrees
  <2> QED BY <1>2, <2>1, <2>2 DEF Agreeing
<1> QED BY <1>3, <1>4

\* Two installers that meet leave one whole package in place, as long as the
\* renames work and neither is asked for the package twice: the one that comes
\* second may copy over the package of the first, but it copies all of it.
THEOREM TwoInstallersAgree ==
  ASSUME Pair, AskedOnce
  PROVE  Spec => []FreshInstallsAgree
<1>1. Init => Agreeing
  BY InitAgreeing
<1>2. Agreeing /\ [Next]_vars => Agreeing'
  BY AgreeingNext
<1>3. Agreeing => FreshInstallsAgree
  <2> SUFFICES ASSUME Agreeing, Plain, \A i \in Installers : ~Active(i)
               PROVE  dest = Absent \/ Whole(dest)
    BY DEF FreshInstallsAgree, Plain
  <2> QED BY DEF Agreeing, OneAfterTheOther, Active
<1> QED BY <1>1, <1>2, <1>3, PTL DEF Spec

=============================================================================
