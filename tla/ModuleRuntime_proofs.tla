------------------------- MODULE ModuleRuntime_proofs -------------------------
(***************************************************************************)
(* The module runtime, proved for every value of the constants: its types, *)
(* that a start gets as far as doctor says, that a reload keeps what ran   *)
(* and checks the schema of what it starts, and that the instances settle  *)
(* on what is on disk.                                                     *)
(***************************************************************************)
EXTENDS ModuleRuntime, TLAPS, NaturalsInduction, WellFoundedInduction

-----------------------------------------------------------------------------
(* Sequences. *)

LEMMA InRange ==
    ASSUME NEW S, NEW s \in Seq(S), NEW x
    PROVE  x \in Range(s) <=> \E i \in 1 .. Len(s) : s[i] = x
  BY SMT DEF Range

\* The first element of a sequence, and what is behind it.
LEMMA HeadAndTail ==
    ASSUME NEW S, NEW s \in Seq(S), s # <<>>
    PROVE  /\ Head(s) \in S
           /\ Tail(s) \in Seq(S)
           /\ Head(s) \in Range(s)
           /\ Range(s) = Range(Tail(s)) \cup {Head(s)}
  <1>1. Head(s) \in S /\ Tail(s) \in Seq(S)
    BY SMT
  <1>2. Head(s) \in Range(s)
    BY SMT DEF Range
  <1>3. Range(Tail(s)) \subseteq Range(s)
    BY SMT DEF Range
  <1>4. ASSUME NEW x \in Range(s), x # Head(s)
        PROVE  x \in Range(Tail(s))
    <2>1. PICK i \in 1 .. Len(s) : s[i] = x
      BY SMT DEF Range
    <2>2. i - 1 \in 1 .. Len(Tail(s)) /\ Tail(s)[i - 1] = x
      BY <1>4, <2>1, SMT
    <2>3. QED
      BY <1>1, <2>2, InRange
  <1>5. QED
    BY <1>1, <1>2, <1>3, <1>4

\* What is in a concatenation.
LEMMA RangeOfConcat ==
    ASSUME NEW S, NEW s \in Seq(S), NEW t \in Seq(S)
    PROVE  /\ s \o t \in Seq(S)
           /\ Range(s \o t) = Range(s) \cup Range(t)
  <1>1. s \o t \in Seq(S) /\ Len(s \o t) = Len(s) + Len(t)
    BY SMT
  <1>2. ASSUME NEW x \in Range(s \o t)
        PROVE  x \in Range(s) \cup Range(t)
    <2>1. PICK i \in 1 .. Len(s) + Len(t) : (s \o t)[i] = x
      BY <1>1, SMT DEF Range
    <2>2. CASE i =< Len(s)
      BY <2>1, <2>2, SMT DEF Range
    <2>3. CASE i > Len(s)
      <3>1. i - Len(s) \in 1 .. Len(t) /\ t[i - Len(s)] = x
        BY <2>1, <2>3, SMT
      <3>2. QED
        BY <3>1, SMT DEF Range
    <2>4. QED
      BY <2>1, <2>2, <2>3, SMT
  <1>3. ASSUME NEW x \in Range(s)
        PROVE  x \in Range(s \o t)
    <2>1. PICK i \in 1 .. Len(s) : s[i] = x
      BY SMT DEF Range
    <2>2. i \in 1 .. Len(s \o t) /\ (s \o t)[i] = x
      BY <1>1, <2>1, SMT
    <2>3. QED
      BY <1>1, <2>2, SMT DEF Range
  <1>4. ASSUME NEW x \in Range(t)
        PROVE  x \in Range(s \o t)
    <2>1. PICK i \in 1 .. Len(t) : t[i] = x
      BY SMT DEF Range
    <2>2. Len(s) + i \in 1 .. Len(s \o t) /\ (s \o t)[Len(s) + i] = x
      BY <1>1, <2>1, SMT
    <2>3. QED
      BY <1>1, <2>2, SMT DEF Range
  <1>5. QED
    BY <1>1, <1>2, <1>3, <1>4

\* A sequence of one.
LEMMA RangeOfOne ==
    ASSUME NEW S, NEW x \in S
    PROVE  <<x>> \in Seq(S) /\ Range(<<x>>) = {x}
  BY SMT DEF Range

\* A sequence without an element that was removed.
LEMMA RangeOfRemoveAt ==
    ASSUME NEW S, NEW s \in Seq(S), NEW i \in 1 .. Len(s)
    PROVE  /\ RemoveAt(s, i) \in Seq(S)
           /\ Range(RemoveAt(s, i)) \subseteq Range(s)
           /\ Range(s) \subseteq Range(RemoveAt(s, i)) \cup {s[i]}
  <1> DEFINE a == SubSeq(s, 1, i - 1)
             b == SubSeq(s, i + 1, Len(s))
  <1>1. /\ a \in Seq(S) /\ Len(a) = i - 1
        /\ \A j \in 1 .. i - 1 : a[j] = s[j]
    BY SMT
  <1>2. /\ b \in Seq(S) /\ Len(b) = Len(s) - i
        /\ \A j \in 1 .. Len(s) - i : b[j] = s[i + j]
    BY SMT
  <1>3. RemoveAt(s, i) = a \o b
    BY DEF RemoveAt
  <1> HIDE DEF a, b
  <1>4. RemoveAt(s, i) \in Seq(S) /\ Range(RemoveAt(s, i)) = Range(a) \cup Range(b)
    BY <1>1, <1>2, <1>3, RangeOfConcat
  <1>5. Range(a) \subseteq Range(s) /\ Range(b) \subseteq Range(s)
    <2>1. ASSUME NEW j \in 1 .. i - 1
          PROVE  a[j] \in Range(s)
      BY <1>1, SMT DEF Range
    <2>2. ASSUME NEW j \in 1 .. Len(s) - i
          PROVE  b[j] \in Range(s)
      <3>1. i + j \in 1 .. Len(s) /\ b[j] = s[i + j]
        BY <1>2, SMT
      <3>2. QED
        BY <3>1, InRange
    <2>3. ASSUME NEW x \in Range(a)
          PROVE  x \in Range(s)
      <3>1. PICK j \in 1 .. Len(a) : a[j] = x
        BY <1>1, InRange
      <3>2. QED
        BY <1>1, <2>1, <3>1
    <2>4. ASSUME NEW x \in Range(b)
          PROVE  x \in Range(s)
      <3>1. PICK j \in 1 .. Len(b) : b[j] = x
        BY <1>2, InRange
      <3>2. QED
        BY <1>2, <2>2, <3>1
    <2>5. QED
      BY <2>3, <2>4
  <1>6. ASSUME NEW j \in 1 .. Len(s), j # i
        PROVE  s[j] \in Range(a) \cup Range(b)
    <2>1. CASE j < i
      BY <1>1, <2>1, SMT DEF Range
    <2>2. CASE j > i
      <3>1. j - i \in 1 .. Len(b) /\ b[j - i] = s[j]
        BY <1>2, <2>2, SMT
      <3>2. b[j - i] \in Range(b)
        BY <1>2, <3>1, SMT DEF Range
      <3>3. QED
        BY <3>1, <3>2
    <2>3. QED
      BY <1>6, <2>1, <2>2, SMT
  <1>7. Range(s) \subseteq Range(a) \cup Range(b) \cup {s[i]}
    BY <1>6, SMT DEF Range
  <1>8. QED
    BY <1>4, <1>5, <1>7

\* A set of naturals has a least element.
LEMMA Least ==
    ASSUME NEW S \in SUBSET Nat, S # {}
    PROVE  Min(S) \in S
  <1> DEFINE less == OpToRel(<, Nat)
  <1>1. \A i, j \in Nat : i < j => <<i, j>> \in less
    BY DEF OpToRel
  <1>2. IsWellFoundedOn(less, Nat)
    BY NatLessThanWellFounded
  <1> HIDE DEF less
  <1>3. PICK m \in S : \A k \in S : ~(<<k, m>> \in less)
    BY <1>2, WFMin
  <1>4. ASSUME NEW k \in S
        PROVE  m =< k
    <2>1. ~(k < m)
      BY <1>1, <1>3
    <2>2. QED
      BY <2>1
  <1>5. QED
    BY <1>4 DEF Min

-----------------------------------------------------------------------------
(* Types. *)

Entries == [name : Names, conf : Configs]

\* What the host has as the config of an instance is what its guest was
\* initialised with, unless that has trapped.
Instances ==
    {m \in [name : Names, conf : Configs, manifest : Versions, wasm : Versions,
            guest : Configs \cup {Dead}] : m.guest \in {m.conf, Dead}}

File == Versions \cup {Missing, Torn}

Jobs ==
    [todo : Seq(Entries) \cup Seq(Instances), pool : Seq(Instances), kept : Seq(Instances),
     kinds : SUBSET Kinds, step : {"next", "manifest", "wasm"}, manifest : File,
     leave : BOOLEAN, live : SUBSET Names, was : SUBSET Names, gone : SUBSET Names]

Loops == {"activate", "reload", "wasm", "create"}

\* What each loop goes through, and how far it is with its task.
JobFits ==
    /\ pc = "wasm" => job.todo \in Seq(Instances)
    /\ pc # "wasm" => job.todo \in Seq(Entries)
    /\ job.step # "next" => job.todo # <<>>
    /\ job.step = "wasm" => job.manifest \in Versions
    /\ pc \notin Loops => job = NoJob

\* Idle is without a list and without instances.
IdleFits ==
    /\ idle \in BOOLEAN
    /\ idle => modules = <<>>
    /\ pc \notin Loops => (idle <=> loaded = <<>>)
    /\ pc \in {"boot", "activate"} => idle
    /\ pc \in {"reload", "wasm", "create"} => ~idle
    /\ pc \in Loops => loaded # <<>>
    /\ pc \in {"boot", "bind"} => ~bound

Types ==
    /\ disk \in [Kinds -> [manifest : File, wasm : File]]
    /\ arriving \in [Kinds -> Versions \cup {Missing}]
    /\ configured \in Lists /\ loaded \in Lists
    /\ modules \in Seq(Instances)
    /\ validated \subseteq Kinds
    /\ batch \in [config : BOOLEAN, kinds : SUBSET Kinds]
    /\ pc \in {"boot", "bind", "wait"} \cup Loops
    /\ job \in Jobs
    /\ failures \in Nat
    /\ JobFits
    /\ IdleFits

\* The instance a reload matches with an entry.
LEMMA SameIs ==
    ASSUME NEW name, job.pool \in Seq(Instances)
    PROVE  \/ Same(name) = 0 /\ name \notin NamesOf(job.pool)
           \/ Same(name) \in 1 .. Len(job.pool) /\ job.pool[Same(name)].name = name
  <1> DEFINE found == {i \in 1 .. Len(job.pool) : job.pool[i].name = name}
  <1>1. Same(name) = IF found # {} THEN Min(found) ELSE 0
    BY DEF Same, SelectInSeq
  <1>2. CASE found = {}
    <2>1. name \notin NamesOf(job.pool)
      BY <1>2, SMT DEF NamesOf
    <2>2. QED
      BY <1>1, <1>2, <2>1
  <1>3. CASE found # {}
    <2>1. Min(found) \in found
      <3>1. found \in SUBSET Nat
        BY SMT
      <3> HIDE DEF found
      <3>2. QED
        BY <1>3, <3>1, Least
    <2>2. QED
      BY <1>1, <1>3, <2>1
  <1>4. QED
    BY <1>2, <1>3

\* The task of a loop.
LEMMA TaskIs ==
    ASSUME Types, job.todo # <<>>
    PROVE  /\ Task \in Range(job.todo)
           /\ Range(job.todo) = Range(Tail(job.todo)) \cup {Task}
           /\ pc = "wasm" => Task \in Instances /\ Tail(job.todo) \in Seq(Instances)
           /\ pc # "wasm" => Task \in Entries /\ Tail(job.todo) \in Seq(Entries)
           /\ Task.name \in Names /\ Task.conf \in Configs /\ TaskKind \in Kinds
  <1>1. CASE pc = "wasm"
    <2>1. job.todo \in Seq(Instances)
      BY <1>1 DEF Types, JobFits
    <2>2. /\ Task \in Instances /\ Tail(job.todo) \in Seq(Instances)
          /\ Task \in Range(job.todo)
          /\ Range(job.todo) = Range(Tail(job.todo)) \cup {Task}
      BY <2>1, HeadAndTail, Zenon DEF Task
    <2>3. QED
      BY <1>1, <2>2, RuntimeAssumption DEF Instances, TaskKind
  <1>2. CASE pc # "wasm"
    <2>1. job.todo \in Seq(Entries)
      BY <1>2 DEF Types, JobFits
    <2>2. /\ Task \in Entries /\ Tail(job.todo) \in Seq(Entries)
          /\ Task \in Range(job.todo)
          /\ Range(job.todo) = Range(Tail(job.todo)) \cup {Task}
      BY <2>1, HeadAndTail, Zenon DEF Task
    <2>3. QED
      BY <1>2, <2>2, RuntimeAssumption DEF Entries, TaskKind
  <1>3. QED
    BY <1>1, <1>2

\* What Done does to the job.
LEMMA DoneIs ==
    ASSUME Types, job.todo # <<>>, NEW kept \in Seq(Instances), Done(kept)
    PROVE  /\ job' \in Jobs
           /\ job'.todo = Tail(job.todo) /\ job'.kept = job.kept \o kept
           /\ job'.step = "next"
           /\ job'.pool = job.pool /\ job'.kinds = job.kinds /\ job'.live = job.live
           /\ job'.was = job.was /\ job'.gone = job.gone /\ job'.leave = job.leave
  <1>1. Tail(job.todo) \in Seq(Entries) \cup Seq(Instances)
    BY TaskIs
  <1>2. job.kept \in Seq(Instances)
    BY DEF Types, Jobs
  <1>3. job.kept \o kept \in Seq(Instances)
    BY <1>2, RangeOfConcat
  <1>4. QED
    BY <1>1, <1>3 DEF Types, Jobs, Done, File

\* A step inside a loop keeps the types if what it does to the job does.
LEMMA LoopStep ==
    ASSUME Types, pc \in Loops,
           UNCHANGED <<files, configured, loaded, modules, idle, bound, batch, pc>>,
           validated' \subseteq Kinds, failures' \in Nat,
           job' \in Jobs,
           pc = "wasm" => job'.todo \in Seq(Instances),
           pc # "wasm" => job'.todo \in Seq(Entries),
           job'.step # "next" => job'.todo # <<>>,
           job'.step = "wasm" => job'.manifest \in Versions
    PROVE  Types'
  <1>1. JobFits'
    BY DEF JobFits
  <1>2. IdleFits'
    BY DEF Types, IdleFits
  <1>3. QED
    BY <1>1, <1>2 DEF Types, files

\* A step that is done with its task.
LEMMA DoneTypes ==
    ASSUME Types, pc \in Loops, job.todo # <<>>,
           UNCHANGED <<files, configured, loaded, modules, idle, bound, batch, pc>>,
           validated' \subseteq Kinds, failures' \in Nat,
           NEW kept \in Seq(Instances), Done(kept)
    PROVE  Types'
  <1>1. /\ job' \in Jobs /\ job'.step = "next" /\ job'.todo = Tail(job.todo)
    BY DoneIs
  <1>2. /\ pc = "wasm" => job'.todo \in Seq(Instances)
        /\ pc # "wasm" => job'.todo \in Seq(Entries)
    BY <1>1, TaskIs
  <1>3. QED
    BY <1>1, <1>2, LoopStep

LEMMA FailedTypes ==
    ASSUME Types, pc \in Loops, job.todo # <<>>,
           UNCHANGED <<files, configured, loaded, modules, idle, bound, batch, pc>>,
           validated' \subseteq Kinds, failures' \in Nat, Failed
    PROVE  Types'
  <1>1. CASE pc = "wasm"
    <2>1. <<Task>> \in Seq(Instances)
      BY <1>1, TaskIs, RangeOfOne
    <2>2. Done(<<Task>>)
      BY <1>1 DEF Failed
    <2>3. QED
      BY <2>1, <2>2, DoneTypes
  <1>2. CASE pc # "wasm"
    <2>1. <<>> \in Seq(Instances) /\ Done(<<>>)
      BY <1>2 DEF Failed
    <2>2. QED
      BY <2>1, DoneTypes
  <1>3. QED
    BY <1>1, <1>2

\* A step that goes on to read the manifest.
LEMMA StartTypes ==
    ASSUME Types, pc \in Loops, job.todo # <<>>,
           UNCHANGED <<files, configured, loaded, modules, idle, bound, batch, pc>>,
           validated' \subseteq Kinds, failures' \in Nat,
           job' = [job EXCEPT !.step = "manifest"]
    PROVE  Types'
  <1>1. job' \in Jobs /\ job'.step = "manifest" /\ job'.todo = job.todo
    BY DEF Types, Jobs
  <1>2. QED
    BY <1>1, LoopStep DEF Types, JobFits

\* The instance that ReadWasm may start.
Started == [name |-> Task.name, conf |-> Task.conf, manifest |-> job.manifest,
            wasm |-> disk[TaskKind].wasm, guest |-> Task.conf]

\* The ways a reload deals with an instance that it found under its name.
Reused(i, m) ==
    job' = [job EXCEPT !.todo = Tail(@), !.kept = Append(@, m), !.pool = RemoveAt(@, i)]

LEMMA ReusedIs ==
    ASSUME Types, job.todo # <<>>, NEW i \in 1 .. Len(job.pool), NEW m \in Instances,
           Reused(i, m)
    PROVE  /\ job' \in Jobs
           /\ job'.todo = Tail(job.todo) /\ job'.kept = job.kept \o <<m>>
           /\ job'.pool = RemoveAt(job.pool, i) /\ job'.step = job.step
           /\ job'.kinds = job.kinds /\ job'.live = job.live
           /\ job'.was = job.was /\ job'.gone = job.gone /\ job'.leave = job.leave
           /\ job'.manifest = job.manifest
  <1>1. Tail(job.todo) \in Seq(Entries) \cup Seq(Instances)
    BY TaskIs
  <1>2. job.kept \in Seq(Instances) /\ job.pool \in Seq(Instances)
    BY DEF Types, Jobs
  <1>3. Append(job.kept, m) = job.kept \o <<m>> /\ Append(job.kept, m) \in Seq(Instances)
    BY <1>2, SMT
  <1>4. RemoveAt(job.pool, i) \in Seq(Instances)
    BY <1>2, RangeOfRemoveAt
  <1>5. QED
    BY <1>1, <1>3, <1>4 DEF Types, Jobs, Reused

\* What ReloadEntry may do: start a new instance, or put one of the pool, as
\* it was or otherwise, into the list.
Unmatched ==
    /\ Task.name \notin NamesOf(job.pool)
    /\ job' = [job EXCEPT !.step = "manifest"]
    /\ failures' = failures

Matched(i, m) ==
    /\ job.pool[i].name = Task.name /\ m.name = Task.name
    /\ Reused(i, m)
    /\ \/ /\ m = job.pool[i] /\ failures' = failures
          /\ m.conf = Task.conf \/ m.guest = Dead
       \/ m = Reinited(job.pool[i], Task.conf) /\ failures' = failures
       \/ failures' = failures + 1

LEMMA ReloadEntryIs ==
    ASSUME Types, ReloadEntry
    PROVE  /\ pc = "reload" /\ job.todo # <<>> /\ job.step = "next"
           /\ \/ Unmatched
              \/ \E i \in 1 .. Len(job.pool), m \in Instances : Matched(i, m)
  <1>1. pc = "reload" /\ job.todo # <<>> /\ job.step = "next"
    BY DEF ReloadEntry
  <1>2. Task.name \in Names /\ Task.conf \in Configs
    BY <1>1, TaskIs
  <1>3. job.pool \in Seq(Instances)
    BY DEF Types, Jobs
  <1> DEFINE i == Same(Task.name)
             old == job.pool[i]
  <1>4. CASE i = 0
    <2>1. Task.name \notin NamesOf(job.pool)
      BY <1>3, <1>4, SameIs, SMT
    <2>2. Unmatched
      BY <1>4, <2>1 DEF ReloadEntry, Unmatched
    <2>3. QED
      BY <1>1, <2>2
  <1>5. CASE i # 0
    <2>1. i \in 1 .. Len(job.pool) /\ old.name = Task.name
      BY <1>3, <1>5, SameIs
    <2>2. old \in Instances
      BY <1>3, <2>1
    <2>3. CASE old.conf = Task.conf
      <3>1. Reused(i, old) /\ failures' = failures
        BY <1>5, <2>3 DEF ReloadEntry, Reused
      <3> HIDE DEF i, old
      <3>2. Matched(i, old)
        BY <2>1, <2>3, <3>1 DEF Matched, old
      <3>3. QED
        BY <1>1, <2>1, <2>2, <3>2
    <2>4. CASE old.conf # Task.conf
      <3>1. \/ Reused(i, Reinited(old, Task.conf)) /\ failures' = failures
            \/ old.guest = Dead /\ Reused(i, old) /\ failures' = failures
            \/ Reused(i, [old EXCEPT !.guest = Dead]) /\ failures' = failures + 1
        BY <1>5, <2>4 DEF ReloadEntry, Reused
      <3>2. /\ Reinited(old, Task.conf) \in Instances
            /\ Reinited(old, Task.conf).name = Task.name
        BY <1>2, <2>1, <2>2 DEF Reinited, Instances
      <3>3. /\ [old EXCEPT !.guest = Dead] \in Instances
            /\ [old EXCEPT !.guest = Dead].name = Task.name
        BY <1>2, <2>1, <2>2 DEF Instances
      <3> HIDE DEF i, old
      <3>4. \/ Matched(i, Reinited(old, Task.conf))
            \/ Matched(i, old)
            \/ Matched(i, [old EXCEPT !.guest = Dead])
        BY <2>1, <3>1, <3>2, <3>3 DEF Matched, old
      <3>5. QED
        BY <1>1, <2>1, <2>2, <3>2, <3>3, <3>4
    <2>5. QED
      BY <2>3, <2>4
  <1>6. QED
    BY <1>4, <1>5

\* What ReadWasm may do.
LEMMA ReadWasmIs ==
    ASSUME Types, ReadWasm
    PROVE  /\ pc \in Loops /\ job.todo # <<>> /\ job.step = "wasm"
           /\ validated' \subseteq Kinds /\ failures' \in Nat
           /\ \/ Failed /\ failures' = failures + 1
              \/ /\ Failed /\ failures' = failures
                 /\ \/ disk[TaskKind].wasm \notin Versions
                    \/ TaskKind \notin validated /\ ~ValidSchema(disk[TaskKind].wasm)
              \/ /\ Done(<<Started>>) /\ failures' = failures
                 /\ Started \in Instances
                 /\ TaskKind \in validated \/ ValidSchema(disk[TaskKind].wasm)
  <1>1. pc \in Loops /\ job.todo # <<>> /\ job.step = "wasm"
    BY SMT DEF Types, JobFits, ReadWasm, NoJob
  <1>2. TaskKind \in Kinds /\ Task.name \in Names /\ Task.conf \in Configs
    BY <1>1, TaskIs
  <1>3. validated' \subseteq Kinds /\ failures' \in Nat
    BY <1>2 DEF ReadWasm, Types, Fails
  <1>4. \/ Failed /\ failures' = failures + 1
        \/ /\ Failed /\ failures' = failures
           /\ \/ disk[TaskKind].wasm \notin Versions
              \/ TaskKind \notin validated /\ ~ValidSchema(disk[TaskKind].wasm)
        \/ /\ Done(<<Started>>) /\ failures' = failures
           /\ disk[TaskKind].wasm \in Versions
           /\ TaskKind \in validated \/ ValidSchema(disk[TaskKind].wasm)
    BY DEF ReadWasm, Fails, Started
  <1>5. ASSUME disk[TaskKind].wasm \in Versions
        PROVE  Started \in Instances
    <2>1. job.manifest \in Versions
      BY <1>1 DEF Types, JobFits
    <2>2. QED
      BY <1>2, <1>5, <2>1 DEF Started, Instances
  <1>6. QED
    BY <1>1, <1>3, <1>4, <1>5

LEMMA TypesInit == Init => Types
  <1> SUFFICES ASSUME Init PROVE Types
    OBVIOUS
  <1>1. NoJob \in Jobs
    BY SMT DEF NoJob, Jobs, File
  <1>2. disk \in [Kinds -> [manifest : File, wasm : File]]
    BY DEF Init, File
  <1>3. batch \in [config : BOOLEAN, kinds : SUBSET Kinds]
    BY DEF Init, NoBatch
  <1>4. JobFits /\ IdleFits
    BY SMT DEF Init, JobFits, IdleFits, NoJob, Loops
  <1>5. QED
    BY <1>1, <1>2, <1>3, <1>4, ListsAssumption, SMT DEF Init, Types

\* Steps of the editor and the installers.
Outside ==
    \/ Edit
    \/ \E k \in Kinds : MoveAside(k) \/ Place(k) \/ Notify(k)
    \/ ChangeExtensions

LEMMA OutsideTypes ==
    ASSUME Types, Outside
    PROVE  Types'
  <1>1. UNCHANGED <<loaded, modules, validated, idle, bound, pc, job, failures>>
    BY DEF Outside, daemon, Edit, MoveAside, Place, Notify, ChangeExtensions
  <1>2. JobFits' /\ IdleFits'
    BY <1>1 DEF Types, JobFits, IdleFits
  <1> DEFINE TypesOutside ==
        /\ disk' \in [Kinds -> [manifest : File, wasm : File]]
        /\ arriving' \in [Kinds -> Versions \cup {Missing}]
        /\ configured' \in Lists
        /\ batch' \in [config : BOOLEAN, kinds : SUBSET Kinds]
  <1>3. TypesOutside
    <2>1. CASE Edit
      BY <2>1 DEF Types, Edit, files
    <2>2. ASSUME NEW k \in Kinds, MoveAside(k)
          PROVE  TypesOutside
      BY <2>2 DEF Types, MoveAside, File
    <2>3. ASSUME NEW k \in Kinds, Place(k)
          PROVE  TypesOutside
      BY <2>3 DEF Types, Place, File
    <2>4. ASSUME NEW k \in Kinds, Notify(k)
          PROVE  TypesOutside
      BY <2>4 DEF Types, Notify
    <2>5. CASE ChangeExtensions
      BY <2>5 DEF Types, ChangeExtensions
    <2>6. QED
      BY <2>1, <2>2, <2>3, <2>4, <2>5 DEF Outside
  <1>4. QED
    BY <1>1, <1>2, <1>3 DEF Types

\* The job a loop begins with.
Begun(todo, pool, leave) ==
    [todo |-> todo, pool |-> pool, kept |-> <<>>, kinds |-> batch.kinds, step |-> "next",
     manifest |-> Missing, leave |-> leave, live |-> {}, was |-> NamesOf(modules),
     gone |-> {}]

\* The first start of an empty list, or a batch that idle mode drops: nothing
\* is begun.
Dropped ==
    /\ idle /\ pc' \in {"bind", "wait"} /\ (pc' = "bind" => ~bound)
    /\ batch' \in {batch, NoBatch}
    /\ UNCHANGED <<excused, loaded, modules, job>>

Begins(loop, todo, pool, leave) ==
    pc' = loop /\ job' = Begun(todo, pool, leave) /\ batch' = NoBatch

BeginsActivate ==
    /\ idle /\ configured # <<>> /\ Begins("activate", configured, <<>>, FALSE)
    /\ loaded' = configured /\ excused' = Lacking /\ UNCHANGED modules

BeginsReload ==
    /\ ~idle /\ configured # <<>> /\ Begins("reload", configured, modules, FALSE)
    /\ loaded' = configured /\ UNCHANGED <<excused, modules>>

BeginsWasm ==
    ~idle /\ Begins("wasm", modules, <<>>, FALSE) /\ UNCHANGED <<excused, loaded, modules>>

BeginsLeave ==
    /\ ~idle /\ Begins("wasm", <<>>, <<>>, TRUE)
    /\ UNCHANGED <<excused, loaded>> /\ modules' = <<>>

Takes == Boot \/ TakeIdle \/ TakeActive

\* The ways to begin.
LEMMA TakeIs ==
    ASSUME Types, Takes
    PROVE  /\ pc \notin Loops
           /\ UNCHANGED <<disk, arriving, extensions, installs, configured, validated, idle,
                          bound, edits, failures>>
           /\ Dropped \/ BeginsActivate \/ BeginsReload \/ BeginsWasm \/ BeginsLeave
  <1>1. /\ pc \notin Loops
        /\ UNCHANGED <<disk, arriving, extensions, installs, configured, validated, idle,
                       bound, edits, failures>>
    <2>1. CASE TakeIdle \/ TakeActive
      BY <2>1, Zenon DEF TakeIdle, TakeActive, Activate, Do, Loops, files, daemon
    <2>2. CASE Boot
      BY <2>2, Zenon DEF Boot, Activate, Do, Loops, files
    <2>3. QED
      BY <2>1, <2>2 DEF Takes
  <1>2. ASSUME NEW loop, Do(loop, [NoJob EXCEPT !.todo = configured])
        PROVE  Begins(loop, configured, <<>>, FALSE)
    BY <1>2 DEF Do, Begins, Begun, NoJob
  <1>3. ASSUME Do("wasm", [NoJob EXCEPT !.todo = modules])
        PROVE  Begins("wasm", modules, <<>>, FALSE)
    BY <1>3 DEF Do, Begins, Begun, NoJob
  <1>4. ASSUME Do("wasm", [NoJob EXCEPT !.leave = TRUE])
        PROVE  Begins("wasm", <<>>, <<>>, TRUE)
    BY <1>4 DEF Do, Begins, Begun, NoJob
  <1>5. ASSUME Do("reload", [NoJob EXCEPT !.todo = configured, !.pool = modules])
        PROVE  Begins("reload", configured, modules, FALSE)
    BY <1>5 DEF Do, Begins, Begun, NoJob
  <1>6. ASSUME Activate, idle, configured # <<>>
        PROVE  BeginsActivate
    BY <1>2, <1>6 DEF Activate, BeginsActivate
  <1>7. CASE Boot
    <2>1. pc = "boot" /\ idle /\ ~bound
      BY <1>7 DEF Boot, Types, IdleFits
    <2>2. CASE configured = <<>>
      <3>1. pc' = "bind" /\ UNCHANGED <<files, loaded, modules, batch, job>>
        BY <1>7, <2>2, Zenon DEF Boot
      <3>2. Dropped
        BY <2>1, <3>1 DEF Dropped, files
      <3>3. QED
        BY <1>1, <3>2
    <2>3. CASE configured # <<>>
      <3>1. Activate
        BY <1>7, <2>3 DEF Boot
      <3>2. QED
        BY <1>1, <1>6, <2>1, <2>3, <3>1
    <2>4. QED
      BY <2>2, <2>3
  <1>8. CASE TakeIdle
    <2>1. pc = "wait" /\ idle
      BY <1>8 DEF TakeIdle
    <2>2. CASE batch.config /\ configured # <<>>
      <3>1. Activate
        BY <1>8, <2>2 DEF TakeIdle
      <3>2. QED
        BY <1>1, <1>6, <2>1, <2>2, <3>1
    <2>3. CASE ~(batch.config /\ configured # <<>>)
      <3>1. batch' = NoBatch /\ UNCHANGED <<files, configured, daemon, edits>>
        BY <1>8, <2>3, Zenon DEF TakeIdle
      <3>2. Dropped
        BY <2>1, <3>1 DEF Dropped, files, daemon
      <3>3. QED
        BY <1>1, <3>2
    <2>4. QED
      BY <2>2, <2>3
  <1>9. CASE TakeActive
    <2>1. CASE ~batch.config
      <3>1. /\ Do("wasm", [NoJob EXCEPT !.todo = modules])
            /\ ~idle /\ UNCHANGED <<excused, loaded, modules>>
        BY <1>9, <2>1 DEF TakeActive
      <3>2. BeginsWasm
        BY <1>3, <3>1 DEF BeginsWasm
      <3>3. QED
        BY <1>1, <3>2
    <2>2. CASE batch.config /\ configured = <<>>
      <3>1. /\ Do("wasm", [NoJob EXCEPT !.leave = TRUE])
            /\ ~idle /\ modules' = <<>> /\ UNCHANGED <<excused, loaded>>
        BY <1>9, <2>2 DEF TakeActive
      <3>2. BeginsLeave
        BY <1>4, <3>1 DEF BeginsLeave
      <3>3. QED
        BY <1>1, <3>2
    <2>3. CASE batch.config /\ configured # <<>>
      <3>1. /\ Do("reload", [NoJob EXCEPT !.todo = configured, !.pool = modules])
            /\ ~idle /\ loaded' = configured /\ UNCHANGED <<excused, modules>>
        BY <1>9, <2>3 DEF TakeActive
      <3>2. BeginsReload
        BY <1>5, <2>3, <3>1 DEF BeginsReload
      <3>3. QED
        BY <1>1, <3>2
    <2>4. QED
      BY <2>1, <2>2, <2>3
  <1>10. QED
    BY <1>7, <1>8, <1>9 DEF Takes

LEMMA BegunIs ==
    ASSUME Types,
           NEW todo \in Seq(Entries) \cup Seq(Instances), NEW pool \in Seq(Instances),
           NEW leave \in BOOLEAN
    PROVE  /\ Begun(todo, pool, leave) \in Jobs
           /\ Begun(todo, pool, leave).todo = todo
           /\ Begun(todo, pool, leave).step = "next"
  <1>1. NamesOf(modules) \in SUBSET Names
    BY DEF Types, NamesOf, Instances
  <1>2. batch.kinds \in SUBSET Kinds
    BY DEF Types
  <1>3. QED
    BY <1>1, <1>2, SMT DEF Begun, Jobs, File

LEMMA TakeTypes ==
    ASSUME Types, Takes
    PROVE  Types'
  <1>1. /\ pc \notin Loops
        /\ UNCHANGED <<disk, arriving, extensions, installs, configured, validated, idle,
                       bound, edits, failures>>
        /\ Dropped \/ BeginsActivate \/ BeginsReload \/ BeginsWasm \/ BeginsLeave
    BY TakeIs, Zenon
  <1>2. batch' \in [config : BOOLEAN, kinds : SUBSET Kinds]
    <2>1. batch' \in {batch, NoBatch}
      BY <1>1 DEF Dropped, BeginsActivate, BeginsReload, BeginsWasm, BeginsLeave, Begins
    <2>2. NoBatch \in [config : BOOLEAN, kinds : SUBSET Kinds]
      BY DEF NoBatch
    <2>3. batch \in [config : BOOLEAN, kinds : SUBSET Kinds]
      BY DEF Types
    <2>4. QED
      BY <2>1, <2>2, <2>3
  <1>3. /\ configured \in Seq(Entries) /\ configured \in Lists
        /\ <<>> \in Seq(Entries) /\ <<>> \in Seq(Instances)
        /\ modules \in Seq(Instances)
    <2>1. configured \in Lists /\ modules \in Seq(Instances)
      BY DEF Types
    <2>2. configured \in Seq(Entries)
      BY <2>1, ListsAssumption, Zenon DEF Entries
    <2>3. <<>> \in Seq(Entries) /\ <<>> \in Seq(Instances)
      OBVIOUS
    <2>4. QED
      BY <2>1, <2>2, <2>3
  <1>4. CASE Dropped
    <2>1. JobFits' /\ IdleFits'
      BY <1>1, <1>4 DEF Types, JobFits, IdleFits, Dropped, Loops
    <2>2. QED
      BY <1>1, <1>2, <1>4, <2>1 DEF Types, Dropped
  <1>5. CASE BeginsActivate
    <2>1. pc' = "activate" /\ loaded' = configured /\ modules' = modules /\ idle
      BY <1>5 DEF BeginsActivate, Begins
    <2>2. job' \in Jobs /\ job'.todo \in Seq(Entries) /\ job'.step = "next"
      BY <1>3, <1>5, BegunIs DEF BeginsActivate, Begins
    <2>3. JobFits'
      BY <2>1, <2>2 DEF JobFits, Loops
    <2>4. IdleFits'
      BY <1>1, <1>5, <2>1 DEF Types, IdleFits, Loops, BeginsActivate
    <2>5. QED
      BY <1>1, <1>2, <1>3, <2>1, <2>2, <2>3, <2>4 DEF Types, Loops
  <1>6. CASE BeginsReload
    <2>1. pc' = "reload" /\ loaded' = configured /\ modules' = modules /\ ~idle
      BY <1>6 DEF BeginsReload, Begins
    <2>2. job' \in Jobs /\ job'.todo \in Seq(Entries) /\ job'.step = "next"
      BY <1>3, <1>6, BegunIs DEF BeginsReload, Begins
    <2>3. JobFits'
      BY <2>1, <2>2 DEF JobFits, Loops
    <2>4. IdleFits'
      BY <1>1, <1>6, <2>1 DEF Types, IdleFits, Loops, BeginsReload
    <2>5. QED
      BY <1>1, <1>2, <1>3, <2>1, <2>2, <2>3, <2>4 DEF Types, Loops
  <1>7. CASE BeginsWasm \/ BeginsLeave
    <2>1. /\ pc' = "wasm" /\ loaded' = loaded /\ ~idle
          /\ modules' \in Seq(Instances)
      BY <1>3, <1>7 DEF BeginsWasm, BeginsLeave, Begins
    <2>2. job' \in Jobs /\ job'.todo \in Seq(Instances) /\ job'.step = "next"
      <3>1. \/ job' = Begun(modules, <<>>, FALSE)
            \/ job' = Begun(<<>>, <<>>, TRUE)
        BY <1>7 DEF BeginsWasm, BeginsLeave, Begins
      <3>2. QED
        <4>1. CASE job' = Begun(modules, <<>>, FALSE)
          BY <1>3, <4>1, BegunIs
        <4>2. CASE job' = Begun(<<>>, <<>>, TRUE)
          BY <1>3, <4>2, BegunIs
        <4>3. QED
          BY <3>1, <4>1, <4>2
    <2>3. JobFits'
      BY <2>1, <2>2 DEF JobFits, Loops
    <2>4. IdleFits'
      BY <1>1, <2>1 DEF Types, IdleFits, Loops
    <2>5. QED
      BY <1>1, <1>2, <2>1, <2>2, <2>3, <2>4 DEF Types, Loops
  <1>8. QED
    BY <1>1, <1>4, <1>5, <1>6, <1>7

\* The end of a loop.
LEMMA EndTypes ==
    ASSUME Types, ReloadEnds \/ WasmEnds \/ CreateEnds \/ ActivateEnds
    PROVE  Types'
  <1>1. /\ UNCHANGED <<files, configured, validated, bound, batch, failures>>
        /\ job.kept \in Seq(Instances) /\ modules \in Seq(Instances)
        /\ loaded \in Lists /\ <<>> \in Lists /\ <<>> \in Seq(Instances)
        /\ NoJob \in Jobs
    <2>1. UNCHANGED <<files, configured, validated, bound, batch, failures>>
      BY DEF ReloadEnds, WasmEnds, CreateEnds, ActivateEnds
    <2>2. NoJob \in Jobs
      BY SMT DEF NoJob, Jobs, File
    <2>3. <<>> \in Seq(Instances)
      OBVIOUS
    <2>4. QED
      BY <2>1, <2>2, <2>3, ListsAssumption DEF Types, Jobs
  <1>2. loaded \in Seq(Entries)
    BY <1>1, ListsAssumption, Zenon DEF Entries
  <1>3. CASE ReloadEnds
    <2>1. /\ pc = "reload" /\ pc' = "wasm" /\ modules' = job.kept
          /\ UNCHANGED <<loaded, idle>>
          /\ job' = [job EXCEPT !.todo = job.kept, !.pool = <<>>, !.kept = <<>>]
      BY <1>3 DEF ReloadEnds
    <2>2. /\ job' \in Jobs /\ job'.todo = job.kept /\ job'.step = job.step
          /\ job'.manifest = job.manifest
      BY <1>1, <2>1 DEF Types, Jobs
    <2>3. job.step = "next"
      BY <1>3 DEF Types, JobFits, ReloadEnds
    <2>4. JobFits'
      BY <1>1, <2>1, <2>2, <2>3 DEF JobFits, Loops
    <2>5. IdleFits'
      BY <2>1 DEF Types, IdleFits, Loops
    <2>6. QED
      BY <1>1, <2>1, <2>2, <2>4, <2>5 DEF Types, files, Loops
  <1>4. CASE WasmEnds
    <2>1. /\ pc = "wasm" /\ pc' = "create"
          /\ UNCHANGED <<loaded, idle, modules>>
          /\ job' = [job EXCEPT !.todo = loaded, !.live = NamesOf(job.kept)]
      BY <1>4 DEF WasmEnds
    <2>2. NamesOf(job.kept) \in SUBSET Names
      BY <1>1 DEF NamesOf, Instances
    <2>3. /\ job' \in Jobs /\ job'.todo = loaded /\ job'.step = job.step
      BY <1>2, <2>1, <2>2 DEF Types, Jobs
    <2>4. job.step = "next"
      BY <1>4 DEF Types, JobFits, WasmEnds
    <2>5. JobFits'
      BY <1>2, <2>1, <2>3, <2>4 DEF JobFits, Loops
    <2>6. IdleFits'
      BY <2>1 DEF Types, IdleFits, Loops
    <2>7. QED
      BY <1>1, <2>1, <2>3, <2>5, <2>6 DEF Types, files, Loops
  <1>5. CASE CreateEnds
    <2>1. /\ pc = "create" /\ pc' = "wait" /\ job' = NoJob
          /\ idle' = job.leave
          /\ job.leave => modules' = <<>> /\ loaded' = <<>>
          /\ ~job.leave => modules' = job.kept /\ loaded' = loaded
      BY <1>5 DEF CreateEnds
    <2>2. JobFits'
      BY <2>1, SMT DEF JobFits, NoJob, Loops
    <2>3. job.leave \in BOOLEAN
      BY DEF Types, Jobs
    <2>4. IdleFits'
      BY <2>1, <2>3 DEF Types, IdleFits, Loops
    <2>5. modules' \in Seq(Instances) /\ loaded' \in Lists
      BY <1>1, <2>1
    <2>6. QED
      BY <1>1, <2>1, <2>2, <2>4, <2>5 DEF Types, files
  <1>6. CASE ActivateEnds
    <2>1. /\ pc = "activate" /\ pc' = (IF bound THEN "wait" ELSE "bind") /\ job' = NoJob
          /\ idle' = (job.kept = <<>>) /\ modules' = job.kept
          /\ loaded' = IF job.kept = <<>> THEN <<>> ELSE loaded
      BY <1>6 DEF ActivateEnds
    <2>2. JobFits'
      BY <2>1, SMT DEF JobFits, NoJob, Loops
    <2>3. pc' \in {"bind", "wait"} /\ (pc' = "bind" => ~bound)
      BY <2>1
    <2>4. idle' <=> job.kept = <<>>
      BY <2>1
    <2>5. idle' \in BOOLEAN
      BY <2>1
    <2>6. loaded # <<>>
      BY <2>1 DEF Types, IdleFits, Loops
    <2>7. IdleFits'
      BY <1>1, <2>1, <2>3, <2>4, <2>5, <2>6 DEF IdleFits, Loops
    <2>8. QED
      BY <1>1, <2>1, <2>2, <2>3, <2>7 DEF Types, files
  <1>7. QED
    BY <1>3, <1>4, <1>5, <1>6

LEMMA TickTypes ==
    ASSUME Types, Tick
    PROVE  Types'
  <1>1. PICK i \in DOMAIN modules, traps \in 1 .. 2 :
          /\ failures' = failures + traps - IF modules[i].guest = Dead THEN 1 ELSE 0
          /\ modules' = [modules EXCEPT ![i].guest = IF traps = 1 THEN modules[i].conf
                                                     ELSE Dead]
    BY DEF Tick
  <1>2. modules \in Seq(Instances) /\ failures \in Nat
    BY DEF Types
  <1>3. failures' \in Nat
    BY <1>1, <1>2, SMT
  <1>4. modules' \in Seq(Instances)
    <2>1. modules[i] \in Instances
      BY <1>2
    <2>2. \A g \in {modules[i].conf, Dead} : [modules[i] EXCEPT !.guest = g] \in Instances
      BY <2>1 DEF Instances
    <2>3. [modules EXCEPT ![i].guest = IF traps = 1 THEN modules[i].conf ELSE Dead]
            = [modules EXCEPT ![i] = [modules[i] EXCEPT !.guest =
                                        IF traps = 1 THEN modules[i].conf ELSE Dead]]
      OBVIOUS
    <2>4. [modules[i] EXCEPT !.guest = IF traps = 1 THEN modules[i].conf ELSE Dead]
            \in Instances
      BY <2>2
    <2>5. QED
      BY <1>1, <1>2, <2>3, <2>4
  <1>5. pc = "wait" /\ ~idle
        /\ UNCHANGED <<files, configured, loaded, validated, idle, bound, batch, pc, job>>
    BY DEF Tick
  <1>6. JobFits' /\ IdleFits'
    BY <1>5 DEF Types, JobFits, IdleFits
  <1>7. QED
    BY <1>3, <1>4, <1>5, <1>6 DEF Types, files

\* A step of a loop over its list.
LoopSteps ==
    \/ ActivateEntry \/ ReloadEntry \/ ReloadInstance \/ CreateEntry
    \/ ReadManifest \/ ReadWasm

LEMMA LoopTypes ==
    ASSUME Types, LoopSteps
    PROVE  Types'
  <1>1. /\ UNCHANGED <<files, configured, loaded, modules, idle, bound, batch, pc, edits>>
        /\ pc \in Loops /\ job.todo # <<>>
    <2>1. UNCHANGED <<files, configured, loaded, modules, idle, bound, batch, pc, edits>>
      BY DEF LoopSteps, ActivateEntry, ReloadEntry, ReloadInstance, CreateEntry,
             ReadManifest, ReadWasm
    <2>2. CASE ReadManifest
      BY <2>1, <2>2 DEF Types, JobFits, ReadManifest, Loops
    <2>3. CASE ReadWasm
      BY <2>1, <2>3, ReadWasmIs
    <2>4. CASE ~ReadManifest /\ ~ReadWasm
      BY <2>1, <2>4 DEF LoopSteps, ActivateEntry, ReloadEntry, ReloadInstance, CreateEntry, Loops
    <2>5. QED
      BY <2>2, <2>3, <2>4
  <1>2. validated \subseteq Kinds /\ failures \in Nat
    BY DEF Types
  <1>3. CASE ActivateEntry
    BY <1>1, <1>2, <1>3, StartTypes DEF ActivateEntry
  <1>4. CASE ReloadEntry
    <2>1. validated' = validated
      BY <1>4 DEF ReloadEntry
    <2>2. CASE Unmatched
      BY <1>1, <1>2, <2>1, <2>2, StartTypes DEF Unmatched
    <2>3. ASSUME NEW i \in 1 .. Len(job.pool), NEW m \in Instances, Matched(i, m)
          PROVE  Types'
      <3>1. Reused(i, m)
        BY <2>3 DEF Matched
      <3>2. /\ job' \in Jobs /\ job'.todo = Tail(job.todo) /\ job'.step = job.step
        BY <1>1, <3>1, ReusedIs
      <3>3. job.step = "next" /\ pc = "reload"
        BY <1>4 DEF ReloadEntry
      <3>4. job'.todo \in Seq(Entries)
        BY <1>1, <3>2, <3>3, TaskIs
      <3>5. failures' \in Nat
        BY <1>2, <2>3 DEF Matched
      <3>6. QED
        BY <1>1, <1>2, <2>1, <3>2, <3>3, <3>4, <3>5, LoopStep
    <2>4. QED
      BY <1>4, <2>2, <2>3, ReloadEntryIs
  <1>5. CASE ReloadInstance
    <2>1. pc = "wasm" /\ job.step = "next" /\ UNCHANGED <<validated, failures>>
      BY <1>5 DEF ReloadInstance
    <2>2. CASE Done(<<Task>>)
      BY <1>1, <1>2, <2>1, <2>2, TaskIs, RangeOfOne, DoneTypes
    <2>3. CASE job' = [job EXCEPT !.todo = Tail(@), !.gone = @ \cup {Task.name}]
      <3>1. Tail(job.todo) \in Seq(Instances) /\ Task.name \in Names
        BY <1>1, <2>1, TaskIs
      <3>2. /\ job' \in Jobs /\ job'.todo = Tail(job.todo) /\ job'.step = job.step
        BY <2>3, <3>1 DEF Types, Jobs
      <3>3. QED
        BY <1>1, <1>2, <2>1, <3>1, <3>2, LoopStep
    <2>4. CASE job' = [job EXCEPT !.step = "manifest"]
      BY <1>1, <1>2, <2>1, <2>4, StartTypes
    <2>5. QED
      BY <1>5, <2>2, <2>3, <2>4 DEF ReloadInstance
  <1>6. CASE CreateEntry
    <2>1. /\ UNCHANGED <<validated, failures>>
          /\ \/ Done(<<>>)
             \/ job' = [job EXCEPT !.step = "manifest"]
      BY <1>6 DEF CreateEntry
    <2>2. <<>> \in Seq(Instances)
      OBVIOUS
    <2>3. CASE Done(<<>>)
      BY <1>1, <1>2, <2>1, <2>2, <2>3, DoneTypes
    <2>4. CASE job' = [job EXCEPT !.step = "manifest"]
      BY <1>1, <1>2, <2>1, <2>4, StartTypes
    <2>5. QED
      BY <2>1, <2>3, <2>4
  <1>7. CASE ReadManifest
    <2>1. validated' \subseteq Kinds /\ failures' = failures
      BY <1>2, <1>7 DEF ReadManifest
    <2>2. PICK file \in File :
            \/ /\ Accepted(file)
               /\ job' = [job EXCEPT !.step = "wasm", !.manifest = file]
            \/ Failed
      <3>1. disk[TaskKind].manifest \in File
        BY <1>1, TaskIs DEF Types
      <3>2. QED
        BY <1>7, <3>1 DEF ReadManifest
    <2>3. CASE Failed
      BY <1>1, <1>2, <2>1, <2>3, FailedTypes
    <2>4. CASE /\ Accepted(file)
               /\ job' = [job EXCEPT !.step = "wasm", !.manifest = file]
      <3>1. file \in Versions
        BY <2>4 DEF Accepted, Parses
      <3>2. /\ job' \in Jobs /\ job'.todo = job.todo /\ job'.step = "wasm"
            /\ job'.manifest = file
        BY <2>4 DEF Types, Jobs
      <3>3. QED
        BY <1>1, <1>2, <2>1, <3>1, <3>2, LoopStep DEF Types, JobFits
    <2>5. QED
      BY <2>2, <2>3, <2>4
  <1>8. CASE ReadWasm
    <2>1. /\ validated' \subseteq Kinds /\ failures' \in Nat
          /\ \/ Failed
             \/ Done(<<Started>>) /\ Started \in Instances
      BY <1>8, ReadWasmIs
    <2>2. CASE Failed
      BY <1>1, <2>1, <2>2, FailedTypes
    <2>3. CASE Done(<<Started>>) /\ Started \in Instances
      BY <1>1, <2>1, <2>3, RangeOfOne, DoneTypes
    <2>4. QED
      BY <2>1, <2>2, <2>3
  <1>9. QED
    BY <1>3, <1>4, <1>5, <1>6, <1>7, <1>8 DEF LoopSteps

\* Nothing that counts changes: a stutter, or the bind of the control socket.
StandsStill == Bind \/ UNCHANGED vars

LEMMA StandsStillIs ==
    ASSUME StandsStill
    PROVE  /\ UNCHANGED <<files, configured, loaded, modules, validated, idle, batch, job,
                          failures>>
           /\ \/ pc' = pc /\ bound' = bound
              \/ pc = "bind" /\ pc' = "wait"
  BY DEF StandsStill, Bind, vars, daemon

\* Who moves.
LEMMA NextIs ==
    ASSUME [Next]_vars
    PROVE  \/ Outside
           \/ Takes \/ StandsStill
           \/ LoopSteps
           \/ ReloadEnds \/ WasmEnds \/ CreateEnds \/ ActivateEnds
           \/ Tick
  BY Zenon DEF Next, Outside, LoopSteps, Takes, StandsStill

LEMMA TypesNext == Types /\ [Next]_vars => Types'
  <1> SUFFICES ASSUME Types, [Next]_vars PROVE Types'
    OBVIOUS
  <1>1. CASE StandsStill
    <2>1. /\ UNCHANGED <<files, configured, loaded, modules, validated, idle, batch, job,
                         failures>>
          /\ \/ pc' = pc /\ bound' = bound
             \/ pc = "bind" /\ pc' = "wait"
      BY <1>1, StandsStillIs
    <2>2. JobFits' /\ IdleFits'
      BY <2>1 DEF Types, JobFits, IdleFits, Loops
    <2>3. QED
      BY <2>1, <2>2 DEF files, Types, Loops
  <1>2. QED
    BY <1>1, NextIs, OutsideTypes, TakeTypes, LoopTypes, EndTypes, TickTypes

LEMMA TypesHold == Spec => []Types
  BY TypesInit, TypesNext, PTL DEF Spec

\* Every reachable state of the runtime is well typed, and a guest that has
\* not trapped has the config the host notes for it (module.rs:353).
THEOREM TypeCorrect == Spec => []TypeOK
  <1>1. Types => TypeOK
    <2> SUFFICES ASSUME Types PROVE TypeOK
      OBVIOUS
    <2>1. \A k \in Kinds, f \in {"manifest", "wasm"} :
            disk[k][f] \in Versions \cup {Missing, Torn}
      BY DEF Types, File
    <2>2. \A m \in Range(modules) \cup Range(job.kept) : m.guest \in {m.conf, Dead}
      <3>1. modules \in Seq(Instances) /\ job.kept \in Seq(Instances)
        BY DEF Types, Jobs
      <3>2. Range(modules) \subseteq Instances /\ Range(job.kept) \subseteq Instances
        BY <3>1 DEF Range
      <3>3. QED
        BY <3>2 DEF Instances
    <2>3. QED
      BY <2>1, <2>2 DEF Types, TypeOK, JobFits, IdleFits, Loops
  <1>2. QED
    BY <1>1, TypesHold, PTL

-----------------------------------------------------------------------------
(* Doctor. *)

\* A start that was begun goes on with its own two steps only.
LEMMA StartIs ==
    ASSUME Types, [Next]_vars, job' # job, job.step # "next"
    PROVE  \/ job.step = "manifest" /\ ReadManifest
           \/ job.step = "wasm" /\ ReadWasm
  <1>1. job.todo # <<>>
    BY DEF Types, JobFits
  <1>2. CASE Outside \/ Tick
    BY <1>2 DEF Outside, daemon, Edit, MoveAside, Place, Notify, ChangeExtensions, Tick
  <1>3. CASE StandsStill
    BY <1>3, StandsStillIs
  <1>4. CASE Takes
    <2>1. job = NoJob
      BY <1>4, TakeIs DEF Types, JobFits
    <2>2. QED
      BY <2>1, SMT DEF NoJob
  <1>5. CASE ReloadEnds \/ WasmEnds \/ CreateEnds \/ ActivateEnds
    BY <1>1, <1>5 DEF ReloadEnds, WasmEnds, CreateEnds, ActivateEnds
  <1>6. CASE LoopSteps
    BY <1>6 DEF LoopSteps, ActivateEntry, ReloadEntry, ReloadInstance, CreateEntry,
                ReadManifest, ReadWasm
  <1>7. QED
    BY <1>2, <1>3, <1>4, <1>5, <1>6, NextIs

\* A start that fails makes no instance.
LEMMA FailedIs ==
    ASSUME Types, job.todo # <<>>, Failed
    PROVE  MakesNothing /\ job'.step = "next"
  <1> DEFINE kept == IF pc = "wasm" THEN <<Task>> ELSE <<>>
  <1>1. Done(kept)
    BY DEF Failed
  <1>2. kept \in Seq(Instances)
    BY TaskIs, RangeOfOne
  <1> HIDE DEF kept
  <1>3. job'.kept = job.kept \o kept /\ job'.step = "next"
    BY <1>1, <1>2, DoneIs
  <1>4. QED
    BY <1>3 DEF MakesNothing, kept

\* What doctor says of the manifest, and of the wasm.
LEMMA DoctorOfManifest ==
    ASSUME NEW k
    PROVE  Doctor(k) \subseteq WasmChecks <=> Accepted(disk[k].manifest)
  <1> DEFINE file == disk[k].manifest
             ext(n) == <<"extension", n>>
  <1>1. \A n : ext(n) \notin WasmChecks
    <2>1. ASSUME NEW n, NEW x \in WasmChecks, ext(n) = x
          PROVE  FALSE
      <3>1. ext(n)[1] = "extension" /\ x[1] # "extension"
        BY SMT DEF WasmChecks
      <3>2. QED
        BY <2>1, <3>1
    <2>2. QED
      BY <2>1
  <1>2. <<"manifest.toml">> \notin WasmChecks /\ <<"modules-api">> \notin WasmChecks
    BY SMT DEF WasmChecks
  <1>3. <<"module.wasm">> \in WasmChecks /\ <<"config-schema">> \in WasmChecks
    BY DEF WasmChecks
  <1>4. ASSUME Parses(file)
        PROVE  {ext(n) : n \in CheckRequiredExtensions(Version[file])} \subseteq WasmChecks
                 <=> UnmetExtensions(Version[file].requires) = {}
    BY <1>1, Zenon DEF CheckRequiredExtensions
  <1>5. Doctor(k) \subseteq WasmChecks <=>
          /\ Parses(file)
          /\ MeetsFloor(Host, Version[file].api)
          /\ {ext(n) : n \in CheckRequiredExtensions(Version[file])} \subseteq WasmChecks
    BY <1>2, <1>3, SMT DEF Doctor
  <1>6. QED
    BY <1>4, <1>5 DEF Accepted

LEMMA DoctorOfWasm ==
    ASSUME NEW k
    PROVE  /\ disk[k].wasm = Missing => Doctor(k) \cap WasmChecks = {<<"module.wasm">>}
           /\ disk[k].wasm # Missing =>
                Doctor(k) \cap WasmChecks = IF ValidSchema(disk[k].wasm) THEN {}
                                            ELSE {<<"config-schema">>}
  <1> DEFINE d == disk[k]
             ext(n) == <<"extension", n>>
             named == (IF Parses(d.manifest) THEN {} ELSE {<<"manifest.toml">>})
                      \cup (IF Parses(d.manifest) /\ ~MeetsFloor(Host, Version[d.manifest].api)
                            THEN {<<"modules-api">>} ELSE {})
             extFails == IF Parses(d.manifest)
                         THEN {ext(n) : n \in CheckRequiredExtensions(Version[d.manifest])}
                         ELSE {}
             wasmFails == IF d.wasm = Missing THEN {<<"module.wasm">>} ELSE {}
             schemaFails == IF d.wasm # Missing /\ ~ValidSchema(d.wasm)
                            THEN {<<"config-schema">>} ELSE {}
  <1>1. \A x \in extFails : x \notin WasmChecks
    <2>1. ASSUME NEW n, NEW x \in WasmChecks, ext(n) = x
          PROVE  FALSE
      <3>1. ext(n)[1] = "extension" /\ x[1] # "extension"
        BY SMT DEF WasmChecks
      <3>2. QED
        BY <2>1, <3>1
    <2>2. QED
      BY <2>1
  <1>2. \A x \in named : x \notin WasmChecks
    BY SMT DEF WasmChecks
  <1>3. wasmFails \cup schemaFails \subseteq WasmChecks
    BY DEF WasmChecks
  <1>4. Doctor(k) = named \cup extFails \cup wasmFails \cup schemaFails
    BY DEF Doctor
  <1> HIDE DEF named, extFails, wasmFails, schemaFails
  <1>5. Doctor(k) \cap WasmChecks = wasmFails \cup schemaFails
    BY <1>1, <1>2, <1>3, <1>4
  <1>6. QED
    BY <1>5 DEF wasmFails, schemaFails

\* A start gets as far as `doctor module --probe` says at that moment, whatever
\* is in the package, except that a kind that was validated before may start
\* with a schema that doctor reports (doctor.rs:144, module.rs:159, 202).
THEOREM DoctorJudgesRight == Spec => DoctorIsRight
  <1> DEFINE Step ==
        /\ job.step = "manifest" /\ job' # job =>
             (job'.step = "wasm" <=> Doctor(TaskKind) \subseteq WasmChecks)
        /\ job.step = "wasm" /\ job' # job /\ failures' = failures =>
             IF \/ Doctor(TaskKind) \cap WasmChecks = {}
                \/ /\ Doctor(TaskKind) \cap WasmChecks = {<<"config-schema">>}
                   /\ TaskKind \in validated /\ disk[TaskKind].wasm # Torn
             THEN MakesInstance ELSE MakesNothing
  <1>1. ASSUME Types, [Next]_vars, job.step = "manifest", job' # job
        PROVE  job'.step = "wasm" <=> Doctor(TaskKind) \subseteq WasmChecks
    <2>1. ReadManifest /\ job.todo # <<>>
      BY <1>1, StartIs DEF Types, JobFits
    <2>2. CASE Accepted(disk[TaskKind].manifest)
      <3>1. job' = [job EXCEPT !.step = "wasm", !.manifest = disk[TaskKind].manifest]
        BY <2>1, <2>2 DEF ReadManifest
      <3>2. job'.step = "wasm"
        BY <1>1, <3>1 DEF Types, Jobs
      <3>3. QED
        BY <2>2, <3>2, DoctorOfManifest
    <2>3. CASE ~Accepted(disk[TaskKind].manifest)
      <3>1. Failed
        BY <2>1, <2>3 DEF ReadManifest
      <3>2. job'.step = "next"
        BY <1>1, <2>1, <3>1, FailedIs
      <3>3. QED
        BY <2>3, <3>2, DoctorOfManifest
    <2>4. QED
      BY <2>2, <2>3
  <1>2. ASSUME Types, [Next]_vars, job.step = "wasm", job' # job, failures' = failures
        PROVE  IF \/ Doctor(TaskKind) \cap WasmChecks = {}
                  \/ /\ Doctor(TaskKind) \cap WasmChecks = {<<"config-schema">>}
                     /\ TaskKind \in validated /\ disk[TaskKind].wasm # Torn
               THEN MakesInstance ELSE MakesNothing
    <2> DEFINE file == disk[TaskKind].wasm
    <2>1. ReadWasm /\ job.todo # <<>> /\ job.kept \in Seq(Instances)
      BY <1>2, StartIs DEF Types, Jobs, JobFits
    <2>2. file \in File
      BY <1>2, <2>1, TaskIs DEF Types
    <2>3. \/ /\ Failed
             /\ file \notin Versions \/ (TaskKind \notin validated /\ ~ValidSchema(file))
          \/ /\ Done(<<Started>>) /\ Started \in Instances
             /\ TaskKind \in validated \/ ValidSchema(file)
      BY <1>2, <2>1, ReadWasmIs DEF Types
    <2>4. {<<"module.wasm">>} # {} /\ {<<"module.wasm">>} # {<<"config-schema">>}
      <3>1. <<"module.wasm">>[1] # <<"config-schema">>[1]
        BY SMT
      <3>2. <<"module.wasm">> # <<"config-schema">>
        BY <3>1
      <3>3. QED
        BY <3>2
    <2>5. Missing \notin Versions /\ Torn \notin Versions
      BY RuntimeAssumption
    <2>6. ValidSchema(file) => file \in Versions
      BY DEF ValidSchema
    <2>7. /\ file = Missing => Doctor(TaskKind) \cap WasmChecks = {<<"module.wasm">>}
          /\ file # Missing =>
               Doctor(TaskKind) \cap WasmChecks = IF ValidSchema(file) THEN {}
                                                  ELSE {<<"config-schema">>}
      BY DoctorOfWasm
    <2> HIDE DEF file
    <2>8. CASE /\ Failed
               /\ file \notin Versions \/ (TaskKind \notin validated /\ ~ValidSchema(file))
      <3>1. MakesNothing
        BY <1>2, <2>1, <2>8, FailedIs
      <3>2. file \notin Versions => file \in {Missing, Torn}
        BY <2>2 DEF File
      <3>3. QED
        BY <2>4, <2>6, <2>7, <2>8, <3>1, <3>2 DEF file
    <2>9. CASE /\ Done(<<Started>>) /\ Started \in Instances
               /\ TaskKind \in validated \/ ValidSchema(file)
      <3>1. job'.kept = job.kept \o <<Started>>
        BY <1>2, <2>1, <2>9, RangeOfOne, DoneIs
      <3>2. job'.kept = Append(job.kept, Started)
        BY <2>1, <2>9, <3>1, SMT
      <3>3. MakesInstance
        BY <3>2 DEF MakesInstance, Started
      <3>4. file \in Versions
        BY <2>9 DEF Instances, Started, file
      <3>5. QED
        BY <2>4, <2>5, <2>7, <2>9, <3>3, <3>4 DEF file
    <2>10. QED
      BY <2>3, <2>8, <2>9
  <1>3. Types /\ [Next]_vars => Step
    BY <1>1, <1>2
  <1>4. Spec => [][Step]_vars
    BY <1>3, TypesHold, PTL DEF Spec
  <1>5. QED
    BY <1>4 DEF DoctorIsRight

-----------------------------------------------------------------------------
(* A reload keeps what ran. *)

\* What becomes of an instance that ran when the batch was taken and whose
\* name is still in the list.
Survives(n) ==
    /\ pc # "activate"
    /\ pc = "reload" => \/ n \in NamesOf(job.kept)
                        \/ n \in NamesOf(job.pool) /\ n \in NamesOf(job.todo)
    /\ pc = "wasm" => \/ n \in NamesOf(job.kept) \cup NamesOf(job.todo) \cup job.gone
                      \/ job.leave
    /\ pc = "create" => n \in NamesOf(job.kept) \cup job.gone \/ job.leave

\* A name is started in a reload only when no instance of it is left.
StartsNew == pc = "reload" /\ job.step # "next" => Task.name \notin NamesOf(job.pool)

Keeping ==
    /\ \A n \in job.was : n \in NamesOf(loaded) => Survives(n)
    /\ StartsNew

\* Names of what a sequence holds.
LEMMA NamesAre ==
    ASSUME NEW s
    PROVE  NamesOf(s) = {x.name : x \in Range(s)}
  BY Zenon DEF NamesOf, Range

LEMMA NamesOfConcat ==
    ASSUME NEW s \in Seq(Instances), NEW t \in Seq(Instances)
    PROVE  NamesOf(s \o t) = NamesOf(s) \cup NamesOf(t)
  <1>1. Range(s \o t) = Range(s) \cup Range(t)
    BY RangeOfConcat
  <1>2. QED
    BY <1>1, NamesAre

LEMMA NamesOfOne ==
    ASSUME NEW m \in Instances
    PROVE  <<m>> \in Seq(Instances) /\ NamesOf(<<m>>) = {m.name}
  <1>1. <<m>> \in Seq(Instances) /\ Range(<<m>>) = {m}
    BY RangeOfOne
  <1>2. QED
    BY <1>1, NamesAre

LEMMA NamesOfNone == NamesOf(<<>>) = {}
  BY SMT DEF NamesOf

\* The task, and what is behind it.
LEMMA NamesOfTodo ==
    ASSUME Types, job.todo # <<>>
    PROVE  NamesOf(job.todo) = NamesOf(Tail(job.todo)) \cup {Task.name}
  <1>1. Range(job.todo) = Range(Tail(job.todo)) \cup {Task}
    BY TaskIs
  <1>2. QED
    BY <1>1, NamesAre

\* A step inside a loop that leaves its promises as they are.
LEMMA KeepingStep ==
    ASSUME Keeping, UNCHANGED <<loaded, pc>>,
           job'.was = job.was, job'.leave = job.leave,
           \A n \in Names : Survives(n) => Survives(n)',
           job.was \subseteq Names,
           StartsNew'
    PROVE  Keeping'
  BY DEF Keeping

\* A step that is done with its task leaves an instance of that name in the
\* first loop of reload_wasm.
LEMMA DoneKeeps ==
    ASSUME Types, Keeping, pc \in Loops, job.todo # <<>>, UNCHANGED <<loaded, pc>>,
           NEW kept \in Seq(Instances), Done(kept),
           pc = "wasm" => Task.name \in NamesOf(kept),
           pc = "reload" => job.step # "next"
    PROVE  Keeping'
  <1>1. /\ job'.todo = Tail(job.todo) /\ job'.kept = job.kept \o kept
        /\ job'.step = "next" /\ job'.pool = job.pool
        /\ job'.was = job.was /\ job'.gone = job.gone /\ job'.leave = job.leave
    BY DoneIs
  <1>2. NamesOf(job'.kept) = NamesOf(job.kept) \cup NamesOf(kept)
    <2>1. job.kept \in Seq(Instances)
      BY DEF Types, Jobs
    <2>2. QED
      BY <1>1, <2>1, NamesOfConcat
  <1>3. NamesOf(job.todo) = NamesOf(job'.todo) \cup {Task.name}
    BY <1>1, NamesOfTodo
  <1>4. StartsNew'
    BY <1>1 DEF StartsNew
  <1>5. pc = "reload" => Task.name \notin NamesOf(job.pool)
    BY DEF Keeping, StartsNew
  <1>6. ASSUME NEW n, Survives(n)
        PROVE  Survives(n)'
    BY <1>1, <1>2, <1>3, <1>5, <1>6 DEF Survives, Types, Loops
  <1>7. job.was \subseteq Names
    BY DEF Types, Jobs
  <1>8. QED
    BY <1>1, <1>4, <1>6, <1>7, KeepingStep

LEMMA FailedKeeps ==
    ASSUME Types, Keeping, pc \in Loops, job.todo # <<>>, UNCHANGED <<loaded, pc>>,
           Failed, job.step # "next"
    PROVE  Keeping'
  <1>1. CASE pc = "wasm"
    <2>1. /\ <<Task>> \in Seq(Instances) /\ Task.name \in NamesOf(<<Task>>)
      BY <1>1, TaskIs, NamesOfOne
    <2>2. Done(<<Task>>)
      BY <1>1 DEF Failed
    <2>3. QED
      BY <1>1, <2>1, <2>2, DoneKeeps
  <1>2. CASE pc # "wasm"
    <2>1. <<>> \in Seq(Instances) /\ Done(<<>>)
      BY <1>2 DEF Failed
    <2>2. QED
      BY <1>2, <2>1, DoneKeeps
  <1>3. QED
    BY <1>1, <1>2

\* A step that goes on with its task.
LEMMA GoesOnKeeps ==
    ASSUME Types, Keeping, UNCHANGED <<loaded, pc>>,
           job'.todo = job.todo, job'.kept = job.kept, job'.pool = job.pool,
           job'.was = job.was, job'.gone = job.gone, job'.leave = job.leave,
           pc = "reload" => Task.name \notin NamesOf(job.pool)
    PROVE  Keeping'
  <1>1. StartsNew'
    BY DEF StartsNew, Task
  <1>2. \A n : Survives(n) => Survives(n)'
    BY DEF Survives
  <1>3. job.was \subseteq Names
    BY DEF Types, Jobs
  <1>4. QED
    BY <1>1, <1>2, <1>3, KeepingStep

LEMMA StartKeeps ==
    ASSUME Types, Keeping, UNCHANGED <<loaded, pc>>,
           job' = [job EXCEPT !.step = "manifest"],
           pc = "reload" => Task.name \notin NamesOf(job.pool)
    PROVE  Keeping'
  <1>1. /\ job'.todo = job.todo /\ job'.kept = job.kept /\ job'.pool = job.pool
        /\ job'.was = job.was /\ job'.gone = job.gone /\ job'.leave = job.leave
    BY DEF Types, Jobs
  <1>2. QED
    BY <1>1, GoesOnKeeps

LEMMA LoopKeeps ==
    ASSUME Types, Keeping, LoopSteps
    PROVE  Keeping'
  <1>1. UNCHANGED <<loaded, pc>>
    BY DEF LoopSteps, ActivateEntry, ReloadEntry, ReloadInstance, CreateEntry,
           ReadManifest, ReadWasm
  <1>2. CASE ActivateEntry
    BY <1>1, <1>2, StartKeeps DEF ActivateEntry
  <1>3. CASE ReloadEntry
    <2>1. pc = "reload" /\ job.todo # <<>> /\ job.step = "next"
      BY <1>3, ReloadEntryIs
    <2>2. CASE Unmatched
      BY <1>1, <2>2, StartKeeps DEF Unmatched
    <2>3. ASSUME NEW i \in 1 .. Len(job.pool), NEW m \in Instances, Matched(i, m)
          PROVE  Keeping'
      <3>1. /\ job'.todo = Tail(job.todo) /\ job'.kept = job.kept \o <<m>>
            /\ job'.pool = RemoveAt(job.pool, i) /\ job'.step = "next"
            /\ job'.was = job.was /\ job'.leave = job.leave
        BY <2>1, <2>3, ReusedIs DEF Matched
      <3>2. job.kept \in Seq(Instances) /\ job.pool \in Seq(Instances)
            /\ job.was \subseteq Names
        BY DEF Types, Jobs
      <3>3. NamesOf(job'.kept) = NamesOf(job.kept) \cup {Task.name}
        <4>1. <<m>> \in Seq(Instances) /\ NamesOf(<<m>>) = {Task.name}
          BY <2>3, NamesOfOne DEF Matched
        <4>2. NamesOf(job.kept \o <<m>>) = NamesOf(job.kept) \cup NamesOf(<<m>>)
          BY <3>2, <4>1, NamesOfConcat
        <4>3. QED
          BY <3>1, <4>1, <4>2
      <3>4. NamesOf(job.todo) = NamesOf(job'.todo) \cup {Task.name}
        BY <2>1, <3>1, NamesOfTodo
      <3>5. NamesOf(job.pool) \subseteq NamesOf(job'.pool) \cup {Task.name}
        <4>1. Range(job.pool) \subseteq Range(job'.pool) \cup {job.pool[i]}
          BY <3>1, <3>2, RangeOfRemoveAt
        <4>2. job.pool[i].name = Task.name
          BY <2>3 DEF Matched
        <4>3. QED
          BY <4>1, <4>2, NamesAre
      <3>6. ASSUME NEW n, Survives(n)
            PROVE  Survives(n)'
        BY <1>1, <2>1, <3>3, <3>4, <3>5, <3>6 DEF Survives
      <3>7. StartsNew'
        BY <3>1 DEF StartsNew
      <3>8. QED
        BY <1>1, <3>1, <3>2, <3>6, <3>7, KeepingStep
    <2>4. QED
      BY <1>3, <2>2, <2>3, ReloadEntryIs
  <1>4. CASE ReloadInstance
    <2>1. pc = "wasm" /\ job.todo # <<>> /\ job.step = "next"
      BY <1>4 DEF ReloadInstance
    <2>2. CASE Done(<<Task>>)
      <3>1. <<Task>> \in Seq(Instances) /\ Task.name \in NamesOf(<<Task>>)
        BY <2>1, TaskIs, NamesOfOne
      <3>2. QED
        BY <1>1, <2>1, <2>2, <3>1, DoneKeeps DEF Loops
    <2>3. CASE job' = [job EXCEPT !.todo = Tail(@), !.gone = @ \cup {Task.name}]
      <3>1. /\ job'.todo = Tail(job.todo) /\ job'.gone = job.gone \cup {Task.name}
            /\ job'.kept = job.kept /\ job'.was = job.was /\ job'.leave = job.leave
            /\ job.was \subseteq Names
        BY <2>3 DEF Types, Jobs
      <3>2. NamesOf(job.todo) = NamesOf(job'.todo) \cup {Task.name}
        BY <2>1, <3>1, NamesOfTodo
      <3>3. ASSUME NEW n, Survives(n)
            PROVE  Survives(n)'
        BY <1>1, <2>1, <3>1, <3>2, <3>3 DEF Survives
      <3>4. StartsNew'
        BY <1>1, <2>1 DEF StartsNew
      <3>5. QED
        BY <1>1, <3>1, <3>3, <3>4, KeepingStep
    <2>4. CASE job' = [job EXCEPT !.step = "manifest"]
      BY <1>1, <2>1, <2>4, StartKeeps
    <2>5. QED
      BY <1>4, <2>2, <2>3, <2>4 DEF ReloadInstance
  <1>5. CASE CreateEntry
    <2>1. /\ pc = "create" /\ job.todo # <<>>
          /\ \/ Done(<<>>)
             \/ job' = [job EXCEPT !.step = "manifest"]
      BY <1>5 DEF CreateEntry
    <2>2. <<>> \in Seq(Instances)
      OBVIOUS
    <2>3. CASE Done(<<>>)
      BY <1>1, <2>1, <2>2, <2>3, DoneKeeps DEF Loops
    <2>4. CASE job' = [job EXCEPT !.step = "manifest"]
      BY <1>1, <2>1, <2>4, StartKeeps
    <2>5. QED
      BY <2>1, <2>3, <2>4
  <1>6. CASE ReadManifest
    <2>1. pc \in Loops /\ job.step = "manifest" /\ job.todo # <<>>
      BY <1>6 DEF ReadManifest, Types, JobFits, Loops
    <2>2. PICK file :
            \/ job' = [job EXCEPT !.step = "wasm", !.manifest = file]
            \/ Failed
      BY <1>6 DEF ReadManifest
    <2>3. CASE job' = [job EXCEPT !.step = "wasm", !.manifest = file]
      <3>1. /\ job'.todo = job.todo /\ job'.kept = job.kept /\ job'.pool = job.pool
            /\ job'.was = job.was /\ job'.gone = job.gone /\ job'.leave = job.leave
        BY <2>3 DEF Types, Jobs
      <3>2. pc = "reload" => Task.name \notin NamesOf(job.pool)
        BY <2>1 DEF Keeping, StartsNew
      <3>3. QED
        BY <1>1, <3>1, <3>2, GoesOnKeeps
    <2>4. CASE Failed
      BY <1>1, <2>1, <2>4, FailedKeeps
    <2>5. QED
      BY <2>2, <2>3, <2>4
  <1>7. CASE ReadWasm
    <2>1. /\ pc \in Loops /\ job.todo # <<>> /\ job.step = "wasm"
          /\ \/ Failed
             \/ Done(<<Started>>) /\ Started \in Instances
      BY <1>7, ReadWasmIs
    <2>2. CASE Failed
      BY <1>1, <2>1, <2>2, FailedKeeps
    <2>3. CASE Done(<<Started>>) /\ Started \in Instances
      <3>1. <<Started>> \in Seq(Instances) /\ Task.name \in NamesOf(<<Started>>)
        BY <2>3, NamesOfOne DEF Started
      <3>2. QED
        BY <1>1, <2>1, <2>3, <3>1, DoneKeeps
    <2>4. QED
      BY <2>1, <2>2, <2>3
  <1>8. QED
    BY <1>2, <1>3, <1>4, <1>5, <1>6, <1>7 DEF LoopSteps

LEMMA BegunKeeps ==
    ASSUME Types, Takes
    PROVE  Keeping'
  <1>1. /\ pc \notin Loops
        /\ Dropped \/ BeginsActivate \/ BeginsReload \/ BeginsWasm \/ BeginsLeave
    BY TakeIs, Zenon
  <1>2. CASE Dropped
    <2>1. pc' \in {"bind", "wait"}
      BY <1>1, <1>2 DEF Dropped
    <2>2. \A n : Survives(n)'
      BY <2>1 DEF Survives
    <2>3. StartsNew'
      BY <2>1 DEF StartsNew
    <2>4. QED
      BY <2>2, <2>3 DEF Keeping
  <1>3. CASE BeginsActivate
    <2>1. pc' = "activate" /\ job'.was = NamesOf(modules) /\ modules = <<>>
      BY <1>3 DEF BeginsActivate, Begins, Begun, Types, IdleFits
    <2>2. job'.was = {}
      BY <2>1, NamesOfNone
    <2>3. QED
      BY <2>1, <2>2 DEF Keeping, StartsNew
  <1>4. CASE BeginsReload
    <2>1. /\ pc' = "reload" /\ job'.was = NamesOf(modules) /\ job'.pool = modules
          /\ job'.todo = configured /\ loaded' = configured /\ job'.step = "next"
      BY <1>4 DEF BeginsReload, Begins, Begun
    <2>2. QED
      BY <2>1 DEF Keeping, StartsNew, Survives
  <1>5. CASE BeginsWasm
    <2>1. /\ pc' = "wasm" /\ job'.was = NamesOf(modules) /\ job'.todo = modules
      BY <1>5 DEF BeginsWasm, Begins, Begun
    <2>2. QED
      BY <2>1 DEF Keeping, StartsNew, Survives
  <1>6. CASE BeginsLeave
    <2>1. /\ pc' = "wasm" /\ job'.leave
      BY <1>6, SMT DEF BeginsLeave, Begins, Begun
    <2>2. \A n : Survives(n)'
      BY <2>1 DEF Survives
    <2>3. StartsNew'
      BY <2>1 DEF StartsNew
    <2>4. QED
      BY <2>2, <2>3 DEF Keeping
  <1>7. QED
    BY <1>1, <1>2, <1>3, <1>4, <1>5, <1>6

LEMMA KeepingNext == Types /\ Keeping /\ [Next]_vars => Keeping'
  <1> SUFFICES ASSUME Types, Keeping, [Next]_vars PROVE Keeping'
    OBVIOUS
  <1>1. CASE UNCHANGED <<loaded, pc, job>>
    <2>1. \A n : Survives(n)' <=> Survives(n)
      BY <1>1 DEF Survives
    <2>2. StartsNew' <=> StartsNew
      BY <1>1 DEF StartsNew, Task
    <2>3. QED
      BY <1>1, <2>1, <2>2 DEF Keeping
  <1>2. CASE Outside \/ Tick
    <2>1. UNCHANGED <<loaded, pc, job>>
      BY <1>2 DEF Outside, daemon, Edit, MoveAside, Place, Notify, ChangeExtensions, Tick
    <2>2. QED
      BY <1>1, <2>1
  <1>3. CASE ReloadEnds
    <2>1. /\ pc = "reload" /\ pc' = "wasm" /\ job.todo = <<>> /\ loaded' = loaded
          /\ job' = [job EXCEPT !.todo = job.kept, !.pool = <<>>, !.kept = <<>>]
      BY <1>3 DEF ReloadEnds
    <2>2. /\ job'.todo = job.kept /\ job'.was = job.was /\ job'.leave = job.leave
      BY <2>1 DEF Types, Jobs
    <2>3. \A n : Survives(n) => Survives(n)'
      BY <2>1, <2>2, NamesOfNone DEF Survives
    <2>4. QED
      BY <2>1, <2>2, <2>3 DEF Keeping, StartsNew
  <1>4. CASE WasmEnds
    <2>1. /\ pc = "wasm" /\ pc' = "create" /\ job.todo = <<>> /\ loaded' = loaded
          /\ job' = [job EXCEPT !.todo = loaded, !.live = NamesOf(job.kept)]
      BY <1>4 DEF WasmEnds
    <2>2. /\ job'.kept = job.kept /\ job'.was = job.was /\ job'.leave = job.leave
          /\ job'.gone = job.gone
      BY <2>1 DEF Types, Jobs
    <2>3. \A n : Survives(n) => Survives(n)'
      BY <2>1, <2>2, NamesOfNone DEF Survives
    <2>4. QED
      BY <2>1, <2>2, <2>3 DEF Keeping, StartsNew
  <1>5. CASE CreateEnds \/ ActivateEnds
    <2>1. pc' \in {"bind", "wait"}
      BY <1>5 DEF CreateEnds, ActivateEnds
    <2>2. QED
      BY <2>1, SMT DEF Keeping, StartsNew, Survives
  <1>6. CASE StandsStill
    <2>1. CASE UNCHANGED <<loaded, pc, job>>
      BY <1>1, <2>1
    <2>2. CASE pc' = "wait"
      BY <2>2, SMT DEF Keeping, StartsNew, Survives
    <2>3. QED
      BY <1>6, <2>1, <2>2, StandsStillIs
  <1>7. QED
    BY <1>2, <1>3, <1>4, <1>5, <1>6, NextIs, BegunKeeps, LoopKeeps

\* A reload costs the bar no module that ran and is still configured, whatever
\* fails, except where the wasm is not there (module.rs:399).
THEOREM ReloadKeeps == Spec => KeepsRunning
  <1>1. Init => Keeping
    BY SMT DEF Init, Keeping, StartsNew, Survives
  <1>2. Types /\ Keeping /\ [Next]_vars =>
          [pc # "wait" /\ pc' = "wait" /\ ~idle' =>
            \A n \in job.was : n \in NamesOf(loaded') =>
                n \in NamesOf(modules') \cup job.gone]_vars
    <2> SUFFICES ASSUME Types, Keeping, Next, pc # "wait", pc' = "wait", ~idle',
                        NEW n \in job.was, n \in NamesOf(loaded')
                 PROVE  n \in NamesOf(modules') \cup job.gone
      OBVIOUS
    <2>1. pc \in Loops
      <3>1. job # NoJob
        BY SMT DEF NoJob
      <3>2. QED
        BY <3>1 DEF Types, JobFits
    <2>2. CreateEnds \/ ActivateEnds
      <3>1. CASE Outside \/ Tick \/ LoopSteps
        BY <3>1 DEF Outside, daemon, Edit, MoveAside, Place, Notify, ChangeExtensions, Tick,
                    LoopSteps, ActivateEntry, ReloadEntry, ReloadInstance, CreateEntry,
                    ReadManifest, ReadWasm
      <3>2. ~Takes
        BY <2>1, TakeIs
      <3>3. CASE StandsStill
        BY <2>1, <3>3, StandsStillIs DEF Loops
      <3>4. CASE ReloadEnds \/ WasmEnds
        BY <3>4 DEF ReloadEnds, WasmEnds
      <3>5. QED
        BY <3>1, <3>2, <3>3, <3>4, NextIs
    <2>3. CASE CreateEnds
      <3>1. ~job.leave /\ pc = "create" /\ modules' = job.kept /\ loaded' = loaded
        BY <2>3 DEF CreateEnds
      <3>2. QED
        BY <3>1 DEF Keeping, Survives
    <2>4. CASE ActivateEnds
      <3>1. pc = "activate" /\ job.kept # <<>> /\ modules' = job.kept /\ loaded' = loaded
        BY <2>4 DEF ActivateEnds
      <3>2. QED
        BY <3>1 DEF Keeping, Survives
    <2>5. QED
      BY <2>2, <2>3, <2>4
  <1>3. Types /\ Keeping /\ [Next]_vars => Keeping'
    BY KeepingNext
  <1>4. QED
    BY <1>1, <1>2, <1>3, TypesHold, PTL DEF Spec, KeepsRunning

-----------------------------------------------------------------------------
(* A reload checks the schema of what it starts. *)

Revalidating ==
    job.step = "wasm" /\ pc \in {"wasm", "create"} => TaskKind \notin validated

LEMMA RevalidatingNext == Types /\ Revalidating /\ [Next]_vars => Revalidating'
  <1> SUFFICES ASSUME Types, Revalidating, [Next]_vars,
                      (job.step = "wasm" /\ pc \in {"wasm", "create"})'
               PROVE  (TaskKind \notin validated)'
    BY DEF Revalidating
  <1>1. CASE UNCHANGED <<validated, pc, job>>
    BY <1>1 DEF Revalidating, TaskKind, Task
  <1>2. CASE Outside \/ Tick \/ StandsStill
    <2>1. UNCHANGED <<validated, pc, job>>
      <3>1. CASE Outside \/ Tick
        BY <3>1 DEF Outside, daemon, Edit, MoveAside, Place, Notify, ChangeExtensions, Tick
      <3>2. QED
        BY <1>2, <3>1, StandsStillIs
    <2>2. QED
      BY <1>1, <2>1
  <1>3. CASE ReadManifest
    <2>1. job.step = "manifest" /\ pc \in {"wasm", "create"} /\ job.todo # <<>>
      BY <1>3 DEF ReadManifest, Types, JobFits
    <2>2. validated' = validated \ {TaskKind}
      BY <1>3, <2>1 DEF ReadManifest
    <2>3. ~Failed
      <3>1. ASSUME NEW kept \in Seq(Instances), Done(kept)
            PROVE  job'.step = "next"
        BY <2>1, <3>1, DoneIs
      <3>2. CASE pc = "wasm"
        <4>1. <<Task>> \in Seq(Instances)
          BY <2>1, <3>2, TaskIs, NamesOfOne
        <4>2. QED
          BY <3>1, <3>2, <4>1 DEF Failed
      <3>3. CASE pc # "wasm"
        <4>1. <<>> \in Seq(Instances)
          OBVIOUS
        <4>2. QED
          BY <3>1, <3>3, <4>1 DEF Failed
      <3>4. QED
        BY <3>2, <3>3
    <2>4. PICK file : job' = [job EXCEPT !.step = "wasm", !.manifest = file]
      BY <1>3, <2>3 DEF ReadManifest
    <2>5. job'.todo = job.todo
      BY <2>4 DEF Types, Jobs
    <2>6. TaskKind' = TaskKind
      BY <2>5 DEF TaskKind, Task
    <2>7. QED
      BY <2>2, <2>6
  <1>4. CASE LoopSteps /\ ~ReadManifest
    <2>1. ASSUME NEW kept \in Seq(Instances), Done(kept), job.todo # <<>>
          PROVE  FALSE
      BY <2>1, DoneIs
    <2>2. ASSUME job' = [job EXCEPT !.step = "manifest"]
          PROVE  FALSE
      <3>1. job'.step = "manifest"
        BY <2>2 DEF Types, Jobs
      <3>2. QED
        BY <3>1
    <2>3. <<>> \in Seq(Instances)
      OBVIOUS
    <2>4. CASE ActivateEntry \/ CreateEntry
      BY <2>1, <2>2, <2>3, <2>4 DEF ActivateEntry, CreateEntry
    <2>5. CASE ReloadEntry
      BY <2>5 DEF ReloadEntry
    <2>6. CASE ReloadInstance
      <3>1. pc = "wasm" /\ job.todo # <<>> /\ job.step = "next"
        BY <2>6 DEF ReloadInstance
      <3>2. <<Task>> \in Seq(Instances)
        BY <3>1, TaskIs, NamesOfOne
      <3>3. CASE job' = [job EXCEPT !.todo = Tail(@), !.gone = @ \cup {Task.name}]
        <4>1. job'.step = "next"
          BY <3>1, <3>3 DEF Types, Jobs
        <4>2. QED
          BY <4>1
      <3>4. QED
        BY <2>1, <2>2, <2>6, <3>1, <3>2, <3>3 DEF ReloadInstance
    <2>7. CASE ReadWasm
      <3>1. /\ job.todo # <<>>
            /\ \/ Failed
               \/ Done(<<Started>>) /\ Started \in Instances
        BY <2>7, ReadWasmIs
      <3>2. pc = "wasm" => <<Task>> \in Seq(Instances)
        BY <3>1, TaskIs, NamesOfOne
      <3>3. Started \in Instances => <<Started>> \in Seq(Instances)
        BY NamesOfOne
      <3>4. QED
        BY <2>1, <2>3, <3>1, <3>2, <3>3 DEF Failed
    <2>8. QED
      BY <1>4, <2>4, <2>5, <2>6, <2>7 DEF LoopSteps
  <1>5. CASE Takes
    <2>1. job'.step = "next"
      <3>1. job = NoJob
        BY <1>5, TakeIs DEF Types, JobFits
      <3>2. QED
        BY <1>5, <3>1, TakeIs, SMT
           DEF Dropped, BeginsActivate, BeginsReload, BeginsWasm, BeginsLeave, Begins,
               Begun, NoJob
    <2>2. QED
      BY <2>1
  <1>6. CASE ReloadEnds
    <2>1. job'.step = job.step
      BY <1>6 DEF ReloadEnds, Types, Jobs
    <2>2. QED
      BY <1>6, <2>1 DEF ReloadEnds, Types, JobFits
  <1>7. CASE WasmEnds
    <2>1. job'.step = job.step
      BY <1>7 DEF WasmEnds, Types, Jobs
    <2>2. QED
      BY <1>7, <2>1 DEF WasmEnds, Types, JobFits
  <1>8. CASE CreateEnds \/ ActivateEnds
    BY <1>8 DEF CreateEnds, ActivateEnds
  <1>9. QED
    BY <1>2, <1>3, <1>4, <1>5, <1>6, <1>7, <1>8, NextIs

\* A reload starts no instance of a wasm whose schema was not checked, though
\* the kind was validated with another one before (module.rs:136).
THEOREM ReloadChecksSchema == Spec => ReloadRevalidates
  <1>1. Init => Revalidating
    BY DEF Init, Revalidating
  <1>2. Types /\ Revalidating /\ [Next]_vars =>
          [job.step = "wasm" /\ pc \in {"wasm", "create"} /\ job'.kept # job.kept =>
            LET m == Last(job'.kept) IN m = Task \/ ValidSchema(m.wasm)]_vars
    <2> SUFFICES ASSUME Types, Revalidating, Next, job.step = "wasm",
                        pc \in {"wasm", "create"}, job'.kept # job.kept
                 PROVE  Last(job'.kept) = Task \/ ValidSchema(Last(job'.kept).wasm)
      OBVIOUS
    <2>1. job.todo # <<>> /\ job.kept \in Seq(Instances) /\ TaskKind \notin validated
      BY DEF Types, Jobs, JobFits, Revalidating
    <2>2. ReadWasm
      BY StartIs
    <2>3. ASSUME NEW m \in Instances, Done(<<m>>)
          PROVE  Last(job'.kept) = m
      <3>1. <<m>> \in Seq(Instances)
        BY NamesOfOne
      <3>2. job'.kept = job.kept \o <<m>>
        BY <2>1, <2>3, <3>1, DoneIs
      <3>3. QED
        BY <2>1, <3>2, SMT DEF Last
    <2>4. CASE Done(<<Started>>) /\ Started \in Instances
               /\ (TaskKind \in validated \/ ValidSchema(disk[TaskKind].wasm))
      <3>1. Last(job'.kept) = Started
        BY <2>3, <2>4
      <3>2. Started.wasm = disk[TaskKind].wasm
        BY DEF Started
      <3>3. QED
        BY <2>1, <2>4, <3>1, <3>2
    <2>5. CASE Failed
      <3>1. CASE pc = "wasm"
        <4>1. Task \in Instances /\ Done(<<Task>>)
          BY <2>1, <2>5, <3>1, TaskIs DEF Failed
        <4>2. QED
          BY <2>3, <4>1
      <3>2. CASE pc # "wasm"
        <4>1. <<>> \in Seq(Instances) /\ Done(<<>>)
          BY <2>5, <3>2 DEF Failed
        <4>2. job'.kept = job.kept \o <<>>
          BY <2>1, <4>1, DoneIs
        <4>3. QED
          BY <2>1, <4>2, SMT
      <3>3. QED
        BY <3>1, <3>2
    <2>6. QED
      BY <2>2, <2>4, <2>5, ReadWasmIs
  <1>3. QED
    BY <1>1, <1>2, RevalidatingNext, TypesHold, PTL DEF Spec, ReloadRevalidates

-----------------------------------------------------------------------------
(* The instances settle on what is on disk. *)

\* Nobody is at work on the package, the daemon has been told, and it has had
\* the extensions since.
Quiet(k) == arriving[k] = Missing /\ k \notin batch.kinds /\ k \notin excused

Steady(k) == Quiet(k) /\ Startable(k)

Current(m) == /\ m.manifest = disk[KindOf[m.name]].manifest
              /\ m.wasm = disk[KindOf[m.name]].wasm

\* The instances that a loop is done with, and those it will look at.
New == IF pc \in Loops THEN job.kept ELSE modules
Old == IF pc = "reload" THEN job.pool ELSE IF pc = "wasm" THEN job.todo ELSE <<>>

\* The manifest in hand is the one on disk, unless that is about to change.
ManifestInHand ==
    job.step = "wasm" /\ Quiet(TaskKind) => job.manifest = disk[TaskKind].manifest

\* Entries come from the list.
Listed == pc \in {"activate", "reload", "create"} => Range(job.todo) \subseteq Range(loaded)

LiveAreKept == pc = "create" => job.live \subseteq NamesOf(job.kept)

\* An instance has the config of its entry.
Configured ==
    /\ \A m \in Range(New) : [name |-> m.name, conf |-> m.conf] \in Range(loaded)
    /\ pc = "wasm" =>
        \A m \in Range(Old) : [name |-> m.name, conf |-> m.conf] \in Range(loaded)
    /\ \A m \in Range(New) \cup Range(Old) : m.guest = m.conf

\* An instance of a steady kind is the one that is on disk, unless its kind is
\* still to be reloaded.
AllCurrent ==
    /\ \A m \in Range(New) :
         Steady(KindOf[m.name]) /\ (pc = "reload" => KindOf[m.name] \notin job.kinds)
            => Current(m)
    /\ \A m \in Range(Old) :
         Steady(KindOf[m.name]) /\ KindOf[m.name] \notin job.kinds => Current(m)

\* An entry of a steady kind has an instance, or will be looked at.
HasInstance(e) ==
    \/ e.name \in NamesOf(New)
    \/ pc = "activate" /\ e \in Range(job.todo)
    \/ pc = "reload" /\ (e \in Range(job.todo) \/ KindOf[e.name] \in job.kinds)
    \/ pc = "wasm" /\ (e.name \in NamesOf(job.todo) \/ KindOf[e.name] \in job.kinds)
    \/ pc = "create" /\ e \in Range(job.todo) /\ KindOf[e.name] \in job.kinds

Covered == \A e \in Range(loaded) : Steady(KindOf[e.name]) => HasInstance(e)

Settling ==
    /\ ManifestInHand /\ Listed /\ LiveAreKept
    /\ pc \in {"activate", "reload"} => ~job.leave
    /\ failures = 0 => Configured /\ AllCurrent /\ (~job.leave => Covered)

LEMMA RangeOfNone == Range(<<>>) = {}
  BY SMT DEF Range

LEMMA NewAndOld ==
    /\ pc \notin Loops => New = modules /\ Old = <<>>
    /\ pc = "activate" => New = job.kept /\ Old = <<>>
    /\ pc = "reload" => New = job.kept /\ Old = job.pool
    /\ pc = "wasm" => New = job.kept /\ Old = job.todo
    /\ pc = "create" => New = job.kept /\ Old = <<>>
  BY DEF New, Old, Loops

\* An idle bar has nothing that could be out of date.
LEMMA IdleSettles == Types /\ pc \notin Loops /\ idle => Settling
  <1> SUFFICES ASSUME Types, pc \notin Loops, idle
               PROVE  Settling
    OBVIOUS
  <1>1. modules = <<>> /\ loaded = <<>> /\ job.step = "next"
    BY SMT DEF Types, JobFits, IdleFits, NoJob
  <1>2. Range(New) = {} /\ Range(Old) = {} /\ Range(loaded) = {}
    BY <1>1, NewAndOld, RangeOfNone
  <1>3. Configured /\ AllCurrent /\ Covered
    BY <1>2 DEF Configured, AllCurrent, Covered
  <1>4. QED
    BY <1>1, <1>3 DEF Settling, ManifestInHand, Listed, LiveAreKept, Loops

LEMMA IdleSettlesNext == (Types /\ pc \notin Loops /\ idle => Settling)'
  BY IdleSettles, PTL

\* A package that is quiet stays as it is, except that somebody goes to work on
\* it.
LEMMA SameDisk ==
    ASSUME UNCHANGED <<files, batch>>
    PROVE  /\ \A k : Quiet(k)' <=> Quiet(k)
           /\ \A k : Startable(k)' <=> Startable(k)
           /\ \A k : Steady(k)' <=> Steady(k)
           /\ \A m : Current(m)' <=> Current(m)
  <1>1. UNCHANGED <<disk, arriving, extensions, excused, batch>>
    BY DEF files
  <1>2. \A r : UnmetExtensions(r)' = UnmetExtensions(r)
    BY <1>1 DEF UnmetExtensions
  <1>3. \A k : Startable(k)' <=> Startable(k)
    BY <1>1, <1>2 DEF Startable, Accepted
  <1>4. \A k : Quiet(k)' <=> Quiet(k)
    BY <1>1 DEF Quiet
  <1>5. QED
    BY <1>1, <1>3, <1>4 DEF Steady, Current

\* A package that was placed and lacks an extension is excused.
Noted == \A k \in Kinds : arriving[k] = Missing /\ k \in Lacking => k \in excused

LEMMA LackingIs ==
    ASSUME NEW k \in Kinds, disk'[k] = disk[k], extensions' = extensions
    PROVE  k \in Lacking' <=> k \in Lacking
  <1>1. \A r : UnmetExtensions(r)' = UnmetExtensions(r)
    BY DEF UnmetExtensions
  <1>2. QED
    BY <1>1 DEF Lacking, Parses

LEMMA NotedNext == Types /\ Noted /\ [Next]_vars => Noted'
  <1> SUFFICES ASSUME Types, Noted, [Next]_vars,
                      NEW k \in Kinds, (arriving[k] = Missing /\ k \in Lacking)'
               PROVE  k \in excused'
    BY DEF Noted
  <1>1. CASE UNCHANGED files
    BY <1>1, LackingIs DEF files, Noted
  <1>2. CASE Edit
    BY <1>1, <1>2 DEF Edit
  <1>3. ASSUME NEW l \in Kinds, MoveAside(l) \/ Place(l)
        PROVE  k \in excused'
    <2>1. k # l
      BY <1>3, RuntimeAssumption DEF MoveAside, Place, Types
    <2>2. /\ disk'[k] = disk[k] /\ arriving'[k] = arriving[k]
          /\ extensions' = extensions /\ excused' = excused
      BY <1>3, <2>1 DEF MoveAside, Place, Types
    <2>3. QED
      BY <2>2, LackingIs DEF Noted
  <1>4. ASSUME NEW l \in Kinds, Notify(l)
        PROVE  k \in excused'
    <2>1. disk' = disk /\ extensions' = extensions
      BY <1>4 DEF Notify
    <2>2. k \in Lacking
      BY <2>1, LackingIs
    <2>3. CASE k = l
      BY <1>4, <2>2, <2>3 DEF Notify
    <2>4. CASE k # l
      <3>1. arriving'[k] = arriving[k]
        BY <1>4, <2>4 DEF Notify, Types
      <3>2. k \in excused
        BY <2>2, <3>1 DEF Noted
      <3>3. QED
        BY <1>4, <2>4, <3>2 DEF Notify
    <2>5. QED
      BY <2>3, <2>4
  <1>5. CASE ChangeExtensions
    BY <1>5 DEF ChangeExtensions
  <1>6. CASE Tick \/ LoopSteps
    BY <1>1, <1>6 DEF Tick, LoopSteps, ActivateEntry, ReloadEntry, ReloadInstance,
                      CreateEntry, ReadManifest, ReadWasm
  <1>7. CASE ReloadEnds \/ WasmEnds \/ CreateEnds \/ ActivateEnds
    BY <1>1, <1>7 DEF ReloadEnds, WasmEnds, CreateEnds, ActivateEnds
  <1>8. CASE StandsStill
    BY <1>1, <1>8, StandsStillIs
  <1>9. CASE Takes
    <2>1. /\ UNCHANGED <<disk, arriving, extensions>>
          /\ excused' = excused \/ excused' = Lacking
      BY <1>9, TakeIs DEF Dropped, BeginsActivate, BeginsReload, BeginsWasm, BeginsLeave
    <2>2. k \in Lacking
      BY <2>1, LackingIs
    <2>3. QED
      BY <2>1, <2>2 DEF Noted
  <1>10. QED
    BY <1>2, <1>3, <1>4, <1>5, <1>6, <1>7, <1>8, <1>9, NextIs DEF Outside

LEMMA NotedHolds == Spec => []Noted
  <1>1. Init => Noted
    BY DEF Init, Noted
  <1>2. QED
    BY <1>1, NotedNext, TypesHold, PTL DEF Spec

LEMMA OutsideDisk ==
    ASSUME Types, Noted, Outside, pc # "boot", NEW k \in Kinds, Quiet(k)'
    PROVE  Quiet(k) /\ disk'[k] = disk[k] /\ (Startable(k)' => Startable(k))
  <1>1. CASE ChangeExtensions
    <2>1. /\ UNCHANGED <<disk, arriving, batch>> /\ excused' = excused \cup Lacking'
      BY <1>1 DEF ChangeExtensions
    <2>2. Quiet(k)
      BY <2>1 DEF Quiet
    <2>3. k \notin Lacking
      BY <2>2 DEF Noted, Quiet
    <2>4. Startable(k)' => Startable(k)
      BY <2>1, <2>3 DEF Startable, Accepted, Lacking
    <2>5. QED
      BY <2>1, <2>2, <2>4
  <1>2. CASE ~ChangeExtensions
    <2>1. Quiet(k) /\ disk'[k] = disk[k]
      <3>1. CASE Edit
        BY <3>1 DEF Edit, Quiet, files, Types
      <3>2. ASSUME NEW l \in Kinds, MoveAside(l)
            PROVE  Quiet(k) /\ disk'[k] = disk[k]
        BY <3>2, RuntimeAssumption DEF MoveAside, Quiet, Types
      <3>3. ASSUME NEW l \in Kinds, Place(l)
            PROVE  Quiet(k) /\ disk'[k] = disk[k]
        BY <3>3 DEF Place, Quiet, Types
      <3>4. ASSUME NEW l \in Kinds, Notify(l)
            PROVE  Quiet(k) /\ disk'[k] = disk[k]
        BY <3>4 DEF Notify, Quiet, Types
      <3>5. QED
        BY <1>2, <3>1, <3>2, <3>3, <3>4 DEF Outside
    <2>2. extensions' = extensions
      BY <1>2 DEF Outside, Edit, MoveAside, Place, Notify, files
    <2>3. \A r : UnmetExtensions(r)' = UnmetExtensions(r)
      BY <2>2 DEF UnmetExtensions
    <2>4. QED
      BY <2>1, <2>3 DEF Startable, Accepted
  <1>3. QED
    BY <1>1, <1>2

LEMMA OutsideSettles ==
    ASSUME Types, Noted, Settling, Outside, pc # "boot"
    PROVE  Settling'
  <1>1. UNCHANGED <<loaded, modules, validated, idle, pc, job, failures>>
    BY DEF Outside, daemon, Edit, MoveAside, Place, Notify, ChangeExtensions
  <1>2. \A k \in Kinds : Steady(k)' => Steady(k) /\ disk'[k] = disk[k]
    BY OutsideDisk DEF Steady
  <1>3. New' = New /\ Old' = Old
    BY <1>1 DEF New, Old
  <1>4. Range(New) \subseteq Instances /\ Range(Old) \subseteq Instances
    BY SMT DEF Types, Jobs, JobFits, New, Old, Range, Loops
  <1>5. \A m \in Range(New) \cup Range(Old) : KindOf[m.name] \in Kinds
    BY <1>4, RuntimeAssumption DEF Instances
  <1>6. \A m \in Range(New) \cup Range(Old) :
          Steady(KindOf[m.name])' => Steady(KindOf[m.name]) /\ (Current(m) => Current(m)')
    BY <1>2, <1>5 DEF Current
  <1>7. AllCurrent => AllCurrent'
    BY <1>1, <1>3, <1>6 DEF AllCurrent
  <1>8. Configured => Configured'
    BY <1>1, <1>3 DEF Configured
  <1>9. Covered => Covered'
    <2>1. \A e : HasInstance(e) => HasInstance(e)'
      BY <1>1, <1>3 DEF HasInstance
    <2>2. \A e \in Range(loaded) : KindOf[e.name] \in Kinds
      <3>1. loaded \in Lists
        BY DEF Types
      <3>2. loaded \in Seq(Entries)
        BY <3>1, ListsAssumption, Zenon DEF Entries
      <3>3. Range(loaded) \subseteq Entries
        BY <3>2 DEF Range
      <3>4. QED
        BY <3>3, RuntimeAssumption DEF Entries
    <2>3. QED
      BY <1>1, <1>2, <2>1, <2>2 DEF Covered
  <1>10. ManifestInHand'
    <2>1. Task' = Task /\ TaskKind' = TaskKind
      BY <1>1 DEF Task, TaskKind
    <2>2. ASSUME job.step = "wasm", Quiet(TaskKind)'
          PROVE  Quiet(TaskKind) /\ disk'[TaskKind] = disk[TaskKind]
      <3>1. TaskKind \in Kinds
        BY <2>2, TaskIs DEF Types, JobFits
      <3>2. PICK k \in Kinds : k = TaskKind
        BY <3>1
      <3>3. Quiet(k)'
        BY <2>1, <2>2, <3>2 DEF Quiet
      <3>4. QED
        BY <3>2, <3>3, OutsideDisk
    <2>3. QED
      BY <1>1, <2>1, <2>2 DEF Settling, ManifestInHand
  <1>11. Listed' /\ LiveAreKept'
    BY <1>1 DEF Settling, Listed, LiveAreKept
  <1>12. QED
    BY <1>1, <1>7, <1>8, <1>9, <1>10, <1>11 DEF Settling

\* A step that goes on with its task.
LEMMA GoesOnSettles ==
    ASSUME Types, Settling, pc \in Loops, UNCHANGED <<files, batch, loaded, pc>>,
           job'.todo = job.todo, job'.kept = job.kept, job'.pool = job.pool,
           job'.kinds = job.kinds, job'.live = job.live, job'.leave = job.leave,
           failures' = 0 => failures = 0,
           job'.step = "wasm" => job'.manifest = disk[TaskKind].manifest
    PROVE  Settling'
  <1>1. New' = New /\ Old' = Old
    BY DEF New, Old
  <1>2. Task' = Task /\ TaskKind' = TaskKind /\ disk' = disk
    BY DEF Task, TaskKind, files
  <1>3. Configured => Configured'
    BY <1>1 DEF Configured
  <1>4. AllCurrent => AllCurrent'
    BY <1>1, SameDisk DEF AllCurrent
  <1>5. Covered => Covered'
    BY <1>1, SameDisk DEF Covered, HasInstance
  <1>6. ManifestInHand'
    BY <1>2 DEF ManifestInHand
  <1>7. QED
    BY <1>3, <1>4, <1>5, <1>6 DEF Settling, Listed, LiveAreKept

LEMMA StartSettles ==
    ASSUME Types, Settling, pc \in Loops, UNCHANGED <<files, batch, loaded, pc, failures>>,
           job' = [job EXCEPT !.step = "manifest"]
    PROVE  Settling'
  <1>1. /\ job'.todo = job.todo /\ job'.kept = job.kept /\ job'.pool = job.pool
        /\ job'.kinds = job.kinds /\ job'.live = job.live /\ job'.leave = job.leave
        /\ job'.step = "manifest"
    BY DEF Types, Jobs
  <1>2. QED
    BY <1>1, GoesOnSettles

\* A step that is through with its task.
Through(kept) ==
    /\ job'.todo = Tail(job.todo) /\ job'.kept = job.kept \o kept
    /\ Range(job'.pool) \subseteq Range(job.pool)
    /\ job'.step = "next"
    /\ job'.kinds = job.kinds /\ job'.live = job.live /\ job'.leave = job.leave

\* What it leaves is an instance of its task, and the one on disk.
Serves(m) ==
    /\ m.name = Task.name /\ m.conf = Task.conf /\ m.guest = m.conf
    /\ Steady(TaskKind) /\ (pc = "reload" => TaskKind \notin job.kinds) => Current(m)

\* Nothing is left only when something else will do, or has done.
Excused ==
    \/ pc = "create" /\ (TaskKind \notin job.kinds \/ Task.name \in job.live)
    \/ pc = "wasm" /\ TaskKind \in job.kinds

LEMMA ThroughSettles ==
    ASSUME Types, Settling, pc \in Loops, job.todo # <<>>,
           UNCHANGED <<files, batch, loaded, pc>>,
           failures' = 0 => failures = 0,
           NEW kept \in Seq(Instances), Through(kept),
           failures' = 0 => \A m \in Range(kept) : Serves(m),
           failures' = 0 /\ Steady(TaskKind) => Task.name \in NamesOf(kept) \/ Excused
    PROVE  Settling'
  <1>1. /\ Range(job.todo) = Range(Tail(job.todo)) \cup {Task}
        /\ Task \in Range(job.todo)
        /\ pc # "wasm" => Task \in Entries
    BY TaskIs
  <1>2. job.kept \in Seq(Instances)
    BY DEF Types, Jobs
  <1>3. /\ Range(job'.kept) = Range(job.kept) \cup Range(kept)
        /\ NamesOf(job'.kept) = NamesOf(job.kept) \cup NamesOf(kept)
    BY <1>2, RangeOfConcat, NamesOfConcat DEF Through
  <1>4. /\ Range(job.todo) = Range(job'.todo) \cup {Task}
        /\ NamesOf(job.todo) = NamesOf(job'.todo) \cup {Task.name}
    BY <1>1, NamesOfTodo DEF Through
  <1>5. /\ Range(New') = Range(New) \cup Range(kept)
        /\ NamesOf(New') = NamesOf(New) \cup NamesOf(kept)
        /\ Range(Old') \subseteq Range(Old)
    <2>1. New = job.kept /\ New' = job'.kept
      BY DEF New
    <2>2. Range(Old') \subseteq Range(Old)
      BY <1>4 DEF Old, Through
    <2>3. QED
      BY <1>3, <2>1, <2>2
  <1>6. ManifestInHand' /\ Listed' /\ LiveAreKept'
    BY <1>3, <1>4 DEF Settling, ManifestInHand, Listed, LiveAreKept, Through
  <1>7. ASSUME failures' = 0
        PROVE  Configured' /\ AllCurrent' /\ (~job'.leave => Covered')
    <2>1. Configured /\ AllCurrent /\ (~job.leave => Covered)
      BY <1>7 DEF Settling
    <2>2. [name |-> Task.name, conf |-> Task.conf] \in Range(loaded)
      <3>1. CASE pc = "wasm"
        <4>1. Task \in Range(Old)
          BY <1>1, <3>1 DEF Old
        <4>2. QED
          BY <2>1, <3>1, <4>1 DEF Configured
      <3>2. CASE pc # "wasm"
        <4>1. Task \in Range(loaded)
          BY <1>1, <3>2 DEF Settling, Listed, Types, Loops
        <4>2. Task = [name |-> Task.name, conf |-> Task.conf]
          BY <1>1, <3>2 DEF Entries
        <4>3. QED
          BY <4>1, <4>2
      <3>3. QED
        BY <3>1, <3>2
    <2>3. \A m \in Range(kept) : Serves(m)
      BY <1>7
    <2>4. Configured'
      BY <1>5, <2>1, <2>2, <2>3 DEF Configured, Serves
    <2>5. AllCurrent'
      <3>1. \A m \in Range(kept) :
              Steady(KindOf[m.name]) /\ (pc = "reload" => KindOf[m.name] \notin job.kinds)
                => Current(m)
        BY <2>3 DEF Serves, TaskKind
      <3>2. QED
        BY <1>5, <2>1, <3>1, SameDisk DEF AllCurrent, Through
    <2>6. ASSUME ~job.leave, NEW e \in Range(loaded), Steady(KindOf[e.name])
          PROVE  HasInstance(e)'
      <3>1. HasInstance(e)
        BY <2>1, <2>6 DEF Covered
      <3>2. CASE e.name # Task.name
        BY <1>4, <1>5, <3>1, <3>2 DEF HasInstance, Through
      <3>3. CASE e.name = Task.name
        <4>1. KindOf[e.name] = TaskKind
          BY <3>3 DEF TaskKind
        <4>2. CASE Task.name \in NamesOf(kept)
          BY <1>5, <3>3, <4>2 DEF HasInstance
        <4>3. CASE pc = "wasm" /\ TaskKind \in job.kinds
          BY <4>1, <4>3 DEF HasInstance, Through
        <4>4. CASE pc = "create" /\ (TaskKind \notin job.kinds \/ Task.name \in job.live)
          <5>1. e.name \in NamesOf(New)
            BY <3>1, <3>3, <4>1, <4>4 DEF HasInstance, Settling, LiveAreKept, New
          <5>2. QED
            BY <1>5, <5>1 DEF HasInstance
        <4>5. QED
          BY <1>7, <2>6, <4>1, <4>2, <4>3, <4>4 DEF Excused
      <3>4. QED
        BY <3>2, <3>3
    <2>7. ~job'.leave => Covered'
      BY <2>6, SameDisk DEF Covered, Through
    <2>8. QED
      BY <2>4, <2>5, <2>7
  <1>8. (pc \in {"activate", "reload"} => ~job.leave)'
    BY DEF Settling, Through
  <1>9. QED
    BY <1>6, <1>7, <1>8 DEF Settling

LEMMA DoneIsThrough ==
    ASSUME Types, job.todo # <<>>, NEW kept \in Seq(Instances), Done(kept)
    PROVE  Through(kept)
  BY DoneIs DEF Through

\* A task that could not be done, for a reason that a steady package does not
\* give.
LEMMA FailedSettles ==
    ASSUME Types, Settling, pc \in Loops, job.todo # <<>>,
           UNCHANGED <<files, batch, loaded, pc>>,
           failures' = 0 => failures = 0, Failed,
           failures' = 0 => ~Steady(TaskKind)
    PROVE  Settling'
  <1>1. CASE pc = "wasm"
    <2>1. Task \in Instances /\ <<Task>> \in Seq(Instances) /\ Range(<<Task>>) = {Task}
      BY <1>1, TaskIs, RangeOfOne
    <2>2. Through(<<Task>>)
      BY <1>1, <2>1, DoneIsThrough DEF Failed
    <2>3. ASSUME failures' = 0
          PROVE  Serves(Task)
      <3>1. Task \in Range(Old)
        BY <1>1, TaskIs DEF Old
      <3>2. Task.guest = Task.conf
        BY <2>3, <3>1 DEF Settling, Configured
      <3>3. QED
        BY <2>3, <3>2 DEF Serves
    <2>4. failures' = 0 => \A m \in Range(<<Task>>) : Serves(m)
      BY <2>1, <2>3
    <2>5. QED
      BY <2>1, <2>2, <2>4, ThroughSettles
  <1>2. CASE pc # "wasm"
    <2>1. <<>> \in Seq(Instances) /\ Range(<<>>) = {}
      BY RangeOfNone
    <2>2. Through(<<>>)
      BY <1>2, <2>1, DoneIsThrough DEF Failed
    <2>3. QED
      BY <2>1, <2>2, ThroughSettles
  <1>3. QED
    BY <1>1, <1>2

LEMMA ReloadEntrySettles ==
    ASSUME Types, Settling, ReloadEntry
    PROVE  Settling'
  <1>1. /\ pc = "reload" /\ job.todo # <<>> /\ job.step = "next"
        /\ UNCHANGED <<files, batch, loaded, pc>>
    BY DEF ReloadEntry
  <1>2. CASE Unmatched
    BY <1>1, <1>2, StartSettles DEF Unmatched, Loops
  <1>3. ASSUME NEW i \in 1 .. Len(job.pool), NEW m \in Instances, Matched(i, m)
        PROVE  Settling'
    <2>1. job.pool \in Seq(Instances) /\ failures \in Nat
      BY DEF Types, Jobs
    <2>2. Range(RemoveAt(job.pool, i)) \subseteq Range(job.pool)
      BY <2>1, RangeOfRemoveAt
    <2>3. Through(<<m>>)
      BY <1>1, <1>3, <2>2, ReusedIs DEF Matched, Through
    <2>4. /\ <<m>> \in Seq(Instances) /\ Range(<<m>>) = {m}
          /\ Task.name \in NamesOf(<<m>>)
      BY <1>3, RangeOfOne, NamesOfOne DEF Matched
    <2>5. failures' = 0 => failures = 0
      BY <1>3, <2>1 DEF Matched
    <2>6. ASSUME failures' = 0
          PROVE  Serves(m)
      <3> DEFINE old == job.pool[i]
      <3>1. old \in Range(Old) /\ old \in Instances
        BY <1>1, <2>1, InRange DEF Old
      <3>2. old.guest = old.conf /\ old.guest # Dead
        BY <2>5, <2>6, <3>1, RuntimeAssumption DEF Settling, Configured, Instances
      <3>3. old.name = Task.name
        BY <1>3 DEF Matched
      <3>4. Steady(TaskKind) /\ TaskKind \notin job.kinds => Current(old)
        BY <2>5, <2>6, <3>1, <3>3 DEF Settling, AllCurrent, TaskKind
      <3>5. \/ m = old /\ m.conf = Task.conf
            \/ m = Reinited(old, Task.conf)
        BY <1>3, <2>1, <2>6, <3>2 DEF Matched
      <3> HIDE DEF old
      <3>6. /\ m.name = Task.name /\ m.conf = Task.conf /\ m.guest = m.conf
            /\ m.manifest = old.manifest /\ m.wasm = old.wasm
        BY <3>1, <3>2, <3>3, <3>5 DEF Reinited, Instances
      <3>7. Current(old) => Current(m)
        BY <3>3, <3>6 DEF Current
      <3>8. QED
        BY <1>1, <3>4, <3>6, <3>7 DEF Serves
    <2>7. failures' = 0 => \A x \in Range(<<m>>) : Serves(x)
      BY <2>4, <2>6
    <2>8. QED
      BY <1>1, <2>3, <2>4, <2>5, <2>7, ThroughSettles DEF Loops
  <1>4. QED
    BY <1>2, <1>3, ReloadEntryIs

LEMMA ReloadInstanceSettles ==
    ASSUME Types, Settling, ReloadInstance
    PROVE  Settling'
  <1>1. /\ pc = "wasm" /\ job.todo # <<>> /\ job.step = "next"
        /\ UNCHANGED <<files, batch, loaded, pc, failures>>
    BY DEF ReloadInstance
  <1>2. Task \in Instances /\ Task \in Range(job.todo)
    BY <1>1, TaskIs
  <1>3. CASE TaskKind \notin job.kinds
    <2>1. Done(<<Task>>)
      BY <1>3 DEF ReloadInstance
    <2>2. /\ <<Task>> \in Seq(Instances) /\ Range(<<Task>>) = {Task}
          /\ Task.name \in NamesOf(<<Task>>)
      BY <1>2, RangeOfOne, NamesOfOne
    <2>3. Through(<<Task>>)
      BY <1>1, <2>1, <2>2, DoneIsThrough
    <2>4. ASSUME failures' = 0
          PROVE  Serves(Task)
      <3>1. Task \in Range(Old)
        BY <1>1, <1>2 DEF Old
      <3>2. QED
        BY <1>1, <1>3, <2>4, <3>1 DEF Serves, Settling, Configured, AllCurrent, TaskKind
    <2>5. failures' = 0 => \A m \in Range(<<Task>>) : Serves(m)
      BY <2>2, <2>4
    <2>6. QED
      BY <1>1, <2>2, <2>3, <2>5, ThroughSettles DEF Loops
  <1>4. CASE TaskKind \in job.kinds /\ disk[TaskKind].wasm = Missing
    <2>1. job' = [job EXCEPT !.todo = Tail(@), !.gone = @ \cup {Task.name}]
      BY <1>4 DEF ReloadInstance
    <2>2. Through(<<>>)
      BY <1>1, <2>1, SMT DEF Through, Types, Jobs
    <2>3. <<>> \in Seq(Instances) /\ Range(<<>>) = {}
      BY RangeOfNone
    <2>4. Excused
      BY <1>1, <1>4 DEF Excused
    <2>5. QED
      BY <1>1, <2>2, <2>3, <2>4, ThroughSettles DEF Loops
  <1>5. CASE TaskKind \in job.kinds /\ disk[TaskKind].wasm # Missing
    <2>1. job' = [job EXCEPT !.step = "manifest"]
      BY <1>5 DEF ReloadInstance
    <2>2. QED
      BY <1>1, <2>1, StartSettles DEF Loops
  <1>6. QED
    BY <1>3, <1>4, <1>5

LEMMA CreateEntrySettles ==
    ASSUME Types, Settling, CreateEntry
    PROVE  Settling'
  <1>1. /\ pc = "create" /\ job.todo # <<>> /\ job.step = "next"
        /\ UNCHANGED <<files, batch, loaded, pc, failures>>
    BY DEF CreateEntry
  <1>2. CASE ~ToCreate \/ disk[TaskKind].wasm = Missing
    <2>1. Done(<<>>)
      BY <1>2 DEF CreateEntry
    <2>2. <<>> \in Seq(Instances) /\ Range(<<>>) = {}
      BY RangeOfNone
    <2>3. Through(<<>>)
      BY <1>1, <2>1, <2>2, DoneIsThrough
    <2>4. Steady(TaskKind) => Excused
      <3>1. Steady(TaskKind) => disk[TaskKind].wasm # Missing
        BY RuntimeAssumption DEF Steady, Startable, ValidSchema
      <3>2. QED
        BY <1>1, <1>2, <3>1 DEF Excused, ToCreate
    <2>5. QED
      BY <1>1, <2>2, <2>3, <2>4, ThroughSettles DEF Loops
  <1>3. CASE ~(~ToCreate \/ disk[TaskKind].wasm = Missing)
    <2>1. job' = [job EXCEPT !.step = "manifest"]
      BY <1>3 DEF CreateEntry
    <2>2. QED
      BY <1>1, <2>1, StartSettles DEF Loops
  <1>4. QED
    BY <1>2, <1>3

LEMMA ReadManifestSettles ==
    ASSUME Types, Settling, ReadManifest
    PROVE  Settling'
  <1>1. /\ pc \in Loops /\ job.step = "manifest" /\ job.todo # <<>>
        /\ UNCHANGED <<files, batch, loaded, pc, failures>>
    BY DEF ReadManifest, Types, JobFits, Loops
  <1>2. CASE Accepted(disk[TaskKind].manifest)
    <2>1. job' = [job EXCEPT !.step = "wasm", !.manifest = disk[TaskKind].manifest]
      BY <1>2 DEF ReadManifest
    <2>2. disk[TaskKind].manifest \in File
      BY <1>1, TaskIs DEF Types
    <2>3. /\ job'.todo = job.todo /\ job'.kept = job.kept /\ job'.pool = job.pool
          /\ job'.kinds = job.kinds /\ job'.live = job.live /\ job'.leave = job.leave
          /\ job'.manifest = disk[TaskKind].manifest
      BY <2>1, <2>2 DEF Types, Jobs
    <2>4. QED
      BY <1>1, <2>3, GoesOnSettles
  <1>3. CASE ~Accepted(disk[TaskKind].manifest)
    <2>1. Failed
      BY <1>3 DEF ReadManifest
    <2>2. ~Steady(TaskKind)
      BY <1>3 DEF Steady, Startable
    <2>3. QED
      BY <1>1, <2>1, <2>2, FailedSettles
  <1>4. QED
    BY <1>2, <1>3

LEMMA ReadWasmSettles ==
    ASSUME Types, Settling, ReadWasm
    PROVE  Settling'
  <1>1. /\ pc \in Loops /\ job.todo # <<>> /\ job.step = "wasm"
        /\ \/ Failed /\ failures' = failures + 1
           \/ /\ Failed /\ failures' = failures
              /\ \/ disk[TaskKind].wasm \notin Versions
                 \/ ~ValidSchema(disk[TaskKind].wasm)
           \/ /\ Done(<<Started>>) /\ failures' = failures
              /\ Started \in Instances
    BY ReadWasmIs
  <1>2. UNCHANGED <<files, batch, loaded, pc>>
    BY DEF ReadWasm
  <1>3. failures \in Nat
    BY DEF Types
  <1>4. CASE Failed /\ failures' = failures + 1
    BY <1>1, <1>2, <1>3, <1>4, FailedSettles
  <1>5. CASE /\ Failed /\ failures' = failures
             /\ \/ disk[TaskKind].wasm \notin Versions
                \/ ~ValidSchema(disk[TaskKind].wasm)
    <2>1. ~Steady(TaskKind)
      BY <1>5 DEF Steady, Startable, ValidSchema
    <2>2. QED
      BY <1>1, <1>2, <1>5, <2>1, FailedSettles
  <1>6. CASE Done(<<Started>>) /\ failures' = failures /\ Started \in Instances
    <2>1. /\ <<Started>> \in Seq(Instances) /\ Range(<<Started>>) = {Started}
          /\ Task.name \in NamesOf(<<Started>>)
      BY <1>6, RangeOfOne, NamesOfOne DEF Started
    <2>2. Through(<<Started>>)
      BY <1>1, <1>6, <2>1, DoneIsThrough
    <2>3. Serves(Started)
      <3>1. /\ Started.name = Task.name /\ Started.conf = Task.conf
            /\ Started.guest = Task.conf /\ Started.manifest = job.manifest
            /\ Started.wasm = disk[TaskKind].wasm
        BY DEF Started
      <3>2. Quiet(TaskKind) => job.manifest = disk[TaskKind].manifest
        BY <1>1 DEF Settling, ManifestInHand
      <3>3. Steady(TaskKind) => Current(Started)
        BY <3>1, <3>2 DEF Current, Steady, TaskKind
      <3>4. QED
        BY <3>1, <3>3 DEF Serves
    <2>4. failures' = 0 => \A m \in Range(<<Started>>) : Serves(m)
      BY <2>1, <2>3
    <2>5. QED
      BY <1>1, <1>2, <1>6, <2>1, <2>2, <2>4, ThroughSettles
  <1>7. QED
    BY <1>1, <1>4, <1>5, <1>6

LEMMA LoopSettles ==
    ASSUME Types, Settling, LoopSteps
    PROVE  Settling'
  <1>1. CASE ActivateEntry
    BY <1>1, StartSettles DEF ActivateEntry, Loops
  <1>2. QED
    BY <1>1, ReloadEntrySettles, ReloadInstanceSettles, CreateEntrySettles,
       ReadManifestSettles, ReadWasmSettles DEF LoopSteps

\* When a batch is taken the kinds it names are to be reloaded, and what is on
\* disk of the others is what runs.
LEMMA TakeSettles ==
    ASSUME Types, Types', Settling, Takes
    PROVE  Settling'
  <1>1. /\ pc \notin Loops
        /\ UNCHANGED <<disk, arriving, extensions, installs, configured, validated, idle,
                       bound, edits, failures>>
        /\ Dropped \/ BeginsActivate \/ BeginsReload \/ BeginsWasm \/ BeginsLeave
    BY TakeIs, Zenon
  <1>2. disk' = disk /\ arriving' = arriving /\ extensions' = extensions
    BY <1>1
  <1>3. \A k : Startable(k)' <=> Startable(k)
    <2>1. \A r : UnmetExtensions(r)' = UnmetExtensions(r)
      BY <1>2 DEF UnmetExtensions
    <2>2. QED
      BY <1>2, <2>1 DEF Startable, Accepted
  <1>4. ASSUME excused' = excused
        PROVE  \A k : Steady(k)' /\ k \notin batch.kinds => Steady(k)
    BY <1>2, <1>3, <1>4 DEF Steady, Quiet
  <1>5. \A m : Current(m)' <=> Current(m)
    BY <1>2 DEF Current
  <1>6. Range(<<>>) = {} /\ NamesOf(<<>>) = {}
    BY RangeOfNone, NamesOfNone
  <1>7. New = modules
    BY <1>1, NewAndOld
  <1>8. CASE Dropped
    <2>1. pc' \notin Loops /\ idle'
      BY <1>1, <1>8 DEF Dropped, Loops
    <2>2. QED
      BY <2>1, IdleSettlesNext
  <1>9. CASE BeginsActivate
    <2>1. /\ pc' = "activate" /\ loaded' = configured /\ job'.todo = configured
          /\ job'.kept = <<>> /\ job'.step = "next"
      BY <1>9 DEF BeginsActivate, Begins, Begun
    <2>2. New' = <<>> /\ Old' = <<>>
      BY <2>1 DEF New, Old, Loops
    <2>3. Configured' /\ AllCurrent'
      BY <1>6, <2>1, <2>2 DEF Configured, AllCurrent
    <2>4. Covered'
      BY <2>1 DEF Covered, HasInstance
    <2>5. ~job'.leave
      BY <1>9, SMT DEF BeginsActivate, Begins, Begun
    <2>6. QED
      BY <2>1, <2>3, <2>4, <2>5 DEF Settling, ManifestInHand, Listed, LiveAreKept
  <1>10. CASE BeginsReload
    <2>0. excused' = excused
      BY <1>10 DEF BeginsReload
    <2>1. /\ pc' = "reload" /\ loaded' = configured /\ job'.todo = configured
          /\ job'.kept = <<>> /\ job'.step = "next" /\ job'.pool = modules
          /\ job'.kinds = batch.kinds
      BY <1>10 DEF BeginsReload, Begins, Begun
    <2>2. New' = <<>> /\ Old' = modules
      BY <2>1 DEF New, Old, Loops
    <2>3. failures = 0 => Configured'
      BY <1>1, <1>6, <1>7, <2>1, <2>2 DEF Settling, Configured, Loops
    <2>4. failures = 0 => AllCurrent'
      BY <1>1, <1>4, <1>5, <1>6, <1>7, <2>0, <2>1, <2>2 DEF Settling, AllCurrent, Loops
    <2>5. Covered'
      BY <2>1 DEF Covered, HasInstance
    <2>6. ~job'.leave
      BY <1>10, SMT DEF BeginsReload, Begins, Begun
    <2>7. QED
      BY <1>1, <2>1, <2>3, <2>4, <2>5, <2>6
         DEF Settling, ManifestInHand, Listed, LiveAreKept
  <1>11. CASE BeginsWasm
    <2>0. excused' = excused
      BY <1>11 DEF BeginsWasm
    <2>1. /\ pc' = "wasm" /\ loaded' = loaded /\ job'.todo = modules
          /\ job'.kept = <<>> /\ job'.step = "next" /\ job'.kinds = batch.kinds
      BY <1>11 DEF BeginsWasm, Begins, Begun
    <2>2. New' = <<>> /\ Old' = modules
      BY <2>1 DEF New, Old, Loops
    <2>3. ~job.leave
      BY <1>1, SMT DEF Types, JobFits, NoJob
    <2>4. failures = 0 => Configured'
      BY <1>1, <1>6, <1>7, <2>1, <2>2 DEF Settling, Configured, Loops
    <2>5. failures = 0 => AllCurrent'
      BY <1>1, <1>4, <1>5, <1>6, <1>7, <2>0, <2>1, <2>2 DEF Settling, AllCurrent, Loops
    <2>6. ASSUME failures = 0, NEW e \in Range(loaded), Steady(KindOf[e.name])'
          PROVE  HasInstance(e)'
      <3>1. CASE KindOf[e.name] \in batch.kinds
        BY <2>1, <3>1 DEF HasInstance
      <3>2. CASE KindOf[e.name] \notin batch.kinds
        <4>1. Steady(KindOf[e.name])
          BY <1>4, <2>0, <2>6, <3>2
        <4>2. HasInstance(e)
          BY <2>3, <2>6, <4>1 DEF Settling, Covered
        <4>3. e.name \in NamesOf(modules)
          BY <1>1, <1>7, <4>2 DEF HasInstance, Loops
        <4>4. QED
          BY <2>1, <4>3 DEF HasInstance
      <3>3. QED
        BY <3>1, <3>2
    <2>7. failures = 0 => Covered'
      BY <2>1, <2>6 DEF Covered
    <2>8. QED
      BY <1>1, <2>1, <2>4, <2>5, <2>7 DEF Settling, ManifestInHand, Listed, LiveAreKept
  <1>12. CASE BeginsLeave
    <2>1. /\ pc' = "wasm" /\ job'.todo = <<>> /\ job'.kept = <<>> /\ job'.step = "next"
          /\ job'.leave
      BY <1>12, SMT DEF BeginsLeave, Begins, Begun
    <2>2. New' = <<>> /\ Old' = <<>>
      BY <2>1 DEF New, Old, Loops
    <2>3. Configured' /\ AllCurrent'
      BY <1>6, <2>2 DEF Configured, AllCurrent
    <2>4. QED
      BY <2>1, <2>3 DEF Settling, ManifestInHand, Listed, LiveAreKept
  <1>13. QED
    BY <1>1, <1>8, <1>9, <1>10, <1>11, <1>12

LEMMA EndSettles ==
    ASSUME Types, Types', Settling, ReloadEnds \/ WasmEnds \/ CreateEnds \/ ActivateEnds
    PROVE  Settling'
  <1>1. UNCHANGED <<files, configured, validated, batch, failures>>
    BY DEF ReloadEnds, WasmEnds, CreateEnds, ActivateEnds
  <1>2. /\ \A k : Steady(k)' <=> Steady(k)
        /\ \A m : Current(m)' <=> Current(m)
    BY <1>1, SameDisk
  <1>3. Range(<<>>) = {} /\ NamesOf(<<>>) = {}
    BY RangeOfNone, NamesOfNone
  <1>4. CASE ReloadEnds
    <2>1. /\ pc = "reload" /\ pc' = "wasm" /\ job.todo = <<>> /\ loaded' = loaded
          /\ job' = [job EXCEPT !.todo = job.kept, !.pool = <<>>, !.kept = <<>>]
      BY <1>4 DEF ReloadEnds
    <2>2. /\ job'.todo = job.kept /\ job'.kept = <<>> /\ job'.kinds = job.kinds
          /\ job'.leave = job.leave /\ job'.step = "next"
      BY <2>1 DEF Types, Jobs, JobFits
    <2>3. New = job.kept /\ New' = <<>> /\ Old' = job.kept
      BY <2>1, <2>2 DEF New, Old, Loops
    <2>4. Configured => Configured'
      BY <1>3, <2>1, <2>3 DEF Configured
    <2>5. AllCurrent => AllCurrent'
      BY <1>2, <1>3, <2>1, <2>2, <2>3 DEF AllCurrent
    <2>6. \A e : HasInstance(e) => HasInstance(e)'
      BY <1>3, <2>1, <2>2, <2>3 DEF HasInstance
    <2>7. Covered => Covered'
      BY <1>2, <2>1, <2>6 DEF Covered
    <2>8. QED
      BY <1>1, <2>1, <2>2, <2>4, <2>5, <2>7 DEF Settling, ManifestInHand, Listed, LiveAreKept
  <1>5. CASE WasmEnds
    <2>1. /\ pc = "wasm" /\ pc' = "create" /\ job.todo = <<>> /\ loaded' = loaded
          /\ job' = [job EXCEPT !.todo = loaded, !.live = NamesOf(job.kept)]
      BY <1>5 DEF WasmEnds
    <2>2. job.step = "next"
      BY <2>1 DEF Types, JobFits
    <2>3. NamesOf(job.kept) \in SUBSET Names
      <3>1. job.kept \in Seq(Instances)
        BY DEF Types, Jobs
      <3>2. QED
        BY <3>1 DEF NamesOf, Instances
    <2>4. /\ job'.todo = loaded /\ job'.kept = job.kept /\ job'.kinds = job.kinds
          /\ job'.leave = job.leave /\ job'.step = "next" /\ job'.live = NamesOf(job.kept)
      BY <2>1, <2>2 DEF Types, Jobs
    <2>5. New' = New /\ Old' = <<>>
      BY <2>1, <2>4 DEF New, Old, Loops
    <2>6. Configured => Configured'
      BY <1>3, <2>1, <2>5 DEF Configured
    <2>7. AllCurrent => AllCurrent'
      BY <1>2, <1>3, <2>1, <2>5 DEF AllCurrent
    <2>8. \A e \in Range(loaded) : HasInstance(e) => HasInstance(e)'
      BY <1>3, <2>1, <2>4, <2>5 DEF HasInstance
    <2>9. Covered => Covered'
      BY <1>2, <2>1, <2>8 DEF Covered
    <2>10. QED
      BY <1>1, <2>1, <2>4, <2>6, <2>7, <2>9
         DEF Settling, ManifestInHand, Listed, LiveAreKept
  <1>6. CASE CreateEnds \/ ActivateEnds
    <2>1. /\ pc' \in {"bind", "wait"} /\ pc' \notin Loops /\ job' = NoJob
          /\ pc \in {"create", "activate"} /\ job.todo = <<>>
      BY <1>6 DEF CreateEnds, ActivateEnds, Loops
    <2>2. CASE idle'
      BY <2>1, <2>2, IdleSettlesNext
    <2>3. CASE ~idle'
      <3>1. modules' = job.kept /\ loaded' = loaded /\ (pc = "create" => ~job.leave)
        BY <1>6, <2>3 DEF CreateEnds, ActivateEnds
      <3>2. pc = "activate" => ~job.leave
        BY DEF Settling
      <3>3. New = job.kept /\ New' = job.kept /\ Old' = <<>>
        BY <2>1, <3>1 DEF New, Old, Loops
      <3>4. Configured => Configured'
        BY <1>3, <2>1, <3>1, <3>3 DEF Configured
      <3>5. AllCurrent => AllCurrent'
        BY <1>2, <1>3, <2>1, <3>3 DEF AllCurrent
      <3>6. \A e : HasInstance(e) => HasInstance(e)'
        BY <1>3, <2>1, <3>3 DEF HasInstance
      <3>7. Covered => Covered'
        BY <1>2, <3>1, <3>6 DEF Covered
      <3>8. job'.step = "next"
        BY <2>1 DEF NoJob
      <3>9. QED
        BY <1>1, <2>1, <3>1, <3>2, <3>4, <3>5, <3>7, <3>8
           DEF Settling, ManifestInHand, Listed, LiveAreKept
    <2>4. QED
      BY <2>2, <2>3
  <1>7. QED
    BY <1>4, <1>5, <1>6

\* A guest that traps is a failure, or had trapped before.
LEMMA TickSettles ==
    ASSUME Types, Settling, Tick
    PROVE  Settling'
  <1>1. PICK i \in DOMAIN modules, traps \in 1 .. 2 :
          /\ failures' = failures + traps - IF modules[i].guest = Dead THEN 1 ELSE 0
          /\ modules' = [modules EXCEPT ![i].guest = IF traps = 1 THEN modules[i].conf
                                                     ELSE Dead]
    BY DEF Tick
  <1>2. /\ pc = "wait" /\ pc' = "wait"
        /\ UNCHANGED <<files, batch, loaded, pc, job>>
    BY DEF Tick
  <1>3. modules \in Seq(Instances) /\ failures \in Nat /\ job.step = "next"
    BY <1>2, SMT DEF Types, JobFits, NoJob, Loops
  <1>4. ASSUME failures' = 0
        PROVE  FALSE
    <2>1. failures = 0 /\ modules[i].guest = Dead
      BY <1>1, <1>3, <1>4, SMT
    <2>2. modules[i] \in Range(New) /\ modules[i] \in Instances
      BY <1>2, <1>3, NewAndOld, InRange DEF Loops
    <2>3. modules[i].guest = modules[i].conf
      BY <2>1, <2>2 DEF Settling, Configured
    <2>4. QED
      BY <2>1, <2>2, <2>3, RuntimeAssumption DEF Instances
  <1>5. QED
    BY <1>2, <1>3, <1>4 DEF Settling, ManifestInHand, Listed, LiveAreKept

\* A bar that only binds its socket has what it had.
LEMMA StandsStillSettles ==
    ASSUME Types, Settling, StandsStill
    PROVE  Settling'
  <1>1. /\ UNCHANGED <<files, batch, loaded, modules, job, failures>>
        /\ pc' = pc \/ (pc = "bind" /\ pc' = "wait")
    BY StandsStillIs
  <1>2. New' = New /\ Old' = Old /\ Task' = Task /\ TaskKind' = TaskKind
    BY <1>1 DEF New, Old, Task, TaskKind, Loops
  <1>3. Configured => Configured'
    BY <1>1, <1>2 DEF Configured
  <1>4. AllCurrent => AllCurrent'
    BY <1>1, <1>2, SameDisk DEF AllCurrent
  <1>5. Covered => Covered'
    BY <1>1, <1>2, SameDisk DEF Covered, HasInstance
  <1>6. ManifestInHand => ManifestInHand'
    BY <1>1, <1>2 DEF ManifestInHand, Quiet, files
  <1>7. QED
    BY <1>1, <1>3, <1>4, <1>5, <1>6 DEF Settling, Listed, LiveAreKept

LEMMA SettlingNext == Types /\ Types' /\ Noted /\ Settling /\ [Next]_vars => Settling'
  <1> SUFFICES ASSUME Types, Types', Noted, Settling, [Next]_vars PROVE Settling'
    OBVIOUS
  <1>1. CASE Outside /\ pc = "boot"
    <2>1. pc' = pc /\ idle' = idle
      BY <1>1 DEF Outside, daemon, Edit, MoveAside, Place, Notify, ChangeExtensions
    <2>2. pc' \notin Loops /\ idle'
      BY <1>1, <2>1 DEF Types, IdleFits, Loops
    <2>3. QED
      BY <2>2, IdleSettlesNext
  <1>2. QED
    BY <1>1, NextIs, OutsideSettles, TakeSettles, LoopSettles, EndSettles, TickSettles,
       StandsStillSettles

\* Once the installers are done and the daemon has served what they told it,
\* every entry whose package is good runs what is on disk, however the two
\* interleaved; provided that no guest failed, and that the package was not
\* placed between the first start and the bind of the control socket and has
\* not lacked an extension since (module.rs:193, bar.rs:126, 155, 273).
THEOREM Settles == Spec => []SettlesOnDisk
  <1>1. Init => Settling
    <2>1. Init => pc \notin Loops /\ idle
      BY DEF Init, Loops
    <2>2. QED
      BY <2>1, TypesInit, IdleSettles
  <1>2. Types /\ Settling => SettlesOnDisk
    <2> SUFFICES ASSUME Types, Settling, Settled, failures = 0,
                        NEW e \in Range(loaded), Startable(KindOf[e.name]),
                        KindOf[e.name] \notin excused
                 PROVE  \E m \in Range(modules) :
                          /\ m.name = e.name /\ m.conf = e.conf /\ m.guest = e.conf
                          /\ m.wasm = disk[KindOf[e.name]].wasm
                          /\ m.manifest = disk[KindOf[e.name]].manifest
      BY DEF SettlesOnDisk
    <2>1. loaded \in Lists /\ loaded \in Seq(Entries)
      <3>1. loaded \in Lists
        BY DEF Types
      <3>2. QED
        BY <3>1, ListsAssumption, Zenon DEF Entries
    <2>2. e.name \in Names
      <3>1. Range(loaded) \subseteq Entries
        BY <2>1 DEF Range
      <3>2. QED
        BY <3>1 DEF Entries
    <2>3. Steady(KindOf[e.name])
      BY <2>2, RuntimeAssumption, SMT DEF Settled, NoBatch, Steady, Quiet
    <2>4. pc = "wait" /\ New = modules /\ ~job.leave
      BY NewAndOld, SMT DEF Settled, Types, JobFits, NoJob, Loops
    <2>5. e.name \in NamesOf(modules)
      BY <2>3, <2>4 DEF Settling, Covered, HasInstance
    <2>6. PICK m \in Range(modules) : m.name = e.name
      BY <2>5, NamesAre
    <2>7. [name |-> m.name, conf |-> m.conf] \in Range(loaded) /\ m.guest = m.conf
      BY <2>4 DEF Settling, Configured
    <2>8. m.conf = e.conf
      <3>1. PICK i \in DOMAIN loaded : loaded[i] = e
        BY DEF Range
      <3>2. PICK j \in DOMAIN loaded : loaded[j] = [name |-> m.name, conf |-> m.conf]
        BY <2>7 DEF Range
      <3>3. loaded[i].name = loaded[j].name
        BY <2>6, <3>1, <3>2
      <3>4. loaded[i] = loaded[j]
        BY <2>1, <3>3, ListsAssumption
      <3>5. QED
        BY <3>1, <3>2, <3>4
    <2>9. Current(m)
      BY <2>3, <2>4, <2>6 DEF Settling, AllCurrent
    <2>10. QED
      BY <2>6, <2>7, <2>8, <2>9 DEF Current
  <1>3. Types /\ Types' /\ Noted /\ Settling /\ [Next]_vars => Settling'
    BY SettlingNext
  <1>4. QED
    BY <1>1, <1>2, <1>3, TypesHold, NotedHolds, PTL DEF Spec

=============================================================================
