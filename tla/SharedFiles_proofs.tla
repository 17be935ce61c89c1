------------------------- MODULE SharedFiles_proofs -------------------------
(***************************************************************************)
(* Theorems about the files that processes share.                          *)
(*                                                                         *)
(* DaemonLock, for any number of daemons, probes and pids: the lock admits *)
(* one daemon at a time, the pid file is right while it runs, and the      *)
(* whole implements SingleInstance.                                        *)
(*                                                                         *)
(* LogFile and LogView, for any number of processes, lines, days, levels,  *)
(* retentions and panel heights: appends and prunings keep the lines they  *)
(* have to, and the panel draws what is in the file and keeps its          *)
(* selection on the selected line.                                         *)
(*                                                                         *)
(* Tui, for any presets, kinds, texts and schema, and any number of        *)
(* changes by others: the copy of the preset that is shown stays whole,    *)
(* and a key that writes does what was shown.                              *)
(***************************************************************************)
EXTENDS DaemonLock, LogView, Tui, FiniteSetTheorems, NaturalsInduction,
        WellFoundedInduction, TLAPS

Lives == {"unborn", "spawned", "refused", "locked", "emptied", "running", "dead"}

ProbeStates == [pc : {"idle", "lock", "unlock", "read", "kill"},
                cmd : {"status", "stop"}, read : Pids \cup {NoPid},
                answer : {"none", "stopped", "unknown", "running", "signaled"}]

LEMMA InitType == Init => TypeOK
<1> SUFFICES ASSUME Init PROVE TypeOK
  OBVIOUS
<1>1. probe \in [Probes -> ProbeStates]
  BY DEF Init, ProbeStates
<1>2. /\ daemon \in [Daemons -> Lives] /\ pid \in [Daemons -> Pids \cup {NoPid}]
      /\ witness \in [Probes -> Daemons \cup {Nobody}]
  BY DEF Init, Lives
<1> QED BY <1>1, <1>2 DEF Init, TypeOK, ProbeStates, Lives

\* A daemon that goes leaves the three variables it touches well typed.
LEMMA GoneType ==
  ASSUME TypeOK, NEW d \in Daemons, Gone(d)
  PROVE  /\ daemon' \in [Daemons -> Lives]
         /\ holder' \in Daemons \cup Probes \cup {Nobody}
         /\ witness' \in [Probes -> Daemons \cup {Nobody}]
  BY DEF TypeOK, Gone, Lives

LEMMA NextType == TypeOK /\ [Next]_vars => TypeOK'
<1> SUFFICES ASSUME TypeOK, [Next]_vars PROVE TypeOK'
  OBVIOUS
<1>1. ASSUME NEW d \in Daemons, Launch(d) PROVE TypeOK'
  BY <1>1 DEF Launch, TypeOK
<1>2. ASSUME NEW d \in Daemons, TryLock(d) PROVE TypeOK'
  BY <1>2 DEF TryLock, TypeOK
<1>3. ASSUME NEW d \in Daemons, Truncate(d) \/ WritePid(d) PROVE TypeOK'
  BY <1>3 DEF Truncate, WritePid, TypeOK
<1>4. ASSUME NEW d \in Daemons, Exit(d) PROVE TypeOK'
  <2>1. Gone(d)
    BY <1>4 DEF Exit
  <2> QED BY <1>4, <2>1, GoneType DEF Exit, TypeOK, Lives
<1>5. ASSUME NEW d \in Daemons, CheckChild(d) PROVE TypeOK'
  BY <1>5 DEF CheckChild, TypeOK
<1>6. ASSUME NEW d \in Daemons, ReadPidFile(d) \/ StartTimesOut(d) PROVE TypeOK'
  BY <1>6 DEF ReadPidFile, StartTimesOut, TypeOK
<1>7. ASSUME NEW c \in Probes, NEW cmd \in {"status", "stop"}, BeginProbe(c, cmd)
      PROVE  TypeOK'
  <2>1. PICK d \in Daemons \cup {Nobody} : witness' = [witness EXCEPT ![c] = d]
    BY <1>7 DEF BeginProbe
  <2>2. witness' \in [Probes -> Daemons \cup {Nobody}]
    BY <2>1 DEF TypeOK
  <2>3. probe' \in [Probes -> ProbeStates]
    BY <1>7 DEF BeginProbe, TypeOK, ProbeStates
  <2> QED BY <1>7, <2>2, <2>3 DEF BeginProbe, TypeOK, ProbeStates
<1>8. ASSUME NEW c \in Probes, ProbeLock(c) PROVE TypeOK'
  <2>1. probe' \in [Probes -> ProbeStates]
    BY <1>8 DEF ProbeLock, Answer, TypeOK, ProbeStates
  <2>2. holder' \in Daemons \cup Probes \cup {Nobody}
    BY <1>8 DEF ProbeLock, TypeOK
  <2> QED BY <1>8, <2>1, <2>2 DEF ProbeLock, TypeOK, ProbeStates
<1>9. ASSUME NEW c \in Probes, ProbeUnlock(c) PROVE TypeOK'
  BY <1>9, ZenonT(30) DEF ProbeUnlock, Answer, TypeOK
<1>10. ASSUME NEW c \in Probes, ProbeRead(c) PROVE TypeOK'
  <2>0. probe \in [Probes -> ProbeStates] /\ contents \in Pids \cup {NoPid}
    BY DEF TypeOK, ProbeStates
  <2>1. ASSUME contents = NoPid
       PROVE probe' \in [Probes -> ProbeStates]
    <3>1. probe' = [probe EXCEPT ![c].pc = "idle", ![c].answer = "unknown"]
      BY <1>10, <2>1 DEF ProbeRead, Answer
    <3> QED BY <2>0, <3>1 DEF ProbeStates
  <2>2. ASSUME contents # NoPid, probe[c].cmd = "stop"
       PROVE probe' \in [Probes -> ProbeStates]
    <3>1. probe' = [probe EXCEPT ![c].pc = "kill", ![c].read = contents]
      BY <1>10, <2>2 DEF ProbeRead
    <3>2. [probe[c] EXCEPT !.pc = "kill", !.read = contents] \in ProbeStates
      BY <2>0 DEF ProbeStates
    <3>3. probe' = [probe EXCEPT ![c] =
                      [probe[c] EXCEPT !.pc = "kill", !.read = contents]]
      BY <2>0, <3>1 DEF ProbeStates
    <3> QED BY <2>0, <3>2, <3>3
  <2>3. ASSUME contents # NoPid, probe[c].cmd # "stop"
       PROVE probe' \in [Probes -> ProbeStates]
    <3>1. probe' = [probe EXCEPT ![c].pc = "idle", ![c].read = contents,
                                 ![c].answer = "running"]
      BY <1>10, <2>3 DEF ProbeRead
    <3>2. [probe[c] EXCEPT !.pc = "idle", !.read = contents, !.answer = "running"]
            \in ProbeStates
      BY <2>0 DEF ProbeStates
    <3>3. probe' = [probe EXCEPT ![c] = [probe[c] EXCEPT
                      !.pc = "idle", !.read = contents, !.answer = "running"]]
      BY <2>0, <3>1 DEF ProbeStates
    <3> QED BY <2>0, <3>2, <3>3
  <2>4. probe' \in [Probes -> ProbeStates]
    BY <2>1, <2>2, <2>3, Zenon
  <2> QED BY <1>10, <2>4 DEF ProbeRead, TypeOK, ProbeStates
<1>11. ASSUME NEW c \in Probes, Signal(c) PROVE TypeOK'
  <2>0. probe \in [Probes -> ProbeStates]
    BY DEF TypeOK, ProbeStates
  <2>1. probe' \in [Probes -> ProbeStates]
    <3>1. PICK a \in {"stopped", "signaled"} :
            probe' = [probe EXCEPT ![c].pc = "idle", ![c].answer = a]
      BY <1>11 DEF Signal, Answer
    <3> QED BY <2>0, <3>1, ZenonT(30) DEF ProbeStates
  <2>2. (\E d \in Daemons : Gone(d)) \/ UNCHANGED <<daemon, holder, witness>>
    BY <1>11 DEF Signal
  <2>3. /\ daemon' \in [Daemons -> Lives]
        /\ holder' \in Daemons \cup Probes \cup {Nobody}
        /\ witness' \in [Probes -> Daemons \cup {Nobody}]
    BY <2>2, GoneType DEF TypeOK, Lives
  <2> QED BY <1>11, <2>1, <2>3 DEF Signal, TypeOK, ProbeStates, Lives
<1>12. ASSUME NEW n \in Pids, StrangerStarts(n) \/ StrangerExits(n) PROVE TypeOK'
  BY <1>12 DEF StrangerStarts, StrangerExits, TypeOK
<1>13. CASE UNCHANGED vars
  BY <1>13 DEF vars, TypeOK
<1> QED
  BY <1>1, <1>2, <1>3, <1>4, <1>5, <1>6, <1>7, <1>8, <1>9, <1>10, <1>11,
     <1>12, <1>13 DEF Next, DaemonStep, ProbeStep

\* Every reachable state is well typed.
THEOREM TypeCorrect == Spec => []TypeOK
<1>1. Init => TypeOK
  BY InitType
<1>2. TypeOK /\ [Next]_vars => TypeOK'
  BY NextType
<1> QED BY <1>1, <1>2, PTL DEF Spec

-----------------------------------------------------------------------------
(* The inductive invariant. The flock is what serialises the daemons: one   *)
(* is inside exactly when it holds it, and a probe that got the flock holds *)
(* it until it says "stopped". Live daemons have distinct pids, so a signal *)
(* meant for one never hits another.                                        *)

Flocked ==
    /\ \A d \in Daemons : Inside(d) <=> holder = d
    /\ \A d \in Daemons : Inside(d) => exists
    /\ \A c \in Probes : probe[c].pc = "unlock" => holder = c

PidsDiffer ==
    /\ \A d \in Daemons : daemon[d] # "unborn" => pid[d] \in Pids
    /\ \A d, e \in Daemons : Alive(d) /\ Alive(e) /\ pid[d] = pid[e] => d = e

\* A daemon that has been running since the probe began is running now, and
\* what the probe has read and is about to signal is its pid.
WitnessRuns ==
    \A c \in Probes :
      LET w == witness[c] IN
      w # Nobody =>
        /\ daemon[w] = "running"
        /\ probe[c].pc = "kill" => probe[c].read = pid[w]

LockInv == TypeOK /\ Flocked /\ PidsDiffer /\ PidFileNamesRunning
                  /\ WitnessRuns /\ ProbeIsRight

LEMMA InitLock == Init => LockInv
<1> SUFFICES ASSUME Init PROVE LockInv
  OBVIOUS
<1>1. TypeOK
  BY InitType
<1>2. Flocked
  BY LockAssumption DEF Init, Flocked, Inside
<1>3. PidsDiffer /\ PidFileNamesRunning
  BY DEF Init, PidsDiffer, PidFileNamesRunning, Alive, Inside
<1>4. WitnessRuns /\ ProbeIsRight
  BY DEF Init, WitnessRuns, ProbeIsRight
<1> QED BY <1>1, <1>2, <1>3, <1>4 DEF LockInv

\* What each kind of step leaves alone; the steps that matter to LockInv are
\* those outside Quiet.
Quiet ==
    /\ UNCHANGED <<exists, contents, holder, daemon, pid, probe, witness>>

LEMMA QuietSteps ==
  /\ \A d \in Daemons : CheckChild(d) \/ ReadPidFile(d) \/ StartTimesOut(d) => Quiet
  /\ \A n \in Pids : StrangerStarts(n) \/ StrangerExits(n) => Quiet
  /\ UNCHANGED vars => Quiet
  BY DEF CheckChild, ReadPidFile, StartTimesOut, StrangerStarts, StrangerExits,
         vars, Quiet

LEMMA SignalEffect ==
  ASSUME NEW c \in Probes, Signal(c)
  PROVE  \/ /\ UNCHANGED <<daemon, holder, witness>>
            /\ \A d \in Daemons : pid[d] = probe[c].read => ~Alive(d)
         \/ \E d \in Daemons : pid[d] = probe[c].read /\ Alive(d) /\ Gone(d)
  BY DEF Signal

LEMMA FlockedNext == LockInv /\ [Next]_vars => Flocked'
<1> SUFFICES ASSUME LockInv, [Next]_vars PROVE Flocked'
  OBVIOUS
<1> USE DEF LockInv
<1>1. ASSUME NEW d \in Daemons, Launch(d) PROVE Flocked'
  BY <1>1 DEF Launch, Flocked, Inside, TypeOK
<1>2. ASSUME NEW d \in Daemons, TryLock(d) PROVE Flocked'
  BY <1>2, LockAssumption DEF TryLock, Flocked, Inside, TypeOK
<1>3. ASSUME NEW d \in Daemons, Truncate(d) \/ WritePid(d) PROVE Flocked'
  BY <1>3 DEF Truncate, WritePid, Flocked, Inside, TypeOK
<1>4. ASSUME NEW d \in Daemons, Gone(d), exists' = exists,
             \A c \in Probes : probe'[c].pc = "unlock" => probe[c].pc = "unlock"
      PROVE  Flocked'
  BY <1>4, LockAssumption DEF Gone, Flocked, Inside, TypeOK
<1>5. ASSUME NEW d \in Daemons, Exit(d) PROVE Flocked'
  BY <1>4, <1>5 DEF Exit
<1>6. ASSUME NEW c \in Probes, NEW cmd \in {"status", "stop"}, BeginProbe(c, cmd)
      PROVE  Flocked'
  BY <1>6 DEF BeginProbe, Flocked, Inside, TypeOK
<1>7. ASSUME NEW c \in Probes, ProbeLock(c) PROVE Flocked'
  BY <1>7, LockAssumption DEF ProbeLock, Answer, Flocked, Inside, TypeOK
<1>8. ASSUME NEW c \in Probes, ProbeUnlock(c) PROVE Flocked'
  BY <1>8, LockAssumption DEF ProbeUnlock, Answer, Flocked, Inside, TypeOK
<1>9. ASSUME NEW c \in Probes, ProbeRead(c) PROVE Flocked'
  BY <1>9 DEF ProbeRead, Answer, Flocked, Inside, TypeOK
<1>10. ASSUME NEW c \in Probes, Signal(c) PROVE Flocked'
  <2>1. \A b \in Probes : probe'[b].pc = "unlock" => probe[b].pc = "unlock"
    BY <1>10 DEF Signal, Answer, TypeOK
  <2>2. CASE UNCHANGED <<daemon, holder, witness>>
    BY <1>10, <2>1, <2>2 DEF Signal, Flocked, Inside
  <2>3. CASE \E d \in Daemons : Gone(d)
    BY <1>4, <1>10, <2>1, <2>3 DEF Signal
  <2> QED BY <1>10, <2>2, <2>3, SignalEffect
<1>11. CASE Quiet
  BY <1>11 DEF Quiet, Flocked, Inside
<1> QED
  BY <1>1, <1>2, <1>3, <1>5, <1>6, <1>7, <1>8, <1>9, <1>10, <1>11, QuietSteps
  DEF Next, DaemonStep, ProbeStep

LEMMA PidsDifferNext == LockInv /\ [Next]_vars => PidsDiffer'
<1> SUFFICES ASSUME LockInv, [Next]_vars PROVE PidsDiffer'
  OBVIOUS
<1> USE DEF LockInv
<1>1. ASSUME NEW d \in Daemons, Launch(d) PROVE PidsDiffer'
  <2>1. PICK n \in Pids : ~InUse(n) /\ pid' = [pid EXCEPT ![d] = n]
    BY <1>1 DEF Launch
  <2>2. \A e \in Daemons : Alive(e) => pid[e] # n
    BY <2>1 DEF InUse
  <2>3. \A e \in Daemons : e # d => (Alive(e)' <=> Alive(e)) /\ pid'[e] = pid[e]
    BY <1>1, <2>1 DEF Launch, Alive, Inside, TypeOK
  <2>4. pid'[d] = n
    BY <2>1 DEF TypeOK
  <2>5. ASSUME NEW e \in Daemons, NEW f \in Daemons,
               Alive(e)', Alive(f)', pid'[e] = pid'[f]
        PROVE  e = f
    BY <2>2, <2>3, <2>4, <2>5 DEF PidsDiffer
  <2>6. \A e \in Daemons : daemon'[e] # "unborn" => pid'[e] \in Pids
    BY <1>1, <2>1 DEF Launch, PidsDiffer, TypeOK
  <2> QED BY <2>5, <2>6 DEF PidsDiffer
\* Every other step leaves the pids alone and brings no daemon to life.
<1>2. ASSUME pid' = pid,
             \A d \in Daemons : (Alive(d)' => Alive(d))
                               /\ (daemon[d] = "unborn" => daemon'[d] = "unborn")
      PROVE  PidsDiffer'
  BY <1>2 DEF PidsDiffer
<1>3. ASSUME NEW d \in Daemons, TryLock(d) \/ Truncate(d) \/ WritePid(d)
      PROVE  PidsDiffer'
  <2>1. \A e \in Daemons : (Alive(e)' => Alive(e))
                          /\ (daemon[e] = "unborn" => daemon'[e] = "unborn")
    BY <1>3 DEF TryLock, Truncate, WritePid, Alive, Inside, TypeOK
  <2> QED BY <1>2, <1>3, <2>1 DEF TryLock, Truncate, WritePid
<1>4. ASSUME NEW d \in Daemons, Gone(d), Alive(d), pid' = pid PROVE PidsDiffer'
  <2>1. \A e \in Daemons : (Alive(e)' => Alive(e))
                          /\ (daemon[e] = "unborn" => daemon'[e] = "unborn")
    BY <1>4 DEF Gone, Alive, Inside, TypeOK
  <2> QED BY <1>2, <1>4, <2>1
<1>5. ASSUME NEW d \in Daemons, Exit(d) PROVE PidsDiffer'
  BY <1>4, <1>5 DEF Exit
<1>6. ASSUME UNCHANGED <<daemon, pid>> PROVE PidsDiffer'
  BY <1>6 DEF PidsDiffer, Alive, Inside
<1>7. ASSUME NEW c \in Probes, Signal(c) PROVE PidsDiffer'
  BY <1>4, <1>6, <1>7, SignalEffect DEF Signal
<1>8. ASSUME NEW c \in Probes,
             \/ \E cmd \in {"status", "stop"} : BeginProbe(c, cmd)
             \/ ProbeLock(c) \/ ProbeUnlock(c) \/ ProbeRead(c)
      PROVE  UNCHANGED <<daemon, pid>>
  BY <1>8 DEF BeginProbe, ProbeLock, ProbeUnlock, ProbeRead
<1> QED
  BY <1>1, <1>3, <1>5, <1>6, <1>7, <1>8, QuietSteps
  DEF Next, DaemonStep, ProbeStep, Quiet

LEMMA PidFileNext == LockInv /\ [Next]_vars => PidFileNamesRunning'
<1> SUFFICES ASSUME LockInv, [Next]_vars PROVE PidFileNamesRunning'
  OBVIOUS
<1> USE DEF LockInv
<1>1. ASSUME NEW d \in Daemons, Launch(d) PROVE PidFileNamesRunning'
  BY <1>1 DEF Launch, PidFileNamesRunning, TypeOK
<1>2. ASSUME NEW d \in Daemons, TryLock(d) PROVE PidFileNamesRunning'
  BY <1>2 DEF TryLock, PidFileNamesRunning, TypeOK
\* Only the daemon inside the lock writes the file.
<1>3. ASSUME NEW d \in Daemons, Truncate(d) \/ WritePid(d)
      PROVE  PidFileNamesRunning'
  BY <1>3 DEF Truncate, WritePid, PidFileNamesRunning, Flocked, Inside, TypeOK
<1>4. ASSUME NEW d \in Daemons, Gone(d), UNCHANGED <<contents, pid>>
      PROVE  PidFileNamesRunning'
  BY <1>4 DEF Gone, PidFileNamesRunning, TypeOK
<1>5. ASSUME NEW d \in Daemons, Exit(d) PROVE PidFileNamesRunning'
  BY <1>4, <1>5 DEF Exit
<1>6. ASSUME UNCHANGED <<contents, daemon, pid>> PROVE PidFileNamesRunning'
  BY <1>6 DEF PidFileNamesRunning
<1>7. ASSUME NEW c \in Probes, Signal(c) PROVE PidFileNamesRunning'
  BY <1>4, <1>6, <1>7, SignalEffect DEF Signal
<1>8. ASSUME NEW c \in Probes,
             \/ \E cmd \in {"status", "stop"} : BeginProbe(c, cmd)
             \/ ProbeLock(c) \/ ProbeUnlock(c) \/ ProbeRead(c)
      PROVE  UNCHANGED <<contents, daemon, pid>>
  BY <1>8 DEF BeginProbe, ProbeLock, ProbeUnlock, ProbeRead
<1> QED
  BY <1>1, <1>2, <1>3, <1>5, <1>6, <1>7, <1>8, QuietSteps
  DEF Next, DaemonStep, ProbeStep, Quiet

\* WitnessRuns and ProbeIsRight, for one probe.
Watched(c) ==
    LET w == witness[c] IN
    w # Nobody =>
      /\ daemon[w] = "running"
      /\ probe[c].pc = "kill" => probe[c].read = pid[w]
      /\ probe[c].answer \in {"none", "running"}
      /\ probe[c].read \in {NoPid, pid[w]}

\* While a daemon watched by c runs, it holds the flock and its pid is in the
\* file.
LEMMA WatchedHolds ==
  ASSUME LockInv, NEW c \in Probes, witness[c] # Nobody
  PROVE  /\ witness[c] \in Daemons /\ holder = witness[c] /\ exists
         /\ contents = pid[witness[c]] /\ contents # NoPid
         /\ holder # c
  BY LockAssumption DEF LockInv, TypeOK, WitnessRuns, Flocked, Inside,
     PidFileNamesRunning, PidsDiffer

LEMMA WatchedNext == LockInv /\ [Next]_vars => \A c \in Probes : Watched(c)'
<1> SUFFICES ASSUME LockInv, [Next]_vars, NEW c \in Probes PROVE Watched(c)'
  OBVIOUS
<1>0. /\ Watched(c)
      /\ witness[c] \in Daemons \cup {Nobody}
      /\ probe \in [Probes -> ProbeStates]
  BY DEF LockInv, WitnessRuns, ProbeIsRight, Watched, TypeOK, ProbeStates
\* A daemon that is not running yet is nobody's witness.
<1>1. ASSUME NEW d \in Daemons, daemon[d] # "running",
             \A e \in Daemons : e # d => daemon'[e] = daemon[e] /\ pid'[e] = pid[e],
             probe' = probe, witness' = witness
      PROVE  Watched(c)'
  BY <1>0, <1>1 DEF Watched
<1>2. ASSUME NEW d \in Daemons,
             Launch(d) \/ TryLock(d) \/ Truncate(d) \/ WritePid(d)
      PROVE  Watched(c)'
  <2>1. /\ daemon[d] # "running" /\ probe' = probe /\ witness' = witness
        /\ \A e \in Daemons : e # d => daemon'[e] = daemon[e] /\ pid'[e] = pid[e]
    BY <1>2 DEF Launch, TryLock, Truncate, WritePid, LockInv, TypeOK
  <2> QED BY <1>1, <2>1
<1>3. ASSUME NEW d \in Daemons, Gone(d), UNCHANGED pid,
             witness'[c] # Nobody => probe'[c] = probe[c]
      PROVE  Watched(c)'
  <2>1. witness'[c] # Nobody => witness'[c] = witness[c] /\ witness[c] # d
    BY <1>3 DEF Gone
  <2>2. \A e \in Daemons : e # d => daemon'[e] = daemon[e]
    BY <1>3 DEF Gone, LockInv, TypeOK
  <2> QED BY <1>0, <1>3, <2>1, <2>2 DEF Watched
<1>4. ASSUME NEW d \in Daemons, Exit(d) PROVE Watched(c)'
  BY <1>3, <1>4 DEF Exit
\* A step of another probe does not concern c, unless it kills a daemon.
<1>5. ASSUME UNCHANGED <<daemon, pid>>, probe'[c] = probe[c], witness'[c] = witness[c]
      PROVE  Watched(c)'
  BY <1>5, <1>0 DEF Watched
<1>6. ASSUME NEW b \in Probes, NEW cmd \in {"status", "stop"}, BeginProbe(b, cmd)
      PROVE  Watched(c)'
  <2>1. CASE b # c
    <3>1. probe'[c] = probe[c] /\ witness'[c] = witness[c]
      BY <1>0, <1>6, <2>1 DEF BeginProbe, LockInv, TypeOK
    <3> QED BY <1>5, <1>6, <3>1 DEF BeginProbe
  <2>2. CASE b = c
    <3>1. probe'[c] = [pc |-> "lock", cmd |-> cmd, read |-> NoPid, answer |-> "none"]
      BY <1>0, <1>6, <2>2 DEF BeginProbe
    <3>2. witness'[c] # Nobody => daemon[witness'[c]] = "running"
      BY <1>6, <2>2 DEF BeginProbe, LockInv, TypeOK
    <3> QED BY <1>6, <3>1, <3>2 DEF BeginProbe, Watched
  <2> QED BY <2>1, <2>2
<1>7. ASSUME NEW b \in Probes, ProbeLock(b) \/ ProbeUnlock(b) \/ ProbeRead(b)
      PROVE  Watched(c)'
  <2>1. UNCHANGED <<daemon, pid, witness>>
    BY <1>7 DEF ProbeLock, ProbeUnlock, ProbeRead
  <2>2. b # c => probe'[c] = probe[c]
    BY <1>0, <1>7 DEF ProbeLock, ProbeUnlock, ProbeRead, Answer
  <2>3. CASE b # c \/ witness[c] = Nobody
    BY <1>5, <2>1, <2>2, <2>3 DEF Watched
  <2>4. CASE b = c /\ witness[c] # Nobody
    <3>1. ~ProbeUnlock(c)
      BY <2>4, WatchedHolds DEF ProbeUnlock, LockInv, Flocked
    <3>2. ASSUME ProbeLock(c) PROVE Watched(c)'
      <4>1. probe' = [probe EXCEPT ![c].pc = "read"]
        BY <3>2, <2>4, WatchedHolds, LockAssumption DEF ProbeLock, LockInv, TypeOK
      <4>2. probe'[c].pc = "read" /\ probe'[c].read = probe[c].read
            /\ probe'[c].answer = probe[c].answer
        BY <1>0, <4>1 DEF ProbeStates
      <4> QED BY <1>0, <2>1, <4>2 DEF Watched
    <3>3. ASSUME ProbeRead(c) PROVE Watched(c)'
      <4>1. contents # NoPid /\ contents = pid[witness[c]]
        BY <2>4, WatchedHolds
      <4>2. CASE probe[c].cmd = "stop"
        <5>1. probe' = [probe EXCEPT ![c].pc = "kill", ![c].read = contents]
          BY <3>3, <4>1, <4>2 DEF ProbeRead
        <5>2. probe'[c].read = contents /\ probe'[c].answer = probe[c].answer
          BY <1>0, <5>1 DEF ProbeStates
        <5> QED BY <1>0, <2>1, <4>1, <5>2 DEF Watched
      <4>3. CASE probe[c].cmd # "stop"
        <5>1. probe' = [probe EXCEPT ![c].pc = "idle", ![c].read = contents,
                                     ![c].answer = "running"]
          BY <3>3, <4>1, <4>3 DEF ProbeRead
        <5>2. probe'[c].read = contents /\ probe'[c].answer = "running"
              /\ probe'[c].pc = "idle"
          BY <1>0, <5>1 DEF ProbeStates
        <5> QED BY <1>0, <2>1, <4>1, <5>2 DEF Watched
      <4> QED BY <4>2, <4>3
    <3> QED BY <1>7, <2>4, <3>1, <3>2, <3>3
  <2> QED BY <2>3, <2>4
\* The daemon that a stop signals is the one it read about: c's witness dies.
<1>8. ASSUME NEW b \in Probes, Signal(b) PROVE Watched(c)'
  <2>1. b # c => probe'[c] = probe[c]
    BY <1>0, <1>8 DEF Signal, Answer
  <2>2. ASSUME b = c, witness[c] # Nobody
        PROVE  /\ Alive(witness[c]) /\ pid[witness[c]] = probe[c].read
               /\ witness[c] \in Daemons
    BY <1>0, <1>8, <2>2 DEF Signal, Watched, Alive, Inside
  <2>3. CASE UNCHANGED <<daemon, holder, witness>>
                /\ \A d \in Daemons : pid[d] = probe[b].read => ~Alive(d)
    BY <1>5, <1>8, <2>1, <2>2, <2>3 DEF Signal, Watched
  <2>4. ASSUME NEW d \in Daemons, pid[d] = probe[b].read, Alive(d), Gone(d)
        PROVE  Watched(c)'
    <3>1. b = c /\ witness[c] # Nobody => witness[c] = d
      BY <2>2, <2>4 DEF LockInv, PidsDiffer
    <3>2. witness'[c] # Nobody => witness[c] # Nobody /\ witness[c] # d
      BY <2>4 DEF Gone
    <3> QED BY <1>3, <1>8, <2>1, <2>4, <3>1, <3>2 DEF Signal
  <2> QED BY <1>8, <2>3, <2>4, SignalEffect
<1>9. CASE Quiet
  BY <1>5, <1>9 DEF Quiet
<1> QED
  BY <1>2, <1>4, <1>6, <1>7, <1>8, <1>9, QuietSteps DEF Next, DaemonStep, ProbeStep

LEMMA LockNext == LockInv /\ [Next]_vars => LockInv'
<1> SUFFICES ASSUME LockInv, [Next]_vars PROVE LockInv'
  OBVIOUS
<1>1. TypeOK'
  BY NextType DEF LockInv
<1>2. WitnessRuns' /\ ProbeIsRight'
  BY WatchedNext DEF Watched, WitnessRuns, ProbeIsRight
<1> QED
  BY <1>1, <1>2, FlockedNext, PidsDifferNext, PidFileNext DEF LockInv

THEOREM LockInvariant == Spec => []LockInv
<1>1. Init => LockInv
  BY InitLock
<1>2. LockInv /\ [Next]_vars => LockInv'
  BY LockNext
<1> QED BY <1>1, <1>2, PTL DEF Spec

\* At most one daemon is between acquire_lock's flock and its exit.
THEOREM MutualExclusion == Spec => []OneDaemon
<1>1. LockInv => OneDaemon
  BY DEF LockInv, Flocked, OneDaemon
<1> QED BY <1>1, LockInvariant, PTL

\* The pid file is right while a daemon runs, and what a probe says and a
\* stop signals is that daemon.
THEOREM PidFileIsTrusted == Spec => [](PidFileNamesRunning /\ ProbeIsRight)
<1>1. LockInv => PidFileNamesRunning /\ ProbeIsRight
  BY DEF LockInv
<1> QED BY <1>1, LockInvariant, PTL

-----------------------------------------------------------------------------
(* The refinement of SingleInstance.                                        *)

LEMMA OwnerIsInside ==
  ASSUME Flocked
  PROVE  /\ \A d \in Daemons : Inside(d) => Owner = d
         /\ (\A d \in Daemons : ~Inside(d)) => Owner = Nobody
  BY DEF Flocked, Owner

LEMMA OwnerIsInsideNext ==
  ASSUME Flocked'
  PROVE  /\ \A d \in Daemons : Inside(d)' => Owner' = d
         /\ (\A d \in Daemons : ~Inside(d)') => Owner' = Nobody
  BY DEF Flocked, Owner

Finished == {d \in Daemons : daemon[d] \in {"refused", "dead"}}

LEMMA InitRefines == LockInv /\ Init => Bar!Init
<1> SUFFICES ASSUME LockInv, Init PROVE Bar!Init
  OBVIOUS
<1>1. \A d \in Daemons : ~Inside(d) /\ daemon[d] = "unborn"
  BY DEF Init, Inside
<1>2. Owner = Nobody
  BY <1>1, OwnerIsInside DEF LockInv
<1> QED BY <1>1, <1>2 DEF Bar!Init

\* A step after which the same daemons are inside and the same are finished
\* is a stutter of the bar.
LEMMA Stutters ==
  ASSUME LockInv, LockInv',
         \A d \in Daemons : /\ Inside(d)' <=> Inside(d)
                            /\ (daemon'[d] \in {"refused", "dead"})
                                <=> (daemon[d] \in {"refused", "dead"})
  PROVE  UNCHANGED <<Owner, Finished>>
<1>1. UNCHANGED Finished
  BY DEF Finished
<1>2. UNCHANGED Owner
  <2>1. CASE \E d \in Daemons : Inside(d)
    BY <2>1, OwnerIsInside, OwnerIsInsideNext DEF LockInv
  <2>2. CASE \A d \in Daemons : ~Inside(d)
    BY <2>2, OwnerIsInside, OwnerIsInsideNext DEF LockInv
  <2> QED BY <2>1, <2>2
<1> QED BY <1>1, <1>2

\* A daemon that goes releases the bar, or gives up on it.
LEMMA GoneRefines ==
  ASSUME LockInv, LockInv', NEW d \in Daemons, Alive(d), Gone(d)
  PROVE  Bar!Next
<1>1. /\ daemon'[d] = "dead"
      /\ \A e \in Daemons : e # d => daemon'[e] = daemon[e]
  BY DEF Gone, LockInv, TypeOK
<1>2. d \notin Finished /\ Finished' = Finished \cup {d}
  BY <1>1 DEF Finished, Alive, Inside
<1>3. CASE Inside(d)
  <2>1. Owner = d /\ d # Nobody
    BY <1>3, OwnerIsInside, LockAssumption DEF LockInv
  <2>2. \A e \in Daemons : ~Inside(e)'
    BY <1>1, <1>3 DEF LockInv, Flocked, Inside
  <2>3. Owner' = Nobody
    BY <2>2, OwnerIsInsideNext DEF LockInv
  <2> QED BY <1>2, <2>1, <2>3 DEF Bar!Next, Bar!Release, Finished
<1>4. CASE ~Inside(d)
  <2>1. \A e \in Daemons : Inside(e)' <=> Inside(e)
    BY <1>1, <1>4 DEF Inside
  <2>2. UNCHANGED Owner /\ Owner # d
    <3>1. CASE \E e \in Daemons : Inside(e)
      BY <1>4, <2>1, <3>1, OwnerIsInside, OwnerIsInsideNext DEF LockInv
    <3>2. CASE \A e \in Daemons : ~Inside(e)
      BY <2>1, <3>2, OwnerIsInside, OwnerIsInsideNext, LockAssumption DEF LockInv
    <3> QED BY <3>1, <3>2
  <2> QED BY <1>2, <2>2 DEF Bar!Next, Bar!GiveUp, Finished
<1> QED BY <1>3, <1>4

LEMMA NextRefines ==
  LockInv /\ LockInv' /\ [Next]_vars => [Bar!Next]_<<Owner, Finished>>
<1> SUFFICES ASSUME LockInv, LockInv', [Next]_vars
             PROVE  Bar!Next \/ UNCHANGED <<Owner, Finished>>
  OBVIOUS
<1>1. ASSUME NEW d \in Daemons, Launch(d) \/ Truncate(d) \/ WritePid(d)
      PROVE  UNCHANGED <<Owner, Finished>>
  <2>1. \A e \in Daemons : /\ Inside(e)' <=> Inside(e)
                           /\ (daemon'[e] \in {"refused", "dead"})
                                <=> (daemon[e] \in {"refused", "dead"})
    BY <1>1 DEF Launch, Truncate, WritePid, Inside, LockInv, TypeOK
  <2> QED BY <2>1, Stutters
<1>2. ASSUME NEW d \in Daemons, TryLock(d) PROVE Bar!Next
  <2>1. d \notin Finished
    BY <1>2 DEF TryLock, Finished
  <2>2. CASE holder = Nobody
    <3>1. /\ daemon'[d] = "locked"
          /\ \A e \in Daemons : e # d => daemon'[e] = daemon[e]
      BY <1>2, <2>2 DEF TryLock, LockInv, TypeOK
    <3>2. Owner = Nobody
      BY <2>2, OwnerIsInside, LockAssumption DEF LockInv, Flocked
    <3>3. Owner' = d
      BY <3>1, OwnerIsInsideNext DEF LockInv, Inside
    <3>4. UNCHANGED Finished
      BY <2>1, <3>1 DEF Finished
    <3> QED BY <2>1, <3>2, <3>3, <3>4 DEF Bar!Next, Bar!Acquire, Finished
  <2>3. CASE holder # Nobody
    <3>1. /\ daemon[d] = "spawned" /\ daemon'[d] = "refused"
          /\ \A e \in Daemons : e # d => daemon'[e] = daemon[e]
      BY <1>2, <2>3 DEF TryLock, LockInv, TypeOK
    <3>2. Finished' = Finished \cup {d}
      BY <3>1 DEF Finished
    <3>3. UNCHANGED Owner /\ Owner # d
      <4>1. \A e \in Daemons : Inside(e)' <=> Inside(e)
        BY <3>1 DEF Inside
      <4>2. ~Inside(d)
        BY <3>1 DEF Inside
      <4>3. CASE \E e \in Daemons : Inside(e)
        BY <4>1, <4>2, <4>3, OwnerIsInside, OwnerIsInsideNext DEF LockInv
      <4>4. CASE \A e \in Daemons : ~Inside(e)
        BY <4>1, <4>4, OwnerIsInside, OwnerIsInsideNext, LockAssumption DEF LockInv
      <4> QED BY <4>3, <4>4
    <3> QED BY <2>1, <3>2, <3>3 DEF Bar!Next, Bar!GiveUp, Finished
  <2> QED BY <2>2, <2>3
<1>3. ASSUME NEW d \in Daemons, Exit(d) PROVE Bar!Next
  BY <1>3, GoneRefines DEF Exit
<1>4. ASSUME UNCHANGED daemon PROVE UNCHANGED <<Owner, Finished>>
  BY <1>4, Stutters DEF Inside
<1>5. ASSUME NEW c \in Probes, Signal(c)
      PROVE  Bar!Next \/ UNCHANGED <<Owner, Finished>>
  BY <1>4, <1>5, SignalEffect, GoneRefines
<1>6. ASSUME NEW c \in Probes,
             \/ \E cmd \in {"status", "stop"} : BeginProbe(c, cmd)
             \/ ProbeLock(c) \/ ProbeUnlock(c) \/ ProbeRead(c)
      PROVE  UNCHANGED daemon
  BY <1>6 DEF BeginProbe, ProbeLock, ProbeUnlock, ProbeRead
<1> QED
  BY <1>1, <1>2, <1>3, <1>4, <1>5, <1>6, QuietSteps
  DEF Next, DaemonStep, ProbeStep, Quiet

\* The lock file protocol implements SingleInstance: the daemon inside the
\* lock owns the bar.
THEOREM Refinement == Spec => ImplementsSingleInstance
<1>1. LockInv /\ Init => Bar!Init
  BY InitRefines
<1>2. LockInv /\ LockInv' /\ [Next]_vars => [Bar!Next]_<<Owner, Finished>>
  BY NextRefines
<1> QED BY <1>1, <1>2, LockInvariant, PTL DEF Spec, ImplementsSingleInstance, Bar!Spec, Finished

-----------------------------------------------------------------------------
(* The lines that are kept of a file, or shown of it. *)

\* A set of naturals has a least element.
LEMMA Least ==
  ASSUME NEW S \in SUBSET Nat, S # {}
  PROVE  \E m \in S : \A k \in S : m <= k
<1> DEFINE less == OpToRel(<, Nat)
<1>1. \A i, j \in Nat : i < j => <<i, j>> \in less
  BY DEF OpToRel
<1>2. IsWellFoundedOn(less, Nat)
  BY NatLessThanWellFounded
<1> HIDE DEF less
<1>3. PICK m \in S : \A k \in S : ~(<<k, m>> \in less)
  BY <1>2, WFMin
<1>4. ASSUME NEW k \in S PROVE m <= k
  <2>1. ~(k < m)
    BY <1>1, <1>3
  <2> QED BY <2>1
<1> QED BY <1>4

\* One step of the filter.
Step(q, x, S) == IF x \in S THEN Append(q, x) ELSE q

\* f maps each n up to k to what is kept of the first n elements of s.
Filtering(f, s, S, k) ==
  f = [n \in 0 .. k |-> IF n = 0 THEN <<>> ELSE Step(f[n - 1], s[n], S)]

\* There is such a function, by well-founded induction on k: TLAPS needs that to
\* use the recursive function of Only.
LEMMA FilteringExists ==
  ASSUME NEW s, NEW S, NEW k \in Nat
  PROVE  \E f : Filtering(f, s, S, k)
<1> DEFINE none == {n \in Nat : ~\E f : Filtering(f, s, S, n)}
<1> SUFFICES none = {}
  OBVIOUS
<1> SUFFICES ASSUME none # {} PROVE FALSE
  OBVIOUS
<1>1. PICK m \in none : \A n \in none : m <= n
  BY Least
<1>2. CASE m = 0
  <2>1. Filtering([n \in 0 .. 0 |-> <<>>], s, S, 0)
    BY DEF Filtering
  <2> QED BY <1>2, <2>1
<1>3. CASE m # 0
  <2>1. m \in Nat /\ m - 1 \in Nat /\ m - 1 \notin none
    BY <1>1, <1>3
  <2>2. PICK g : Filtering(g, s, S, m - 1)
    BY <2>1
  <2> DEFINE f == [n \in 0 .. m |-> IF n = m THEN Step(g[m - 1], s[m], S) ELSE g[n]]
  <2>3. ASSUME NEW n \in 0 .. m
        PROVE  f[n] = IF n = 0 THEN <<>> ELSE Step(f[n - 1], s[n], S)
    <3>1. CASE n = m
      BY <1>3, <2>1, <3>1
    <3>2. CASE n # m
      <4>1. n \in 0 .. m - 1
        BY <2>1, <3>2
      <4>2. g[n] = IF n = 0 THEN <<>> ELSE Step(g[n - 1], s[n], S)
        BY <2>2, <4>1 DEF Filtering
      <4>3. n # 0 => n - 1 \in 0 .. m /\ n - 1 # m
        BY <2>1
      <4> QED BY <3>2, <4>2, <4>3
    <3> QED BY <3>1, <3>2
  <2> HIDE DEF f
  <2>4. f = [n \in 0 .. m |-> f[n]]
    BY DEF f
  <2>5. Filtering(f, s, S, m)
    BY <2>3, <2>4 DEF Filtering
  <2> QED BY <2>5
<1> QED BY <1>2, <1>3

\* q keeps the elements of the first n of s that are in S, in their order: h says
\* where each of them is in s.
KeptOf(q, s, S, n) ==
  /\ \A i \in 1 .. n : s[i] \in S => \E j \in 1 .. Len(q) : q[j] = s[i]
  /\ \E h \in [1 .. Len(q) -> 1 .. n] :
       /\ \A j \in 1 .. Len(q) : q[j] = s[h[j]] /\ q[j] \in S
       /\ \A i, j \in 1 .. Len(q) : i < j => h[i] < h[j]

\* A step of the filter keeps what it has to.
LEMMA StepKeeps ==
  ASSUME NEW T, NEW s \in Seq(T), NEW S, NEW n \in 1 .. Len(s),
         NEW q \in Seq(T), KeptOf(q, s, S, n - 1)
  PROVE  Step(q, s[n], S) \in Seq(T) /\ KeptOf(Step(q, s[n], S), s, S, n)
<1> DEFINE x == s[n]
           m == Len(q)
<1>1. x \in T /\ m \in Nat /\ n \in Nat /\ n >= 1
  OBVIOUS
<1>2. PICK h \in [1 .. m -> 1 .. n - 1] :
        /\ \A j \in 1 .. m : q[j] = s[h[j]] /\ q[j] \in S
        /\ \A i, j \in 1 .. m : i < j => h[i] < h[j]
  BY DEF KeptOf
<1>3. \A i \in 1 .. n - 1 : s[i] \in S => \E j \in 1 .. m : q[j] = s[i]
  BY DEF KeptOf
<1>4. CASE x \notin S
  <2>1. h \in [1 .. m -> 1 .. n]
    BY <1>1, <1>2
  <2>2. \A i \in 1 .. n : s[i] \in S => \E j \in 1 .. m : q[j] = s[i]
    <3>1. \A i \in 1 .. n : i = n \/ i \in 1 .. n - 1
      BY <1>1
    <3> QED BY <1>3, <1>4, <3>1
  <2> QED BY <1>2, <1>4, <2>1, <2>2 DEF Step, KeptOf
<1>5. CASE x \in S
  <2> DEFINE r == Append(q, x)
             g == [j \in 1 .. m + 1 |-> IF j = m + 1 THEN n ELSE h[j]]
  <2>1. /\ r \in Seq(T) /\ Len(r) = m + 1 /\ r[m + 1] = x
        /\ \A j \in 1 .. m : r[j] = q[j]
    BY <1>1
  <2>2. \A j \in 1 .. m + 1 : j = m + 1 \/ j \in 1 .. m
    BY <1>1
  <2>3. \A j \in 1 .. m : j # m + 1 /\ j \in 1 .. m + 1
    BY <1>1
  <2>4. g[m + 1] = n /\ \A j \in 1 .. m : g[j] = h[j]
    BY <1>1, <2>3
  <2>5. \A j \in 1 .. m : h[j] \in 1 .. n - 1
    BY <1>2
  <2> HIDE DEF m
  <2>6. g \in [1 .. m + 1 -> 1 .. n]
    BY <1>1, <2>2, <2>5
  <2>8. \A j \in 1 .. m + 1 : r[j] = s[g[j]] /\ r[j] \in S
    BY <1>2, <1>5, <2>1, <2>2, <2>4
  <2> HIDE DEF g, r
  <2>9. \A i, j \in 1 .. m + 1 : i < j => g[i] < g[j]
    <3> SUFFICES ASSUME NEW i \in 1 .. m + 1, NEW j \in 1 .. m + 1, i < j
                 PROVE  g[i] < g[j]
      OBVIOUS
    <3>1. i \in 1 .. m
      BY <1>1
    <3>2. CASE j = m + 1
      BY <1>1, <2>4, <2>5, <3>1, <3>2
    <3>3. CASE j \in 1 .. m
      BY <1>2, <2>4, <3>1, <3>3
    <3> QED BY <2>2, <3>2, <3>3
  <2>10. \A i \in 1 .. n : s[i] \in S => \E j \in 1 .. m + 1 : r[j] = s[i]
    <3>1. \A i \in 1 .. n : i = n \/ i \in 1 .. n - 1
      BY <1>1
    <3>2. m + 1 \in 1 .. m + 1
      BY <1>1
    <3> QED BY <1>3, <2>1, <2>3, <3>1, <3>2
  <2>11. KeptOf(r, s, S, n)
    BY <2>1, <2>6, <2>8, <2>9, <2>10 DEF KeptOf
  <2> QED BY <1>5, <2>1, <2>11 DEF Step, r
<1> QED BY <1>4, <1>5

\* What Only returns: the elements in S, all of them, in their order.
LEMMA OnlyKeeps ==
  ASSUME NEW T, NEW s \in Seq(T), NEW S
  PROVE  Only(s, S) \in Seq(T) /\ KeptOf(Only(s, S), s, S, Len(s))
<1>1. Len(s) \in Nat
  OBVIOUS
<1> DEFINE f == CHOOSE f : Filtering(f, s, S, Len(s))
<1>2. Filtering(f, s, S, Len(s))
  BY <1>1, FilteringExists
<1>3. Only(s, S) = f[Len(s)]
  BY DEF Only, Filtering, Step
<1> HIDE DEF f
<1> DEFINE wrong == {n \in 0 .. Len(s) : ~(f[n] \in Seq(T) /\ KeptOf(f[n], s, S, n))}
<1>4. wrong = {}
  <2> SUFFICES ASSUME wrong # {} PROVE FALSE
    OBVIOUS
  <2>1. wrong \subseteq Nat
    BY <1>1
  <2>2. PICK m \in wrong : \A n \in wrong : m <= n
    BY <2>1, Least
  <2>3. m \in 0 .. Len(s)
    OBVIOUS
  <2>4. CASE m = 0
    <3>1. f[0] = <<>>
      BY <1>1, <1>2 DEF Filtering
    <3>2. KeptOf(<<>>, s, S, 0)
      <4>1. Len(<<>>) = 0 /\ 1 .. 0 = {}
        OBVIOUS
      <4>2. [j \in {} |-> j] \in [{} -> {}]
        OBVIOUS
      <4> QED BY <4>1, <4>2 DEF KeptOf
    <3>3. <<>> \in Seq(T)
      OBVIOUS
    <3> QED BY <2>4, <3>1, <3>2, <3>3
  <2>5. CASE m # 0
    <3>1. m \in 1 .. Len(s) /\ m - 1 \in 0 .. Len(s) /\ ~(m <= m - 1)
      BY <1>1, <2>3, <2>5
    <3>2. f[m - 1] \in Seq(T) /\ KeptOf(f[m - 1], s, S, m - 1)
      BY <2>2, <3>1
    <3>3. f[m] = Step(f[m - 1], s[m], S)
      BY <1>2, <2>3, <2>5 DEF Filtering
    <3> QED BY <3>1, <3>2, <3>3, StepKeeps
  <2> QED BY <2>4, <2>5
<1>5. Len(s) \in 0 .. Len(s)
  BY <1>1
<1> QED BY <1>3, <1>4, <1>5

\* As a set: what of a sequence is in S.
LEMMA OnlyRange ==
  ASSUME NEW T, NEW s \in Seq(T), NEW S
  PROVE  /\ Only(s, S) \in Seq(T)
         /\ Range(Only(s, S)) = Range(s) \cap S
<1> DEFINE q == Only(s, S)
<1>1. q \in Seq(T) /\ KeptOf(q, s, S, Len(s))
  BY OnlyKeeps
<1> HIDE DEF q
<1>2. /\ Range(s) = {s[i] : i \in 1 .. Len(s)}
      /\ Range(q) = {q[i] : i \in 1 .. Len(q)}
  BY <1>1 DEF Range
<1>3. Range(q) \subseteq Range(s) \cap S
  BY <1>1, <1>2 DEF KeptOf
<1>4. Range(s) \cap S \subseteq Range(q)
  BY <1>1, <1>2 DEF KeptOf
<1> QED BY <1>1, <1>3, <1>4 DEF q

-----------------------------------------------------------------------------
(* Greatest and least of a few numbers. *)

LEMMA Max2 ==
  ASSUME NEW a \in Int, NEW b \in Int
  PROVE  Max({a, b}) = IF a >= b THEN a ELSE b
<1> DEFINE m == IF a >= b THEN a ELSE b
<1>1. m \in {a, b} /\ \A y \in {a, b} : m >= y
  OBVIOUS
<1>2. \A x \in {a, b} : (\A y \in {a, b} : x >= y) => x = m
  OBVIOUS
<1> HIDE DEF m
<1>3. Max({a, b}) = m
  BY <1>1, <1>2 DEF Max
<1> QED BY <1>3 DEF m

LEMMA Min2 ==
  ASSUME NEW a \in Int, NEW b \in Int
  PROVE  Min({a, b}) = IF a <= b THEN a ELSE b
<1> DEFINE m == IF a <= b THEN a ELSE b
<1>1. m \in {a, b} /\ \A y \in {a, b} : m <= y
  OBVIOUS
<1>2. \A x \in {a, b} : (\A y \in {a, b} : x <= y) => x = m
  OBVIOUS
<1> HIDE DEF m
<1>3. Min({a, b}) = m
  BY <1>1, <1>2 DEF Min
<1> QED BY <1>3 DEF m

LEMMA LeastOf ==
  ASSUME NEW S \in SUBSET Nat, S # {}
  PROVE  Min(S) \in S
<1>1. \E m \in S : \A k \in S : m <= k
  BY Least
<1> QED BY <1>1 DEF Min

-----------------------------------------------------------------------------
(* The log file. *)

\* s holds lines that were logged, in the order of their ids, and all that no
\* pruning so far may drop.
Whole(s) ==
  /\ Range(s) \subseteq logged
  /\ \A l \in logged : l \in Range(s) \/ l.day < cutoff
  /\ \A j, k \in DOMAIN s : j < k => s[j].id < s[k].id

\* Ids are given in order. Unless a write was cut off, the last line lacks its
\* newline only while a process writes it, and what no pruning may drop is in
\* the file or, once a process has read the file to prune it, in what that
\* process writes back.
LogInv ==
  /\ FileTypeOK
  /\ IsFiniteSet(logged) /\ \A l \in logged : l.id <= Cardinality(logged)
  /\ ~hurt => /\ ended \/ \E p \in Loggers : pc[p] = "newline"
              /\ ~Rewriting => Whole(file)
              /\ \A p \in Loggers : pc[p] \in {"truncate", "rewrite"} => Whole(kept[p])

\* An empty file is whole.
LEMMA LogInitInv ==
  ASSUME FileInit
  PROVE  LogInv
<1>1. FileTypeOK
  <2>1. /\ today \in 0 .. MaxDay /\ cutoff \in Int
        /\ retain \in [Loggers -> Retentions]
    BY LogAssumption DEF FileInit
  <2>2. kept \in [Loggers -> Seq(Line)] /\ file \in Seq(Line)
    BY DEF FileInit
  <2>3. /\ pc \in [Loggers -> {"off", "ready", "newline", "prune", "truncate", "rewrite"}]
        /\ \A p \in Loggers : lock = p <=> pc[p] \in {"newline", "truncate", "rewrite"}
        /\ lock \in Loggers \cup {NoLogger}
    BY LogAssumption DEF FileInit
  <2>4. logged \subseteq Line /\ ended \in BOOLEAN /\ hurt \in BOOLEAN
    BY DEF FileInit
  <2> QED BY <2>1, <2>2, <2>3, <2>4 DEF FileTypeOK
<1>2. IsFiniteSet({})
  BY FS_EmptySet
<1>3. Whole(<<>>)
  BY DEF FileInit, Whole, Range
<1>4. \A p \in Loggers : pc[p] = "off"
  BY DEF FileInit
<1> QED BY <1>1, <1>2, <1>3, <1>4 DEF FileInit, LogInv

\* There is room for one more line: it has a type of its own.
LEMMA NewLineType ==
  ASSUME LogInv, Cardinality(logged) < MaxLines, NEW level \in Levels
  PROVE  /\ Cardinality(logged) \in Nat
         /\ [id |-> Cardinality(logged) + 1, day |-> today, level |-> level] \in Line
<1>1. Cardinality(logged) \in Nat
  BY FS_CardinalityType DEF LogInv
<1>2. Cardinality(logged) + 1 \in 1 .. MaxLines
  BY <1>1, LogAssumption
<1> QED BY <1>1, <1>2 DEF LogInv, FileTypeOK, Line

\* Every step of a process keeps the types, and the flock with who writes.
LEMMA LogNextType ==
  ASSUME LogInv, FileNext
  PROVE  FileTypeOK'
<1>1. ASSUME NEW p \in Loggers, Start(p) PROVE FileTypeOK'
  BY <1>1 DEF Start, Goto, FileTypeOK, LogInv
<1>2. ASSUME NEW p \in Loggers, SetRetention(p) PROVE FileTypeOK'
  BY <1>2 DEF SetRetention, Goto, FileTypeOK, LogInv
<1>3. ASSUME NEW p \in Loggers, AppendText(p) PROVE FileTypeOK'
  <2>1. PICK level \in Levels :
          LET line == [id |-> Cardinality(logged) + 1, day |-> today, level |-> level]
          IN  /\ logged' = logged \cup {line}
              /\ file' = IF ended THEN Append(file, line) ELSE file
    BY <1>3, Zenon DEF AppendText
  <2>2. [id |-> Cardinality(logged) + 1, day |-> today, level |-> level] \in Line
    BY <1>3, NewLineType, Zenon DEF AppendText
  <2>3. file' \in Seq(Line) /\ logged' \subseteq Line
    BY <2>1, <2>2 DEF LogInv, FileTypeOK
  <2>4. /\ pc' \in [Loggers -> {"off", "ready", "newline", "prune", "truncate", "rewrite"}]
        /\ \A q \in Loggers : lock' = q <=> pc'[q] \in {"newline", "truncate", "rewrite"}
        /\ lock' \in Loggers \cup {NoLogger}
    BY <1>3, LogAssumption DEF AppendText, Goto, LogInv, FileTypeOK
  <2> QED BY <1>3, <2>3, <2>4 DEF AppendText, LogInv, FileTypeOK
<1>4. ASSUME NEW p \in Loggers, AppendNewline(p) PROVE FileTypeOK'
  BY <1>4, LogAssumption DEF AppendNewline, Goto, FileTypeOK, LogInv
<1>5. ASSUME NEW p \in Loggers, ReadAll(p) PROVE FileTypeOK'
  <2> DEFINE oldest == today - retain[p]
  <2>1. oldest \in Int /\ cutoff \in Int
    BY LogAssumption DEF LogInv, FileTypeOK
  <2> HIDE DEF oldest
  <2>2. /\ kept' = [kept EXCEPT ![p] = Only(file, Since(oldest))]
        /\ cutoff' = Max({cutoff, oldest})
    BY <1>5 DEF ReadAll, oldest
  <2>3. cutoff' \in Int
    BY <2>1, <2>2, Max2
  <2>4. kept' \in [Loggers -> Seq(Line)]
    BY <2>2, OnlyRange DEF LogInv, FileTypeOK
  <2>5. /\ pc' \in [Loggers -> {"off", "ready", "newline", "prune", "truncate", "rewrite"}]
        /\ \A q \in Loggers : lock' = q <=> pc'[q] \in {"newline", "truncate", "rewrite"}
        /\ lock' \in Loggers \cup {NoLogger}
    BY <1>5, LogAssumption DEF ReadAll, Goto, LogInv, FileTypeOK
  <2> QED BY <1>5, <2>3, <2>4, <2>5 DEF ReadAll, LogInv, FileTypeOK
<1>6. ASSUME NEW p \in Loggers, TruncateLog(p) PROVE FileTypeOK'
  BY <1>6 DEF TruncateLog, Goto, FileTypeOK, LogInv
<1>7. ASSUME NEW p \in Loggers, Rewrite(p) PROVE FileTypeOK'
  BY <1>7, LogAssumption DEF Rewrite, Goto, FileTypeOK, LogInv
<1>8. ASSUME NEW p \in Loggers, Crash(p) PROVE FileTypeOK'
  BY <1>8, LogAssumption DEF Crash, Goto, FileTypeOK, LogInv
<1>9. CASE Midnight
  <2>1. today \in 0 .. MaxDay /\ MaxDay \in Nat
    BY LogAssumption DEF FileTypeOK, LogInv
  <2>2. today' \in 0 .. MaxDay
    BY <1>9, <2>1 DEF Midnight
  <2> QED BY <1>9, <2>2 DEF Midnight, FileTypeOK, LogInv
<1> QED BY <1>1, <1>2, <1>3, <1>4, <1>5, <1>6, <1>7, <1>8, <1>9 DEF FileNext

\* A pruning keeps what it may not drop, with its own cutoff too.
LEMMA PruningKeeps ==
  ASSUME FileTypeOK, Whole(file), NEW oldest \in Int, NEW p \in Loggers,
         UNCHANGED <<file, logged>>, cutoff' = Max({cutoff, oldest}),
         kept' = [kept EXCEPT ![p] = Only(file, Since(oldest))]
  PROVE  Whole(file)' /\ Whole(kept[p])'
<1> DEFINE keep == Only(file, Since(oldest))
<1>1. kept'[p] = keep
  BY DEF FileTypeOK
<1>2. cutoff \in Int /\ cutoff' \in Int /\ cutoff <= cutoff' /\ oldest <= cutoff'
  <2>1. cutoff \in Int
    BY DEF FileTypeOK
  <2>2. cutoff' = IF cutoff >= oldest THEN cutoff ELSE oldest
    BY <2>1, Max2
  <2> QED BY <2>1, <2>2
<1>3. \A l \in logged : l \in Line /\ l.day \in Int
  BY DEF FileTypeOK, Line
<1>4. \A l \in logged : l.day < cutoff => l.day < cutoff'
  BY <1>2, <1>3
<1>5. Whole(file)'
  BY <1>4 DEF Whole
<1>6. file \in Seq(Line)
  BY DEF FileTypeOK
<1>7. /\ keep \in Seq(Line)
      /\ Range(keep) = Range(file) \cap Since(oldest)
  BY <1>6, OnlyRange
<1>8. KeptOf(keep, file, Since(oldest), Len(file))
  BY <1>6, OnlyKeeps
<1> HIDE DEF keep
<1>9. Range(keep) \subseteq logged
  BY <1>7 DEF Whole
<1>10. ASSUME NEW l \in logged, l \notin Range(keep) PROVE l.day < cutoff'
  <2>1. CASE l \in Range(file)
    <3>1. ~(l.day >= oldest)
      BY <1>3, <1>7, <1>10, <2>1 DEF Since
    <3> QED BY <1>2, <1>3, <3>1
  <2>2. CASE l \notin Range(file)
    BY <1>4, <2>2 DEF Whole
  <2> QED BY <2>1, <2>2
<1>11. ASSUME NEW j \in DOMAIN keep, NEW k \in DOMAIN keep, j < k
       PROVE  keep[j].id < keep[k].id
  <2>1. PICK h \in [1 .. Len(keep) -> 1 .. Len(file)] :
          /\ \A i \in 1 .. Len(keep) : keep[i] = file[h[i]]
          /\ \A i, m \in 1 .. Len(keep) : i < m => h[i] < h[m]
    BY <1>8 DEF KeptOf
  <2>2. j \in 1 .. Len(keep) /\ k \in 1 .. Len(keep)
    BY <1>7
  <2>3. h[j] \in DOMAIN file /\ h[k] \in DOMAIN file /\ h[j] < h[k]
    BY <1>6, <1>11, <2>1, <2>2
  <2> QED BY <2>1, <2>2, <2>3 DEF Whole
<1>12. Whole(kept[p])'
  BY <1>1, <1>9, <1>10, <1>11 DEF Whole
<1> QED BY <1>5, <1>12

\* A line that is appended is the last one and has the greatest id.
LEMMA AppendKeeps ==
  ASSUME LogInv, Whole(file), NEW line,
         line.id = Cardinality(logged) + 1, line \in Line,
         file' = Append(file, line), logged' = logged \cup {line}, UNCHANGED cutoff
  PROVE  Whole(file)'
<1>1. file \in Seq(Line) /\ logged \subseteq Line
  BY DEF LogInv, FileTypeOK
<1>2. Cardinality(logged) \in Nat
  BY FS_CardinalityType DEF LogInv
<1>3. \A l \in logged : l.id < line.id
  <2>1. \A l \in logged : l.id \in Int /\ l.id <= Cardinality(logged)
    BY <1>1 DEF Line, LogInv
  <2> QED BY <1>2, <2>1
<1> DEFINE n == Len(file)
<1>4. /\ n \in Nat /\ DOMAIN file = 1 .. n /\ DOMAIN file' = 1 .. n + 1
      /\ file'[n + 1] = line /\ \A j \in 1 .. n : file'[j] = file[j]
  BY <1>1
<1>5. \A j \in 1 .. n : file[j] \in logged
  BY <1>4 DEF Whole, Range
<1> HIDE DEF n
<1>6. \A j \in 1 .. n + 1 : j = n + 1 \/ j \in 1 .. n
  BY <1>4
<1>7. \A j \in 1 .. n : j \in 1 .. n + 1
  BY <1>4
<1>8. n + 1 \in 1 .. n + 1
  BY <1>4
<1>9. Range(file') = Range(file) \cup {line}
  BY <1>4, <1>6, <1>7, <1>8 DEF Range
<1>10. ASSUME NEW j \in 1 .. n + 1, NEW k \in 1 .. n + 1, j < k
       PROVE  file'[j].id < file'[k].id
  <2>1. j \in 1 .. n
    BY <1>4, <1>10
  <2>2. CASE k = n + 1
    BY <1>3, <1>4, <1>5, <2>1, <2>2
  <2>3. CASE k \in 1 .. n
    BY <1>4, <1>10, <2>1, <2>3 DEF Whole
  <2> QED BY <1>6, <2>2, <2>3
<1> QED BY <1>4, <1>9, <1>10 DEF Whole

\* Every step of a process keeps the invariant: an append by AppendKeeps, a pruning
\* by PruningKeeps, and between the two the flock keeps all others out.
LEMMA LogNextInv ==
  ASSUME LogInv, FileNext
  PROVE  LogInv'
<1>1. FileTypeOK'
  BY LogNextType
<1>2. FileTypeOK
  BY DEF LogInv
<1>3. ASSUME UNCHANGED logged
      PROVE  IsFiniteSet(logged') /\ \A l \in logged' : l.id <= Cardinality(logged')
  BY <1>3 DEF LogInv
\* Steps that leave the file and what is kept of it alone.
<1>4. ASSUME NEW p \in Loggers, Start(p) \/ SetRetention(p)
      PROVE  LogInv'
  <2>1. /\ UNCHANGED <<file, ended, lock, kept, logged, cutoff, hurt>>
        /\ pc' = [pc EXCEPT ![p] = "prune"] /\ pc[p] \in {"off", "ready"}
    BY <1>4 DEF Start, SetRetention, Goto
  <2>2. \A q \in Loggers : \A s \in {"newline", "truncate", "rewrite"} :
            pc'[q] = s <=> pc[q] = s
    BY <1>2, <2>1 DEF FileTypeOK
  <2> QED BY <1>1, <1>3, <2>1, <2>2 DEF LogInv, Whole, Rewriting
<1>5. CASE Midnight
  <2>1. UNCHANGED <<file, ended, lock, pc, kept, logged, cutoff, hurt>>
    BY <1>5 DEF Midnight
  <2> QED BY <1>1, <1>3, <2>1 DEF LogInv, Whole, Rewriting
<1>6. ASSUME NEW p \in Loggers, AppendText(p)
      PROVE  LogInv'
  <2>1. PICK level \in Levels :
          LET line == [id |-> Cardinality(logged) + 1, day |-> today, level |-> level]
          IN  /\ logged' = logged \cup {line}
              /\ file' = IF ended THEN Append(file, line) ELSE file
    BY <1>6, Zenon DEF AppendText
  <2> DEFINE line == [id |-> Cardinality(logged) + 1, day |-> today, level |-> level]
  <2>2. line \in Line /\ line.id = Cardinality(logged) + 1
        /\ Cardinality(logged) \in Nat
    BY <1>6, NewLineType, Zenon DEF AppendText
  <2>3. logged' = logged \cup {line} /\ file' = IF ended THEN Append(file, line) ELSE file
    BY <2>1
  <2> HIDE DEF line
  <2>4. \A q \in Loggers : pc[q] \notin {"newline", "truncate", "rewrite"}
    BY <1>2, <1>6, LogAssumption DEF AppendText, FileTypeOK
  <2>5. /\ pc'[p] = "newline" /\ UNCHANGED <<cutoff, hurt>>
        /\ \A q \in Loggers : pc'[q] \notin {"truncate", "rewrite"}
    BY <1>2, <1>6, <2>4 DEF AppendText, Goto, FileTypeOK
  <2>6. line \notin logged
    BY <1>2, <2>2 DEF LogInv
  <2>7. IsFiniteSet(logged') /\ Cardinality(logged') = Cardinality(logged) + 1
    BY <2>3, <2>6, FS_AddElement DEF LogInv
  <2>8. \A l \in logged' : l.id <= Cardinality(logged')
    <3>1. \A l \in logged : l.id \in Int /\ l.id <= Cardinality(logged)
      BY <1>2 DEF LogInv, FileTypeOK, Line
    <3> QED BY <2>2, <2>3, <2>7, <3>1
  <2>9. ASSUME ~hurt PROVE Whole(file)'
    <3>1. ended /\ Whole(file)
      BY <2>4, <2>9 DEF LogInv, Rewriting
    <3> QED BY <2>2, <2>3, <2>5, <3>1, AppendKeeps
  <2> QED BY <1>1, <2>5, <2>7, <2>8, <2>9 DEF LogInv
<1>7. ASSUME NEW p \in Loggers, AppendNewline(p)
      PROVE  LogInv'
  <2>1. /\ UNCHANGED <<file, kept, logged, cutoff, hurt>> /\ ended' = TRUE
        /\ pc' = [pc EXCEPT ![p] = "ready"] /\ pc[p] = "newline"
    BY <1>7 DEF AppendNewline, Goto
  <2>2. \A q \in Loggers : \A s \in {"truncate", "rewrite"} : pc'[q] = s <=> pc[q] = s
    BY <1>2, <2>1 DEF FileTypeOK
  <2> QED BY <1>1, <1>3, <2>1, <2>2 DEF LogInv, Whole, Rewriting
<1>8. ASSUME NEW p \in Loggers, ReadAll(p)
      PROVE  LogInv'
  <2> DEFINE oldest == today - retain[p]
  <2>1. oldest \in Int
    BY <1>2, LogAssumption DEF FileTypeOK
  <2> HIDE DEF oldest
  <2>2. /\ kept' = [kept EXCEPT ![p] = Only(file, Since(oldest))]
        /\ cutoff' = Max({cutoff, oldest})
        /\ UNCHANGED <<file, ended, logged, hurt>>
        /\ pc' = [pc EXCEPT ![p] = "truncate"] /\ pc[p] = "prune"
    BY <1>8 DEF ReadAll, Goto, oldest
  <2>3. \A q \in Loggers : pc[q] \notin {"newline", "truncate", "rewrite"}
    BY <1>2, <1>8, LogAssumption DEF ReadAll, FileTypeOK
  <2>4. /\ \A q \in Loggers : pc'[q] \notin {"newline", "rewrite"}
        /\ \A q \in Loggers : pc'[q] = "truncate" => q = p
    BY <1>2, <2>2, <2>3 DEF FileTypeOK
  <2>5. ASSUME ~hurt PROVE Whole(file)' /\ Whole(kept[p])' /\ ended
    <3>1. ended /\ Whole(file)
      BY <2>3, <2>5 DEF LogInv, Rewriting
    <3> QED BY <1>2, <2>1, <2>2, <3>1, PruningKeeps
  <2> QED BY <1>1, <1>3, <2>2, <2>4, <2>5 DEF LogInv, Whole
<1>9. ASSUME NEW p \in Loggers, TruncateLog(p)
      PROVE  LogInv'
  <2>1. /\ UNCHANGED <<kept, logged, cutoff, hurt>> /\ ended' = TRUE
        /\ pc' = [pc EXCEPT ![p] = "rewrite"] /\ pc[p] = "truncate"
    BY <1>9 DEF TruncateLog, Goto
  <2>2. /\ pc'[p] = "rewrite"
        /\ \A q \in Loggers : pc'[q] \in {"truncate", "rewrite"}
                                <=> pc[q] \in {"truncate", "rewrite"}
    BY <1>2, <2>1 DEF FileTypeOK
  <2> QED BY <1>1, <1>3, <2>1, <2>2 DEF LogInv, Whole, Rewriting
<1>10. ASSUME NEW p \in Loggers, Rewrite(p)
       PROVE  LogInv'
  <2>1. /\ UNCHANGED <<logged, cutoff, hurt>> /\ ended' = TRUE /\ file' = kept[p]
        /\ pc' = [pc EXCEPT ![p] = "ready"] /\ pc[p] = "rewrite"
    BY <1>10 DEF Rewrite, Goto
  <2>2. \A q \in Loggers : pc'[q] \notin {"newline", "truncate", "rewrite"}
    BY <1>2, <2>1 DEF FileTypeOK
  <2>3. ~hurt => Whole(file)'
    BY <2>1 DEF LogInv, Whole
  <2> QED BY <1>1, <1>3, <2>1, <2>2, <2>3 DEF LogInv
<1>11. ASSUME NEW p \in Loggers, Crash(p)
       PROVE  LogInv'
  <2>1. /\ UNCHANGED <<file, ended, logged, cutoff>>
        /\ hurt' = (hurt \/ pc[p] \in {"newline", "rewrite"})
        /\ kept' = [kept EXCEPT ![p] = <<>>]
        /\ pc' = [pc EXCEPT ![p] = "off"]
    BY <1>11 DEF Crash, Goto
  <2>2. \A q \in Loggers : pc'[q] \in {"truncate", "rewrite"} =>
          q # p /\ pc'[q] = pc[q] /\ kept'[q] = kept[q]
    BY <1>2, <2>1 DEF FileTypeOK
  <2>3. ASSUME ~hurt' PROVE ~hurt /\ pc[p] \notin {"newline", "rewrite"}
    BY <2>1, <2>3
  <2>4. ASSUME ~hurt'
        PROVE  /\ Rewriting' <=> Rewriting
               /\ \A q \in Loggers : pc[q] = "newline" => pc'[q] = "newline"
    BY <1>2, <2>1, <2>3, <2>4 DEF FileTypeOK, Rewriting
  <2>5. ASSUME ~hurt', ~Rewriting' PROVE Whole(file)'
    BY <2>1, <2>3, <2>4, <2>5 DEF LogInv, Whole
  <2>6. ASSUME ~hurt', NEW q \in Loggers, pc'[q] \in {"truncate", "rewrite"}
        PROVE  Whole(kept[q])'
    BY <2>1, <2>2, <2>3, <2>6 DEF LogInv, Whole
  <2>7. ASSUME ~hurt' PROVE ended' \/ \E q \in Loggers : pc'[q] = "newline"
    BY <2>1, <2>3, <2>4, <2>7 DEF LogInv
  <2> QED BY <1>1, <1>3, <2>1, <2>5, <2>6, <2>7 DEF LogInv
<1> QED BY <1>4, <1>5, <1>6, <1>7, <1>8, <1>9, <1>10, <1>11 DEF FileNext
-----------------------------------------------------------------------------
(* The log panel. *)

\* The panels of any shape.
Views ==
  [show : SUBSET Levels, follow : BOOLEAN, selected : Int, scroll : Nat, from : Nat,
   window : Seq(Line), total : Nat, height : Nat]

\* What only the window, its place and the scroll offset may differ in.
SameBut(v, w) ==
  /\ w.show = v.show /\ w.follow = v.follow /\ w.selected = v.selected
  /\ w.total = v.total /\ w.height = v.height

\* The window is the part of the visible lines it claims to be.
Exact(v) ==
  LET all == VisibleTo(v)
  IN  /\ v.total = Len(all)
      /\ v.from + Len(v.window) <= v.total
      /\ \A k \in 1 .. Len(v.window) : v.window[k] = all[v.from + k]

LEMMA LessIs ==
  ASSUME NEW a \in Int, NEW b \in Int
  PROVE  Less(a, b) = IF a >= b THEN a - b ELSE 0
<1>1. a - b \in Int /\ 0 \in Int
  OBVIOUS
<1>2. Less(a, b) = IF a - b >= 0 THEN a - b ELSE 0
  BY <1>1, Max2 DEF Less
<1> QED BY <1>2

LEMMA LessNat ==
  ASSUME NEW a \in Int, NEW b \in Int
  PROVE  Less(a, b) \in Nat /\ (a >= 0 /\ b >= 0 => Less(a, b) <= a)
<1>1. Less(a, b) = IF a >= b THEN a - b ELSE 0
  BY LessIs
<1> DEFINE n == Less(a, b)
<1> HIDE DEF n
<1>2. n = IF a >= b THEN a - b ELSE 0
  BY <1>1 DEF n
<1>3. n \in Nat /\ (a >= 0 /\ b >= 0 => n <= a)
  BY <1>2
<1> QED BY <1>3 DEF n

LEMMA RowsAre ==
  ASSUME NEW v \in Views
  PROVE  Rows(v) \in Nat /\ Rows(v) >= 1
<1>1. v.height \in Int /\ v.height >= 0
  BY DEF Views
<1>2. Rows(v) = IF v.height >= 1 THEN v.height ELSE 1
  BY <1>1, Max2 DEF Rows
<1> QED BY <1>1, <1>2

LEMMA ChunkIs ==
  ASSUME Chunk \in Nat, NEW v \in Views
  PROVE  ChunkOf(v) \in Nat /\ ChunkOf(v) \div 2 \in Nat
<1>1. 2 * Rows(v) \in Nat
  BY RowsAre
<1>2. ChunkOf(v) = IF Chunk >= 2 * Rows(v) THEN Chunk ELSE 2 * Rows(v)
  BY <1>1, Max2 DEF ChunkOf
<1>3. ChunkOf(v) \in Nat
  BY <1>1, <1>2
<1> QED BY <1>3

LEMMA VisibleLines ==
  ASSUME file \in Seq(Line), NEW v
  PROVE  VisibleTo(v) \in Seq(Line) /\ Len(VisibleTo(v)) \in Nat
BY OnlyRange DEF VisibleTo

\* A part of a sequence.
LEMMA PartOf ==
  ASSUME NEW T, NEW s \in Seq(T), NEW a \in Nat, NEW b \in Int, b <= Len(s)
  PROVE  /\ SubSeq(s, a + 1, b) \in Seq(T)
         /\ Len(SubSeq(s, a + 1, b)) = IF b >= a THEN b - a ELSE 0
         /\ \A k \in 1 .. Len(SubSeq(s, a + 1, b)) : SubSeq(s, a + 1, b)[k] = s[a + k]
OBVIOUS

\* What Lines returns: the lines of a range, as far as there are any.
LEMMA LinesAre ==
  ASSUME file \in Seq(Line), NEW v, NEW from \in Nat, NEW count \in Int
  PROVE  LET all == VisibleTo(v)
             part == Lines(v, from, count)
             end == Min({from + count, Len(all)})
         IN  /\ part \in Seq(Line)
             /\ Len(part) = IF end >= from THEN end - from ELSE 0
             /\ end = IF from + count <= Len(all) THEN from + count ELSE Len(all)
             /\ \A k \in 1 .. Len(part) : part[k] = all[from + k]
<1> DEFINE all == VisibleTo(v)
           end == Min({from + count, Len(all)})
<1>1. all \in Seq(Line) /\ Len(all) \in Nat /\ from + count \in Int
  BY VisibleLines
<1>2. Lines(v, from, count) = SubSeq(all, from + 1, end)
  BY DEF Lines
<1>3. end = IF from + count <= Len(all) THEN from + count ELSE Len(all)
  BY <1>1, Min2
<1> HIDE DEF all, end
<1>4. end \in Int /\ end <= Len(all)
  BY <1>1, <1>3
<1>5. /\ SubSeq(all, from + 1, end) \in Seq(Line)
      /\ Len(SubSeq(all, from + 1, end)) = IF end >= from THEN end - from ELSE 0
      /\ \A k \in 1 .. Len(SubSeq(all, from + 1, end)) :
            SubSeq(all, from + 1, end)[k] = all[from + k]
  BY <1>1, <1>4, PartOf
<1> QED BY <1>2, <1>3, <1>5 DEF all, end

\* What is shown depends on the levels only.
LEMMA SameVisible ==
  ASSUME NEW v, NEW w, w.show = v.show
  PROVE  /\ VisibleTo(w) = VisibleTo(v)
         /\ \A from, count : Lines(w, from, count) = Lines(v, from, count)
<1>1. VisibleTo(w) = VisibleTo(v)
  BY DEF VisibleTo
<1> QED BY <1>1 DEF Lines

\* Loading a window leaves it right, and with as many lines as there are.
LEMMA LoadIsFresh ==
  ASSUME file \in Seq(Line), NEW v \in Views, NEW from \in Nat, NEW count \in Nat
  PROVE  LET w == Load(v, from, count)
         IN  /\ w \in Views /\ Exact(w)
             /\ w.total = Len(VisibleTo(v)) /\ w.from <= w.total
             /\ w.show = v.show /\ w.follow = v.follow /\ w.selected = v.selected
             /\ w.scroll = v.scroll /\ w.height = v.height
<1> DEFINE all == VisibleTo(v)
           total == Len(all)
           start == Min({from, total})
           part == Lines(v, start, count)
           w == [v EXCEPT !.total = total, !.from = start, !.window = part]
<1>1. Load(v, from, count) = w
  BY DEF Load
<1>2. all \in Seq(Line) /\ total \in Nat
  BY VisibleLines
<1>3. start \in Nat /\ start <= total
  BY <1>2, Min2
<1>4. /\ part \in Seq(Line) /\ Len(part) \in Nat
      /\ start + Len(part) <= total
      /\ \A k \in 1 .. Len(part) : part[k] = all[start + k]
  <2> DEFINE end == Min({start + count, Len(all)})
  <2> HIDE DEF start
  <2>1. /\ part \in Seq(Line)
        /\ Len(part) = IF end >= start THEN end - start ELSE 0
        /\ end = IF start + count <= Len(all) THEN start + count ELSE Len(all)
        /\ \A k \in 1 .. Len(part) : part[k] = all[start + k]
    <3>1. start \in Nat /\ count \in Int
      BY <1>3
    <3> QED BY <3>1, LinesAre, Zenon
  <2> HIDE DEF part, end, all
  <2>2. end \in Int /\ end <= total
    BY <1>2, <1>3, <2>1
  <2> QED BY <1>2, <1>3, <2>1, <2>2
<1> HIDE DEF start, part, total, all
<1>5. /\ w \in Views /\ w.show = v.show /\ w.follow = v.follow /\ w.selected = v.selected
      /\ w.scroll = v.scroll /\ w.height = v.height
      /\ w.total = total /\ w.from = start /\ w.window = part
  BY <1>2, <1>3, <1>4 DEF Views
<1> HIDE DEF w
<1>6. VisibleTo(w) = all
  BY <1>5, SameVisible DEF all
<1>7. Exact(w)
  BY <1>4, <1>5, <1>6 DEF Exact, total
<1> QED BY <1>1, <1>3, <1>5, <1>7 DEF total, all

\* The lines from one place up to another.
LEMMA LinesBetween ==
  ASSUME file \in Seq(Line), NEW v, NEW from \in Nat, NEW to \in Nat, from <= to
  PROVE  LET all == VisibleTo(v)
             part == Lines(v, from, to - from)
         IN  /\ part \in Seq(Line)
             /\ to <= Len(all) => Len(part) = to - from
             /\ \A k \in 1 .. Len(part) : part[k] = all[from + k]
<1> DEFINE all == VisibleTo(v)
           part == Lines(v, from, to - from)
           end == Min({from + (to - from), Len(all)})
<1>1. to - from \in Int /\ from + (to - from) = to
  OBVIOUS
<1>2. /\ part \in Seq(Line)
      /\ Len(part) = IF end >= from THEN end - from ELSE 0
      /\ end = IF from + (to - from) <= Len(all) THEN from + (to - from) ELSE Len(all)
      /\ \A k \in 1 .. Len(part) : part[k] = all[from + k]
  BY <1>1, LinesAre, Zenon
<1> HIDE DEF all, part, end
<1>3. to <= Len(all) => end = to
  BY <1>1, <1>2
<1>4. to <= Len(all) => Len(part) = to - from
  BY <1>2, <1>3
<1> QED BY <1>2, <1>4 DEF all, part

\* Two parts of a sequence, one behind the other, are a part of it.
LEMMA Adjacent ==
  ASSUME NEW T, NEW s \in Seq(T), NEW t \in Seq(T), NEW all, NEW from \in Nat,
         \A k \in 1 .. Len(s) : s[k] = all[from + k],
         \A k \in 1 .. Len(t) : t[k] = all[from + Len(s) + k]
  PROVE  /\ s \o t \in Seq(T)
         /\ Len(s \o t) = Len(s) + Len(t)
         /\ \A k \in 1 .. Len(s \o t) : (s \o t)[k] = all[from + k]
<1> DEFINE m == Len(s)
           n == Len(t)
           r == s \o t
<1>1. /\ r \in Seq(T) /\ m \in Nat /\ n \in Nat /\ Len(r) = m + n
      /\ \A k \in 1 .. m + n : r[k] = IF k <= m THEN s[k] ELSE t[k - m]
  OBVIOUS
<1> HIDE DEF r
<1>2. ASSUME NEW k \in 1 .. m + n PROVE r[k] = all[from + k]
  <2>1. CASE k <= m
    <3>1. k \in 1 .. m
      BY <1>1, <2>1
    <3> QED BY <1>1, <2>1, <3>1
  <2>2. CASE ~(k <= m)
    <3> DEFINE j == k - m
    <3>1. j \in 1 .. n /\ from + m + j = from + k
      BY <1>1, <2>2
    <3>2. r[k] = t[j]
      BY <1>1, <2>2
    <3> HIDE DEF j
    <3>3. t[j] = all[from + m + j]
      BY <3>1
    <3> QED BY <3>1, <3>2, <3>3
  <2> QED BY <2>1, <2>2
<1> QED BY <1>1, <1>2 DEF r

\* Lines are read before the window ...
Older(v, nf) ==
  [v EXCEPT !.window = Lines(v, nf, v.from - nf) \o @, !.from = nf]

\* ... and after it.
Newer(v, stop, end) ==
  [v EXCEPT !.window = @ \o Lines(v, stop, end - stop)]

LEMMA OlderLines ==
  ASSUME file \in Seq(Line), NEW v \in Views, NEW nf \in Nat, nf <= v.from
  PROVE  LET w == Older(v, nf)
         IN  /\ w \in Views /\ SameBut(v, w) /\ w.scroll = v.scroll /\ w.from = nf
             /\ Exact(v) => Exact(w) /\ Len(w.window) = v.from - nf + Len(v.window)
<1> DEFINE all == VisibleTo(v)
           part == Lines(v, nf, v.from - nf)
           w == Older(v, nf)
<1>1. v.from \in Nat /\ v.window \in Seq(Line) /\ Len(v.window) \in Nat
  BY DEF Views
<1>2. all \in Seq(Line) /\ Len(all) \in Nat
  BY VisibleLines
<1>3. /\ part \in Seq(Line)
      /\ v.from <= Len(all) => Len(part) = v.from - nf
      /\ \A k \in 1 .. Len(part) : part[k] = all[nf + k]
  BY <1>1, LinesBetween, Zenon
<1>4. w = [v EXCEPT !.window = part \o @, !.from = nf]
  BY DEF Older
<1>5. part \o v.window \in Seq(Line)
  BY <1>1, <1>3
<1> HIDE DEF part, w
<1>6. /\ w \in Views /\ SameBut(v, w) /\ w.scroll = v.scroll /\ w.from = nf
      /\ w.window = part \o v.window /\ w.show = v.show
  BY <1>4, <1>5 DEF Views, SameBut
<1>7. ASSUME Exact(v)
      PROVE  Exact(w) /\ Len(w.window) = v.from - nf + Len(v.window)
  <2>1. /\ v.total = Len(all) /\ v.from + Len(v.window) <= v.total
        /\ \A k \in 1 .. Len(v.window) : v.window[k] = all[v.from + k]
    BY <1>7 DEF Exact
  <2>2. Len(part) = v.from - nf /\ nf + Len(part) = v.from
    <3>1. v.from <= Len(all)
      <4> HIDE DEF all
      <4> QED BY <1>1, <1>2, <2>1
    <3>2. Len(part) = v.from - nf
      BY <1>3, <3>1
    <3> QED BY <1>1, <3>2
  <2>3. \A k \in 1 .. Len(v.window) : v.window[k] = all[nf + Len(part) + k]
    BY <2>1, <2>2
  <2>4. /\ Len(w.window) = Len(part) + Len(v.window)
        /\ \A k \in 1 .. Len(w.window) : w.window[k] = all[nf + k]
    <3>1. /\ Len(part \o v.window) = Len(part) + Len(v.window)
          /\ \A k \in 1 .. Len(part \o v.window) : (part \o v.window)[k] = all[nf + k]
      <4> DEFINE old == v.window
      <4>1. /\ part \in Seq(Line) /\ old \in Seq(Line) /\ nf \in Nat
            /\ \A k \in 1 .. Len(part) : part[k] = all[nf + k]
            /\ \A k \in 1 .. Len(old) : old[k] = all[nf + Len(part) + k]
        BY <1>1, <1>3, <2>3
      <4> HIDE DEF all, old
      <4>2. /\ Len(part \o old) = Len(part) + Len(old)
            /\ \A k \in 1 .. Len(part \o old) : (part \o old)[k] = all[nf + k]
        BY ONLY <4>1, Adjacent
      <4> QED BY <4>2 DEF old
    <3> QED BY <1>6, <3>1
  <2>5. w.total = v.total /\ nf + (Len(part) + Len(v.window)) = v.from + Len(v.window)
    BY <1>1, <1>6, <2>2 DEF SameBut
  <2>6. VisibleTo(w) = all
    BY <1>6, SameVisible
  <2> HIDE DEF all
  <2>7. Exact(w)
    BY <1>6, <2>1, <2>4, <2>5, <2>6 DEF Exact
  <2> QED BY <2>2, <2>4, <2>7
<1> QED BY <1>6, <1>7 DEF w

LEMMA NewerLines ==
  ASSUME file \in Seq(Line), NEW v \in Views, NEW end \in Nat,
         end > v.from + Len(v.window)
  PROVE  LET w == Newer(v, v.from + Len(v.window), end)
         IN  /\ w \in Views /\ SameBut(v, w) /\ w.scroll = v.scroll /\ w.from = v.from
             /\ Exact(v) /\ end <= v.total => Exact(w) /\ Len(w.window) = end - v.from
<1> DEFINE all == VisibleTo(v)
           stop == v.from + Len(v.window)
           part == Lines(v, stop, end - stop)
           w == Newer(v, stop, end)
<1>1. /\ v.from \in Nat /\ v.window \in Seq(Line) /\ Len(v.window) \in Nat
      /\ stop \in Nat /\ stop <= end
  BY DEF Views
<1> HIDE DEF stop
<1>2. all \in Seq(Line) /\ Len(all) \in Nat
  BY VisibleLines
<1>3. /\ part \in Seq(Line)
      /\ end <= Len(all) => Len(part) = end - stop
      /\ \A k \in 1 .. Len(part) : part[k] = all[stop + k]
  BY <1>1, LinesBetween, Zenon
<1>4. w = [v EXCEPT !.window = @ \o part]
  BY DEF Newer
<1>5. v.window \o part \in Seq(Line)
  BY <1>1, <1>3
<1> HIDE DEF part, w
<1>6. /\ w \in Views /\ SameBut(v, w) /\ w.scroll = v.scroll /\ w.from = v.from
      /\ w.window = v.window \o part /\ w.show = v.show
  BY <1>4, <1>5 DEF Views, SameBut
<1>7. ASSUME Exact(v), end <= v.total
      PROVE  Exact(w) /\ Len(w.window) = end - v.from
  <2>1. /\ v.total = Len(all)
        /\ \A k \in 1 .. Len(v.window) : v.window[k] = all[v.from + k]
    BY <1>7 DEF Exact
  <2>2. Len(part) = end - stop
    BY <1>3, <1>7, <2>1
  <2>3. \A k \in 1 .. Len(part) : part[k] = all[v.from + Len(v.window) + k]
    BY <1>3 DEF stop
  <2>4. /\ Len(w.window) = Len(v.window) + Len(part)
        /\ \A k \in 1 .. Len(w.window) : w.window[k] = all[v.from + k]
    <3> DEFINE old == v.window
               from == v.from
    <3>1. /\ old \in Seq(Line) /\ part \in Seq(Line) /\ from \in Nat
          /\ \A k \in 1 .. Len(old) : old[k] = all[from + k]
          /\ \A k \in 1 .. Len(part) : part[k] = all[from + Len(old) + k]
          /\ w.window = old \o part
      BY <1>1, <1>3, <1>6, <2>1, <2>3
    <3> HIDE DEF all, old, from
    <3>2. /\ Len(old \o part) = Len(old) + Len(part)
          /\ \A k \in 1 .. Len(old \o part) : (old \o part)[k] = all[from + k]
      BY <3>1, Adjacent
    <3> QED BY <3>1, <3>2 DEF old, from
  <2>5. Len(w.window) = end - v.from /\ v.from + (end - v.from) = end
    <3>1. Len(w.window) = Len(v.window) + (end - stop)
      BY <2>2, <2>4
    <3>2. /\ Len(v.window) \in Nat /\ v.from \in Nat /\ stop = v.from + Len(v.window)
      BY <1>1 DEF stop
    <3> QED BY <3>1, <3>2
  <2>6. VisibleTo(w) = all /\ w.total = v.total
    BY <1>6, SameVisible DEF SameBut
  <2> HIDE DEF all
  <2>7. Exact(w)
    BY <1>6, <1>7, <2>1, <2>4, <2>5, <2>6 DEF Exact
  <2> QED BY <2>5, <2>7
<1> QED BY <1>6, <1>7 DEF w, stop

\* Where reading older lines begins.
LEMMA OlderFrom ==
  ASSUME Chunk \in Nat, NEW from \in Nat, NEW s \in Nat, s < from
  PROVE  LET nf == Less(from, Max({from - s, Chunk}))
         IN  nf \in Nat /\ nf <= s
<1>1. from - s \in Int /\ Chunk \in Int
  OBVIOUS
<1>2. Max({from - s, Chunk}) = IF from - s >= Chunk THEN from - s ELSE Chunk
  BY <1>1, Max2
<1> DEFINE need == Max({from - s, Chunk})
<1>3. need \in Int /\ need >= from - s
  BY <1>1, <1>2
<1> HIDE DEF need
<1>4. Less(from, need) = IF from >= need THEN from - need ELSE 0
  BY <1>3, LessIs
<1>5. Less(from, need) \in Nat /\ Less(from, need) <= s
  BY <1>3, <1>4
<1> QED BY <1>5 DEF need

\* ensure_logs_cover adds lines at one or both ends: a window that was right
\* stays right, and holds the lines that were asked for.
LEMMA CoverAdds ==
  ASSUME Chunk \in Nat, file \in Seq(Line), NEW v \in Views,
         NEW start \in Nat, NEW end \in Nat
  PROVE  LET w == Cover(v, start, end)
         IN  /\ w \in Views /\ SameBut(v, w) /\ w.scroll = v.scroll /\ w.from <= v.from
             /\ Exact(v) => Exact(w)
             /\ Exact(v) => \A k \in Nat : start <= k /\ k < end /\ k < v.total
                              => w.from <= k /\ k < w.from + Len(w.window)
<1> DEFINE s == Min({start, v.total})
           e == Min({end, v.total})
           nf == Less(v.from, Max({v.from - s, Chunk}))
           w1 == IF s < v.from THEN Older(v, nf) ELSE v
           stop == w1.from + Len(w1.window)
           w == Cover(v, start, end)
<1>1. /\ v.total \in Nat /\ v.from \in Nat /\ v.window \in Seq(Line)
      /\ s = (IF start <= v.total THEN start ELSE v.total)
      /\ e = (IF end <= v.total THEN end ELSE v.total)
  BY Min2 DEF Views
<1> HIDE DEF s, e
<1>2. s \in Nat /\ e \in Nat /\ e <= v.total
  BY <1>1
<1>3. s < v.from => nf \in Nat /\ nf <= s
  BY <1>1, <1>2, OlderFrom
<1>4. w = IF s >= e THEN v
          ELSE IF e > stop THEN [w1 EXCEPT !.window = @ \o Lines(v, stop, e - stop)]
          ELSE w1
  BY DEF Cover, Older, s, e
<1> HIDE DEF nf
<1>5. /\ w1 \in Views /\ SameBut(v, w1) /\ w1.scroll = v.scroll
      /\ w1.from <= v.from
      /\ w1.from <= s
      /\ Exact(v) => Exact(w1)
  <2>1. CASE s < v.from
    <3>1. nf \in Nat /\ nf <= s /\ nf <= v.from
      BY <1>1, <1>2, <1>3, <2>1
    <3> QED BY <2>1, <3>1, OlderLines
  <2>2. CASE ~(s < v.from)
    BY <1>1, <1>2, <2>2 DEF SameBut
  <2> QED BY <2>1, <2>2
<1> HIDE DEF w1, w
<1>6. w1.from \in Nat /\ Len(w1.window) \in Nat /\ w1.total = v.total /\ w1.show = v.show
  BY <1>5 DEF Views, SameBut
<1>7. CASE s >= e
  <2>1. \A k \in Nat : ~(start <= k /\ k < end /\ k < v.total)
    BY <1>1, <1>7
  <2> QED BY <1>1, <1>4, <1>7, <2>1 DEF SameBut, w
<1>8. CASE s < e /\ ~(e > stop)
  <2>1. w = w1
    BY <1>2, <1>4, <1>8
  <2>2. \A k \in Nat : start <= k /\ k < end /\ k < v.total
            => w1.from <= k /\ k < w1.from + Len(w1.window)
    BY <1>1, <1>2, <1>5, <1>6, <1>8
  <2> QED BY <1>5, <2>1, <2>2 DEF w
<1>9. CASE s < e /\ e > stop
  <2>0. ~(s >= e)
    BY <1>2, <1>9
  <2>1. w = Newer(w1, stop, e)
    <3>1. w = [w1 EXCEPT !.window = @ \o Lines(v, stop, e - stop)]
      BY <1>4, <1>9, <2>0
    <3>2. Lines(w1, stop, e - stop) = Lines(v, stop, e - stop)
      BY <1>6, SameVisible
    <3> QED BY <3>1, <3>2 DEF Newer
  <2>2. /\ w \in Views /\ SameBut(w1, w) /\ w.scroll = w1.scroll /\ w.from = w1.from
        /\ Exact(w1) => Exact(w) /\ Len(w.window) = e - w1.from
    BY <1>2, <1>5, <1>6, <1>9, <2>1, NewerLines
  <2>3. Exact(v) => \A k \in Nat : start <= k /\ k < end /\ k < v.total
            => w.from <= k /\ k < w.from + Len(w.window)
    <3> SUFFICES ASSUME Exact(v), NEW k \in Nat, start <= k, k < end, k < v.total
                 PROVE  w.from <= k /\ k < w.from + Len(w.window)
      OBVIOUS
    <3>1. Len(w.window) = e - w1.from /\ w.from = w1.from
      BY <1>5, <2>2
    <3>2. s <= k /\ k < e
      BY <1>1
    <3> QED BY <1>2, <1>5, <1>6, <3>1, <3>2
  <2> QED BY <1>5, <2>2, <2>3 DEF SameBut, w
<1> QED BY <1>2, <1>7, <1>8, <1>9

\* What only the window, its place, the scroll offset and the selection may
\* differ in.
SameBesides(v, w) ==
  w.show = v.show /\ w.follow = v.follow /\ w.total = v.total /\ w.height = v.height

\* The selected line is in the window and on the screen.
OnScreen(v) ==
  /\ v.from <= v.selected /\ v.selected < v.from + Len(v.window)
  /\ v.scroll <= v.selected /\ v.selected < v.scroll + Rows(v)

LEMMA Scrolled ==
  ASSUME NEW offset \in Nat, NEW idx \in Nat, NEW rows \in Nat, rows >= 1
  PROVE  LET scroll == ClampedScroll(offset, idx, rows)
         IN  scroll \in Nat /\ scroll <= idx /\ idx < scroll + rows
BY DEF ClampedScroll

\* ensure_selected_log_visible brings the selected line into the window and on
\* the screen.
LEMMA MadeVisible ==
  ASSUME Chunk \in Nat, file \in Seq(Line), NEW v \in Views,
         v.selected >= 0, v.selected < v.total
  PROVE  LET w == MakeVisible(v)
         IN  /\ w \in Views /\ SameBut(v, w) /\ w.from <= v.from /\ w.scroll <= w.selected
             /\ Exact(v) => Exact(w) /\ OnScreen(w)
<1> DEFINE idx == v.selected
           rows == Rows(v)
           scroll == ClampedScroll(v.scroll, idx, rows)
           u == [v EXCEPT !.scroll = scroll]
           w == Cover(u, scroll, scroll + rows)
<1>1. MakeVisible(v) = w
  BY DEF MakeVisible, NoLine, Views
<1>2. idx \in Nat /\ rows \in Nat /\ rows >= 1 /\ v.scroll \in Nat
  BY RowsAre DEF Views
<1> HIDE DEF idx, rows
<1>3. scroll \in Nat /\ scroll <= idx /\ idx < scroll + rows
  BY <1>2, Scrolled
<1> HIDE DEF scroll
<1>4. /\ u \in Views /\ SameBut(v, u) /\ u.from = v.from /\ u.window = v.window
      /\ u.scroll = scroll
  BY <1>3 DEF Views, SameBut
<1> HIDE DEF u
<1>5. Exact(v) => Exact(u)
  BY <1>4, SameVisible DEF Exact, SameBut
<1>6. scroll + rows \in Nat
  BY <1>2, <1>3
<1>7. /\ w \in Views /\ SameBut(u, w) /\ w.scroll = u.scroll /\ w.from <= u.from
      /\ Exact(u) => Exact(w)
      /\ Exact(u) => \A k \in Nat : scroll <= k /\ k < scroll + rows /\ k < u.total
                       => w.from <= k /\ k < w.from + Len(w.window)
  BY <1>3, <1>4, <1>6, CoverAdds
<1> HIDE DEF w
<1>8. w.selected = idx /\ Rows(w) = rows /\ w.scroll = scroll
  BY <1>4, <1>7 DEF SameBut, idx, rows, Rows
<1>9. ASSUME Exact(v) PROVE OnScreen(w)
  <2>1. idx < u.total
    BY <1>4 DEF idx, SameBut
  <2>2. w.from <= idx /\ idx < w.from + Len(w.window)
    BY <1>2, <1>3, <1>5, <1>7, <1>9, <2>1
  <2> QED BY <1>3, <1>8, <2>2 DEF OnScreen
<1>10. SameBut(v, w) /\ w.from <= v.from /\ w.scroll <= w.selected
  BY <1>3, <1>4, <1>7, <1>8 DEF SameBut
<1> QED BY <1>1, <1>5, <1>7, <1>9, <1>10

LEMMA Reselected ==
  ASSUME NEW v \in Views, NEW n \in Int
  PROVE  LET w == [v EXCEPT !.selected = n]
         IN  /\ w \in Views /\ SameBesides(v, w) /\ w.selected = n
             /\ w.from = v.from /\ w.window = v.window /\ w.scroll = v.scroll
             /\ Exact(v) => Exact(w)
<1> DEFINE w == [v EXCEPT !.selected = n]
<1>1. /\ w \in Views /\ SameBesides(v, w) /\ w.selected = n
      /\ w.from = v.from /\ w.window = v.window /\ w.scroll = v.scroll
  BY DEF Views, SameBesides
<1> HIDE DEF w
<1>2. Exact(v) => Exact(w)
  BY <1>1, SameVisible DEF Exact, SameBesides
<1> QED BY <1>1, <1>2 DEF w

\* The first place of a line, or 0.
PlaceOf(s, line) ==
  LET I == {i \in 1 .. Len(s) : s[i] = line}
  IN  IF I # {} THEN Min(I) ELSE 0

\* It is a place of the line, when there is one.
LEMMA FirstPlace ==
  ASSUME NEW T, NEW s \in Seq(T), NEW line
  PROVE  \/ PlaceOf(s, line) = 0 /\ \A i \in 1 .. Len(s) : s[i] # line
         \/ PlaceOf(s, line) \in 1 .. Len(s) /\ s[PlaceOf(s, line)] = line
<1> DEFINE I == {i \in 1 .. Len(s) : s[i] = line}
<1>1. I \in SUBSET Nat
  OBVIOUS
<1>2. I # {} => Min(I) \in I
  BY <1>1, LeastOf
<1> QED BY <1>2 DEF PlaceOf

\* A line that is looked for is selected wherever the file has it now.
LEMMA RestoredTo ==
  ASSUME Chunk \in Nat, file \in Seq(Line), NEW v \in Views, Exact(v), v.total > 0,
         NEW line, NEW fallback \in Nat
  PROVE  LET w == Restore(v, line, fallback)
             all == VisibleTo(v)
         IN  /\ w \in Views /\ Exact(w) /\ SameBesides(v, w) /\ w.scroll = v.scroll
             /\ w.selected >= 0 /\ w.selected < w.total
             /\ line \in Range(all) => all[w.selected + 1] = line
<1> DEFINE all == VisibleTo(v)
           k == PlaceOf(v.window, line)
           j == PlaceOf(all, line)
           w == Restore(v, line, fallback)
           near == Less(j - 1, ChunkOf(v) \div 2)
           chunk == ChunkOf(v)
           last == Min({fallback, Less(v.total, 1)})
<1>1. w = IF k # 0 THEN [v EXCEPT !.selected = v.from + k - 1]
          ELSE IF j # 0 THEN Load([v EXCEPT !.selected = j - 1], near, chunk)
          ELSE [v EXCEPT !.selected = last]
  BY DEF Restore, SelectInSeq, PlaceOf
<1>2. /\ all \in Seq(Line) /\ Len(all) \in Nat /\ v.total = Len(all)
      /\ v.window \in Seq(Line) /\ Len(v.window) \in Nat /\ v.from \in Nat
      /\ v.from + Len(v.window) <= v.total
      /\ \A i \in 1 .. Len(v.window) : v.window[i] = all[v.from + i]
  BY VisibleLines DEF Exact, Views
<1>3. \/ k = 0
      \/ k \in 1 .. Len(v.window) /\ v.window[k] = line
  BY <1>2, FirstPlace, Zenon
<1> HIDE DEF all
<1>4. \/ j = 0 /\ \A i \in 1 .. Len(all) : all[i] # line
      \/ j \in 1 .. Len(all) /\ all[j] = line
  BY <1>2, FirstPlace, Zenon
<1> HIDE DEF k, j, w
<1>5. CASE k # 0
  <2> DEFINE n == v.from + k - 1
  <2>1. k \in 1 .. Len(v.window) /\ n \in Int /\ n >= 0 /\ n < v.total /\ n + 1 = v.from + k
    BY <1>2, <1>3, <1>5
  <2>2. all[n + 1] = line
    BY <1>2, <1>3, <1>5, <2>1
  <2>3. w = [v EXCEPT !.selected = n]
    BY <1>1, <1>5
  <2> HIDE DEF n
  <2> QED BY <2>1, <2>2, <2>3, Reselected DEF SameBesides, w, all
<1>6. CASE k = 0 /\ j # 0
  <2> DEFINE u == [v EXCEPT !.selected = j - 1]
  <2>1. j \in 1 .. Len(all) /\ all[j] = line /\ j - 1 \in Int
    BY <1>4, <1>6
  <2>2. u \in Views /\ SameBesides(v, u) /\ u.selected = j - 1 /\ u.scroll = v.scroll
    BY <2>1, Reselected
  <2>3. chunk \in Nat /\ chunk \div 2 \in Nat
    BY ChunkIs
  <2>4. near \in Nat
    <3> DEFINE half == chunk \div 2
    <3>1. half \in Int /\ j - 1 \in Int
      BY <2>1, <2>3
    <3> HIDE DEF half
    <3>2. Less(j - 1, half) \in Nat
      BY <3>1, LessNat
    <3> QED BY <3>2 DEF half
  <2>5. w = Load(u, near, chunk)
    BY <1>1, <1>6
  <2> HIDE DEF u, near, chunk
  <2>6. /\ w \in Views /\ Exact(w) /\ w.total = Len(VisibleTo(u))
        /\ w.show = u.show /\ w.follow = u.follow /\ w.selected = u.selected
        /\ w.scroll = u.scroll /\ w.height = u.height
    BY <2>2, <2>3, <2>4, <2>5, LoadIsFresh, ZenonT(30)
  <2>7. VisibleTo(u) = all
    BY <2>2, SameVisible DEF SameBesides, all
  <2>8. SameBesides(v, w) /\ w.selected >= 0 /\ w.selected < w.total /\ w.selected + 1 = j
    BY <1>2, <2>1, <2>2, <2>6, <2>7 DEF SameBesides
  <2> QED BY <2>1, <2>2, <2>6, <2>8 DEF w, all
<1>7. CASE k = 0 /\ j = 0
  <2>1. Less(v.total, 1) = v.total - 1 /\ v.total - 1 \in Nat
    BY <1>2, LessIs
  <2>2. last = IF fallback <= v.total - 1 THEN fallback ELSE v.total - 1
    BY <2>1, Min2
  <2>3. last \in Int /\ last >= 0 /\ last < v.total
    <3> HIDE DEF last
    <3> QED BY <1>2, <2>1, <2>2
  <2>4. w = [v EXCEPT !.selected = last]
    BY <1>1, <1>7
  <2> HIDE DEF last
  <2>5. line \notin Range(all)
    BY <1>2, <1>4, <1>7 DEF Range
  <2> QED BY <2>3, <2>4, <2>5, Reselected DEF SameBesides, w, all
<1> QED BY <1>5, <1>6, <1>7

\* Where the parts of the panel may be.
Placed(v) ==
  /\ v.selected >= -1 /\ v.selected < v.total
  /\ v.from <= v.total
  /\ v.scroll < v.total \/ v.scroll = 0

\* The line at a place of the window.
LEMMA ShownIs ==
  ASSUME NEW v \in Views, NEW k \in Int
  PROVE  /\ Shown(v, k) # {} => v.from <= k /\ k < v.from + Len(v.window)
         /\ v.from <= k /\ k < v.from + Len(v.window)
              => Shown(v, k) = {v.window[k - v.from + 1]}
         /\ Exact(v) /\ Shown(v, k) # {}
              => /\ k >= 0 /\ k < v.total
                 /\ Shown(v, k) = {VisibleTo(v)[k + 1]}
<1> DEFINE n == Len(v.window)
           i == k - v.from + 1
<1>1. v.from \in Nat /\ n \in Nat /\ DOMAIN v.window = 1 .. n /\ i \in Int
  BY DEF Views
<1>2. i \in 1 .. n <=> v.from <= k /\ k < v.from + n
  BY <1>1
<1>3. v.from + i = k + 1
  BY <1>1
<1> HIDE DEF i
<1>4. Shown(v, k) = IF i \in 1 .. n THEN {v.window[i]} ELSE {}
  BY <1>1 DEF Shown, i
<1>5. ASSUME Exact(v), i \in 1 .. n
      PROVE  v.window[i] = VisibleTo(v)[k + 1] /\ k >= 0 /\ k < v.total
  <2>1. v.window[i] = VisibleTo(v)[v.from + i] /\ v.from + n <= v.total
    BY <1>5 DEF Exact
  <2> QED BY <1>1, <1>2, <1>3, <1>5, <2>1, v.total \in Nat DEF Views
<1> QED BY <1>2, <1>4, <1>5 DEF i

\* The selection after a new load: a line that was selected and is still there
\* is selected where it is now.
LEMMA PutRight ==
  ASSUME Chunk \in Nat, file \in Seq(Line), NEW v \in Views, v.selected >= -1,
         NEW loaded \in Views, Exact(loaded), loaded.total > 0,
         loaded.selected = v.selected, NEW anchor \in Nat
  PROVE  LET w == Put(v, loaded, anchor)
             all == VisibleTo(loaded)
         IN  /\ w \in Views /\ Exact(w) /\ SameBesides(loaded, w) /\ w.scroll = loaded.scroll
             /\ w.selected >= -1 /\ w.selected < w.total
             /\ v.selected # -1 => \A line \in Shown(v, v.selected) :
                  /\ w.selected >= 0
                  /\ line \in Range(all) => all[w.selected + 1] = line
<1> DEFINE w == Put(v, loaded, anchor)
           all == VisibleTo(loaded)
           was == Shown(v, v.selected)
           n == v.selected
           last == [loaded EXCEPT !.selected = IF @ >= loaded.total THEN loaded.total - 1 ELSE @]
<1>1. w = IF n # -1 /\ was # {}
          THEN IF Shown(loaded, n) = was THEN loaded
               ELSE Restore(loaded, CHOOSE l \in was : TRUE, anchor)
          ELSE last
  BY DEF Put, NoLine
<1>2. n \in Int /\ loaded.total \in Nat
  BY DEF Views
<1>3. was # {} => was = {v.window[n - v.from + 1]}
  BY <1>2, ShownIs
<1> HIDE DEF w, was, all
<1>4. CASE n # -1 /\ was # {} /\ Shown(loaded, n) = was
  <2>1. w = loaded /\ loaded.selected = n
    BY <1>1, <1>4
  <2>2. n >= 0 /\ n < loaded.total /\ was = {all[n + 1]}
    BY <1>2, <1>4, ShownIs DEF all
  <2> QED BY <1>2, <2>1, <2>2 DEF SameBesides, w, was, all
<1>5. CASE n # -1 /\ was # {} /\ Shown(loaded, n) # was
  <2> DEFINE line == CHOOSE l \in was : TRUE
  <2>1. was = {line}
    BY <1>3, <1>5
  <2>2. w = Restore(loaded, line, anchor)
    BY <1>1, <1>5
  <2> HIDE DEF line
  <2>3. /\ w \in Views /\ Exact(w) /\ SameBesides(loaded, w) /\ w.scroll = loaded.scroll
        /\ w.selected >= 0 /\ w.selected < w.total
        /\ line \in Range(all) => all[w.selected + 1] = line
    BY <2>2, RestoredTo DEF all
  <2>4. w.selected >= -1
    BY <2>3, SMTT(20) DEF Views
  <2> QED BY <2>1, <2>3, <2>4 DEF w, was, all
<1>6. CASE n = -1 \/ was = {}
  <2> DEFINE m == IF n >= loaded.total THEN loaded.total - 1 ELSE n
  <2>1. m \in Int /\ m >= -1 /\ m < loaded.total
    BY <1>2
  <2>2. w = [loaded EXCEPT !.selected = m]
    BY <1>1, <1>6
  <2> HIDE DEF m
  <2>3. /\ w \in Views /\ SameBesides(loaded, w) /\ w.selected = m
        /\ w.scroll = loaded.scroll /\ Exact(w)
    BY <2>1, <2>2, Reselected
  <2>4. w.total = loaded.total
    BY <2>3 DEF SameBesides
  <2> QED BY <1>6, <2>1, <2>3, <2>4 DEF w, was, all
<1> QED BY <1>4, <1>5, <1>6

\* What a refresh leaves behind.
Drawn(w) ==
  /\ w \in Views /\ Placed(w) /\ Exact(w)
  /\ w.selected # -1 => OnScreen(w)

\* Refreshing a panel that does not follow the end.
LEMMA RefreshedInPlace ==
  ASSUME Chunk \in Nat, file \in Seq(Line), NEW v \in Views, v.selected >= -1
  PROVE  LET w == RefreshInPlace(v)
             all == VisibleTo(v)
         IN  /\ Drawn(w) /\ w.show = v.show /\ w.height = v.height /\ w.follow = v.follow
             /\ v.selected # -1 => \A line \in Shown(v, v.selected) :
                  line \in Range(all) => w.selected >= 0 /\ all[w.selected + 1] = line
<1> DEFINE all == VisibleTo(v)
           total == Len(all)
           half == ChunkOf(v) \div 2
           place == IF v.selected = -1 THEN v.scroll ELSE v.selected
           anchor == Min({place, total - 1})
           near == Min({Less(v.scroll, half), Less(anchor, half), total - 1})
           loaded == Load(v, near, ChunkOf(v))
           put == Put(v, loaded, anchor)
           scroll == Min({put.scroll, Less(total, Rows(put))})
           u == [put EXCEPT !.scroll = scroll]
           none == [v EXCEPT !.window = <<>>, !.from = 0, !.total = 0, !.selected = -1,
                             !.scroll = 0]
           w == RefreshInPlace(v)
<1>1. w = IF total = 0 THEN none
          ELSE MakeVisible([put EXCEPT !.scroll = Min({@, Less(total, Rows(v))})])
  BY DEF RefreshInPlace, NoLine
<1>2. /\ all \in Seq(Line) /\ total \in Nat
      /\ v.scroll \in Nat /\ v.selected \in Int /\ place \in Nat
  BY VisibleLines DEF Views
<1>3. CASE total = 0
  <2>1. w = none
    BY <1>1, <1>3
  <2>2. /\ none \in Views
        /\ none.window = <<>> /\ none.from = 0 /\ none.total = 0 /\ none.selected = -1
        /\ none.scroll = 0 /\ none.show = v.show /\ none.height = v.height
        /\ none.follow = v.follow
    <3>1. <<>> \in Seq(Line) /\ 0 \in Nat /\ -1 \in Int
      OBVIOUS
    <3> QED BY <3>1 DEF Views
  <2> HIDE DEF none
  <2>3. Exact(none)
    BY <1>3, <2>2, SameVisible DEF Exact
  <2>4. Placed(none)
    BY <2>2 DEF Placed
  <2>5. \A line : line \notin Range(all)
    BY <1>2, <1>3 DEF Range
  <2> QED BY <2>1, <2>2, <2>3, <2>4, <2>5 DEF Drawn
<1>4. CASE total # 0
  <2>1. total - 1 \in Nat /\ half \in Nat /\ ChunkOf(v) \in Nat
    BY <1>2, <1>4, ChunkIs
  <2> HIDE DEF total, half, place
  <2>2. anchor \in Nat
    <3>1. anchor = IF place <= total - 1 THEN place ELSE total - 1
      BY <1>2, <2>1, Min2
    <3> HIDE DEF anchor
    <3> QED BY <1>2, <2>1, <3>1
  <2> HIDE DEF anchor
  <2>3. near \in Nat
    <3>0. v.scroll \in Int /\ anchor \in Int /\ half \in Int
      BY <1>2, <2>1, <2>2
    <3>1. Less(v.scroll, half) \in Nat /\ Less(anchor, half) \in Nat
      BY <3>0, LessNat
    <3>2. {Less(v.scroll, half), Less(anchor, half), total - 1} \in SUBSET Nat
      BY <2>1, <3>1
    <3>3. near \in {Less(v.scroll, half), Less(anchor, half), total - 1}
      BY <3>2, LeastOf
    <3> QED BY <3>2, <3>3
  <2> HIDE DEF near
  <2>4. /\ loaded \in Views /\ Exact(loaded) /\ loaded.total = total
        /\ loaded.show = v.show /\ loaded.follow = v.follow /\ loaded.selected = v.selected
        /\ loaded.scroll = v.scroll /\ loaded.height = v.height
    BY <2>1, <2>3, LoadIsFresh, ZenonT(30) DEF total
  <2> HIDE DEF loaded
  <2>5. VisibleTo(loaded) = all
    BY <2>4, SameVisible
  <2> HIDE DEF all
  <2>6. loaded.total > 0
    BY <1>2, <2>1, <2>4
  <2>7. /\ put \in Views /\ Exact(put) /\ SameBesides(loaded, put) /\ put.scroll = v.scroll
        /\ put.selected >= -1 /\ put.selected < put.total
        /\ v.selected # -1 => \A line \in Shown(v, v.selected) :
             /\ put.selected >= 0
             /\ line \in Range(all) => all[put.selected + 1] = line
    BY <2>2, <2>4, <2>5, <2>6, PutRight
  <2> HIDE DEF put
  <2>8. /\ put.show = v.show /\ put.height = v.height /\ put.follow = v.follow
        /\ put.total = total /\ Rows(put) = Rows(v)
        /\ Rows(v) \in Nat /\ Rows(v) >= 1 /\ put.selected \in Int
    BY <2>4, <2>7, RowsAre DEF SameBesides, Rows, Views
  <2>9. scroll \in Nat /\ (scroll < total \/ scroll = 0)
    <3> DEFINE end == Less(total, Rows(put))
    <3>0. total \in Int /\ Rows(put) \in Int
      BY <1>2, <2>8
    <3>1. end = IF total >= Rows(put) THEN total - Rows(put) ELSE 0
      BY <3>0, LessIs
    <3> HIDE DEF end
    <3>2. end \in Nat /\ (end < total \/ end = 0)
      BY <1>2, <2>8, <3>1
    <3>3. scroll = IF put.scroll <= end THEN put.scroll ELSE end
      BY <1>2, <2>7, <3>2, Min2 DEF end
    <3> HIDE DEF scroll
    <3> QED BY <1>2, <2>7, <3>2, <3>3
  <2> HIDE DEF scroll
  <2>10. /\ u \in Views /\ SameBut(put, u) /\ u.from = put.from /\ u.window = put.window
         /\ u.scroll = scroll
    BY <2>7, <2>9 DEF Views, SameBut
  <2>11. w = MakeVisible(u)
    BY <1>1, <1>4, <2>8 DEF scroll, total
  <2> HIDE DEF u, w
  <2>12. Exact(u) /\ u.total = total /\ u.selected = put.selected /\ u.from <= total
    <3>1. Exact(u)
      BY <2>7, <2>10, SameVisible DEF Exact, SameBut
    <3>2. u.from + Len(u.window) <= u.total /\ Len(u.window) \in Nat /\ u.from \in Nat
      BY <2>10, <3>1 DEF Exact, Views
    <3>3. u.total = total /\ u.selected = put.selected
      BY <2>8, <2>10 DEF SameBut
    <3> QED BY <1>2, <3>1, <3>2, <3>3
  <2>13. CASE u.selected = -1
    <3>1. w = u
      BY <2>11, <2>13 DEF MakeVisible, NoLine
    <3>2. Placed(w)
      BY <1>2, <2>9, <2>10, <2>12, <2>13, <3>1 DEF Placed
    <3>3. ~(put.selected >= 0)
      BY <2>12, <2>13
    <3> QED BY <2>7, <2>8, <2>10, <2>12, <2>13, <3>1, <3>2, <3>3 DEF Drawn, SameBut, w
  <2>14. CASE u.selected # -1
    <3>1. u.selected >= 0 /\ u.selected < u.total
      BY <2>7, <2>8, <2>12, <2>14
    <3>2. /\ w \in Views /\ SameBut(u, w) /\ w.from <= u.from /\ w.scroll <= w.selected
          /\ Exact(w) /\ OnScreen(w)
      BY <2>10, <2>11, <2>12, <3>1, MadeVisible
    <3>3. w.selected = put.selected /\ w.total = total
      BY <2>12, <3>2 DEF SameBut
    <3>4. w.scroll \in Nat /\ w.from \in Nat /\ u.from \in Nat
      BY <2>10, <3>2 DEF Views
    <3>5. Placed(w)
      BY <1>2, <2>7, <2>8, <2>12, <3>2, <3>3, <3>4 DEF Placed
    <3> QED BY <2>7, <2>8, <2>10, <3>2, <3>3, <3>5 DEF Drawn, SameBut, w, all
  <2> QED BY <2>13, <2>14
<1> QED BY <1>3, <1>4

\* Following the end selects the last line.
LEMMA RefreshedAtEnd ==
  ASSUME Chunk \in Nat, file \in Seq(Line), NEW v \in Views, v.follow
  PROVE  LET w == SyncFollow(LoadEnd(v))
         IN  Drawn(w) /\ w.show = v.show /\ w.height = v.height /\ w.follow
<1> DEFINE total == Len(VisibleTo(v))
           chunk == ChunkOf(v)
           u == Load(v, Less(total, chunk), chunk)
           w == SyncFollow(u)
<1>1. SyncFollow(LoadEnd(v)) = w
  BY DEF LoadEnd
<1>2. total \in Int /\ chunk \in Int /\ chunk \in Nat /\ total \in Nat
  BY VisibleLines, ChunkIs
<1>3. Less(total, chunk) \in Nat
  BY <1>2, LessNat
<1>4. /\ u \in Views /\ Exact(u) /\ u.total = total /\ u.from <= u.total
      /\ u.show = v.show /\ u.follow = v.follow /\ u.height = v.height
  BY <1>2, <1>3, LoadIsFresh, ZenonT(30)
<1> HIDE DEF u
<1>5. w = IF u.total = 0 THEN [u EXCEPT !.selected = -1, !.scroll = 0]
          ELSE MakeVisible([u EXCEPT !.selected = u.total - 1])
  BY <1>4 DEF SyncFollow, NoLine
<1> HIDE DEF w, total
<1>6. CASE u.total = 0
  <2> DEFINE n == [u EXCEPT !.selected = -1, !.scroll = 0]
  <2>1. /\ n \in Views /\ n.selected = -1 /\ n.scroll = 0 /\ n.show = u.show
        /\ n.from = u.from /\ n.total = u.total /\ n.window = u.window
        /\ n.height = u.height /\ n.follow = u.follow
    <3>1. -1 \in Int /\ 0 \in Nat /\ u \in Views
      BY <1>4
    <3> QED BY <3>1 DEF Views
  <2>2. w = n
    BY <1>5, <1>6
  <2> HIDE DEF n
  <2>3. Exact(n)
    BY <1>4, <2>1, SameVisible DEF Exact
  <2>4. Placed(n)
    BY <1>4, <1>6, <2>1 DEF Placed
  <2> QED BY <1>1, <1>4, <2>1, <2>2, <2>3, <2>4 DEF Drawn
<1>7. CASE u.total # 0
  <2> DEFINE n == [u EXCEPT !.selected = u.total - 1]
  <2>1. u.total \in Nat /\ u.total - 1 \in Int
    BY <1>2, <1>4
  <2>2. /\ n \in Views /\ SameBesides(u, n) /\ n.selected = u.total - 1
        /\ n.from = u.from /\ Exact(n)
    BY <1>4, <2>1, Reselected
  <2>3. w = MakeVisible(n)
    BY <1>5, <1>7
  <2> HIDE DEF n
  <2>4. n.selected >= 0 /\ n.selected < n.total /\ n.total = u.total
    BY <1>7, <2>1, <2>2 DEF SameBesides
  <2>5. /\ w \in Views /\ SameBut(n, w) /\ w.from <= n.from /\ w.scroll <= w.selected
        /\ Exact(w) /\ OnScreen(w)
    BY <2>2, <2>3, <2>4, MadeVisible
  <2>6. w.total = u.total /\ w.selected = u.total - 1
    BY <2>2, <2>4, <2>5 DEF SameBut
  <2>7. w.from \in Nat /\ n.from \in Nat /\ w.scroll \in Nat
    BY <2>2, <2>5 DEF Views
  <2>8. Placed(w)
    BY <1>4, <2>1, <2>2, <2>5, <2>6, <2>7 DEF Placed
  <2> QED BY <1>1, <1>4, <2>2, <2>5, <2>8 DEF Drawn, SameBut, SameBesides
<1> QED BY <1>6, <1>7

\* A refresh, whether the panel follows the end or not.
LEMMA Refreshed ==
  ASSUME Chunk \in Nat, file \in Seq(Line), NEW v \in Views, v.selected >= -1
  PROVE  LET w == RefreshHistory(v)
             all == VisibleTo(v)
         IN  /\ Drawn(w) /\ w.show = v.show
             /\ ~v.follow /\ v.selected # -1 => \A line \in Shown(v, v.selected) :
                  line \in Range(all) => w.selected >= 0 /\ all[w.selected + 1] = line
<1>1. CASE v.follow
  <2>1. RefreshHistory(v) = SyncFollow(LoadEnd(v))
    BY <1>1 DEF RefreshHistory
  <2> QED BY <1>1, <2>1, RefreshedAtEnd
<1>2. CASE ~v.follow
  <2>1. RefreshHistory(v) = RefreshInPlace(v)
    BY <1>2 DEF RefreshHistory
  <2> QED BY <1>2, <2>1, RefreshedInPlace
<1> QED BY <1>1, <1>2

\* The selection moves to a line there is, and the screen with it.
LEMMA MovesTo ==
  ASSUME Chunk \in Nat, file \in Seq(Line), NEW v \in Views, v.from <= v.total,
         NEW n \in Nat, n < v.total, NEW follow \in BOOLEAN
  PROVE  LET w == MakeVisible([v EXCEPT !.selected = n, !.follow = follow])
         IN  w \in Views /\ Placed(w)
<1> DEFINE u == [v EXCEPT !.selected = n, !.follow = follow]
           w == MakeVisible(u)
<1>1. /\ u \in Views /\ u.selected = n /\ u.total = v.total /\ u.from = v.from
      /\ v.total \in Nat /\ v.from \in Nat
  <2>1. n \in Int
    OBVIOUS
  <2> QED BY <2>1 DEF Views
<1> HIDE DEF u
<1>2. u.selected >= 0 /\ u.selected < u.total
  BY <1>1
<1>3. w \in Views /\ SameBut(u, w) /\ w.from <= u.from /\ w.scroll <= w.selected
  BY <1>1, <1>2, MadeVisible
<1> HIDE DEF w
<1>4. /\ w.selected = n /\ w.total = v.total /\ w.from \in Nat /\ w.scroll \in Nat
      /\ w.from <= v.from /\ w.scroll <= n
  BY <1>1, <1>3 DEF SameBut, Views
<1>5. Placed(w)
  BY <1>1, <1>4 DEF Placed
<1> QED BY <1>3, <1>5 DEF w, u

LEMMA CoverMovesTo ==
  ASSUME Chunk \in Nat, file \in Seq(Line), NEW v \in Views, Placed(v),
         NEW start \in Nat, NEW end \in Nat,
         NEW n \in Nat, n < v.total, NEW follow \in BOOLEAN
  PROVE  LET w == MakeVisible([Cover(v, start, end)
                                     EXCEPT !.selected = n, !.follow = follow])
         IN  w \in Views /\ Placed(w)
<1> DEFINE u == Cover(v, start, end)
<1>1. u \in Views /\ SameBut(v, u) /\ u.from <= v.from
  BY CoverAdds
<1> HIDE DEF u
<1>2. u.total = v.total /\ u.from \in Nat /\ v.from \in Nat /\ v.total \in Nat
  BY <1>1 DEF SameBut, Views
<1>3. n < u.total /\ u.from <= u.total
  BY <1>1, <1>2 DEF Placed
<1> QED BY <1>1, <1>3, MovesTo DEF u

\* The inductive invariant of the panel and its file.
ViewInv == LogInv /\ view \in Views /\ Placed(view)

LEMMA ViewInit ==
  ASSUME LogInit
  PROVE  ViewInv
<1>1. LogInv
  BY LogInitInv DEF LogInit
<1>2. <<>> \in Seq(Line) /\ 0 \in Nat /\ -1 \in Int /\ Viewports \subseteq Nat
  BY ViewAssumption
<1>3. view \in Views
  BY <1>2 DEF LogInit, Views, NoLine
<1>4. Placed(view)
  BY <1>2 DEF LogInit, Placed, NoLine
<1> QED BY <1>1, <1>3, <1>4 DEF ViewInv

\* select_previous_log keeps the selection among the lines.
LEMMA PreviousSelected ==
  ASSUME Chunk \in Nat, ViewInv, SelectPrevious
  PROVE  view' \in Views /\ Placed(view')
<1> DEFINE idx == IF view.follow \/ view.selected = -1 THEN view.total - 1 ELSE view.selected
<1>1. /\ view \in Views /\ file \in Seq(Line) /\ view.total # 0 /\ Placed(view)
      /\ view.selected \in Int /\ view.total \in Nat
  BY DEF SelectPrevious, ViewInv, LogInv, FileTypeOK, Views
<1>2. idx \in Nat /\ idx < view.total
  BY <1>1 DEF Placed
<1>3. view' = IF idx = 0 THEN [view EXCEPT !.selected = 0]
              ELSE MakeVisible([Cover(view, idx - 1, idx)
                      EXCEPT !.selected = idx - 1, !.follow = FALSE])
  BY DEF SelectPrevious, PanelIs, NoLine
<1> HIDE DEF idx
<1>4. CASE idx = 0
  <2> DEFINE w == [view EXCEPT !.selected = 0]
  <2>1. /\ w \in Views /\ SameBesides(view, w) /\ w.selected = 0
        /\ w.from = view.from /\ w.scroll = view.scroll
    BY <1>1, Reselected
  <2>2. view' = w
    BY <1>3, <1>4
  <2> HIDE DEF w
  <2>3. Placed(w)
    BY <1>1, <2>1 DEF Placed, SameBesides
  <2> QED BY <2>1, <2>2, <2>3
<1>5. CASE idx # 0
  <2>1. idx - 1 \in Nat /\ idx - 1 < view.total /\ FALSE \in BOOLEAN
    BY <1>1, <1>2, <1>5
  <2>2. view' = MakeVisible([Cover(view, idx - 1, idx)
                   EXCEPT !.selected = idx - 1, !.follow = FALSE])
    BY <1>3, <1>5
  <2> QED BY <1>1, <1>2, <2>1, <2>2, CoverMovesTo
<1> QED BY <1>4, <1>5

\* select_next_log keeps the selection among the lines.
LEMMA NextSelected ==
  ASSUME Chunk \in Nat, ViewInv, SelectNext
  PROVE  view' \in Views /\ Placed(view')
<1> DEFINE idx == IF view.selected = -1 THEN view.total - 1 ELSE view.selected
           next == idx + 1
<1>1. /\ view \in Views /\ file \in Seq(Line) /\ view.total # 0 /\ Placed(view)
      /\ view.selected \in Int /\ view.total \in Nat
  BY DEF SelectNext, ViewInv, LogInv, FileTypeOK, Views
<1>2. idx \in Nat /\ idx < view.total
  BY <1>1 DEF Placed
<1>3. view' = IF next >= view.total
              THEN MakeVisible([view EXCEPT !.selected = view.total - 1, !.follow = TRUE])
              ELSE MakeVisible([Cover(view, idx, next + 1)
                      EXCEPT !.selected = next, !.follow = next + 1 = view.total])
  BY DEF SelectNext, PanelIs, NoLine
<1> HIDE DEF idx
<1>4. CASE next >= view.total
  <2>1. view.total - 1 \in Nat /\ view.total - 1 < view.total /\ view.from <= view.total
    BY <1>1 DEF Placed
  <2>2. view' = MakeVisible([view EXCEPT !.selected = view.total - 1, !.follow = TRUE])
    BY <1>3, <1>4
  <2> QED BY <1>1, <2>1, <2>2, MovesTo
<1>5. CASE ~(next >= view.total)
  <2>1. next \in Nat /\ next < view.total /\ next + 1 \in Nat
    BY <1>1, <1>2, <1>5
  <2>2. view' = MakeVisible([Cover(view, idx, next + 1)
                   EXCEPT !.selected = next, !.follow = next + 1 = view.total])
    BY <1>3, <1>5
  <2> DEFINE last == next + 1 = view.total
  <2>3. last \in BOOLEAN
    OBVIOUS
  <2> QED BY <1>1, <1>2, <2>1, <2>2, <2>3, CoverMovesTo, Zenon
<1> QED BY <1>4, <1>5

\* What was a selected line is a place of the panel that is drawn.
LEMMA DrawnLine ==
  ASSUME NEW w, Drawn(w), NEW line, w.selected >= 0,
         VisibleTo(w)[w.selected + 1] = line
  PROVE  Shown(w, w.selected) = {line}
<1>1. w \in Views /\ Exact(w) /\ w.selected \in Int /\ w.selected # -1
  BY DEF Drawn, Views
<1>2. w.from <= w.selected /\ w.selected < w.from + Len(w.window)
  BY <1>1 DEF Drawn, OnScreen
<1>3. Shown(w, w.selected) # {}
  BY <1>1, <1>2, ShownIs
<1> QED BY <1>1, <1>3, ShownIs

LEMMA SameElements ==
  ASSUME NEW T, NEW s \in Seq(T), NEW t \in Seq(T), NEW n \in Nat,
         Len(s) = n, Len(t) = n, \A k \in 1 .. n : s[k] = t[k]
  PROVE  s = t
<1>1. s = [k \in 1 .. n |-> s[k]] /\ t = [k \in 1 .. n |-> t[k]]
  OBVIOUS
<1> QED BY <1>1

\* The window that is drawn is what the file has at its place.
LEMMA DrawnWindow ==
  ASSUME file \in Seq(Line), NEW w, Drawn(w)
  PROVE  w.window = Lines(w, w.from, Len(w.window))
<1> DEFINE n == Len(w.window)
           part == Lines(w, w.from, n)
           to == w.from + n
<1>1. /\ w \in Views /\ Exact(w) /\ w.window \in Seq(Line)
      /\ n \in Nat /\ w.from \in Nat /\ to \in Nat /\ w.from <= to /\ to - w.from = n
  BY DEF Drawn, Views
<1>2. part = Lines(w, w.from, to - w.from)
  BY <1>1
<1>3. to <= Len(VisibleTo(w))
  BY <1>1 DEF Exact
<1> HIDE DEF to, n
<1>4. /\ part \in Seq(Line) /\ Len(part) = to - w.from
      /\ \A k \in 1 .. Len(part) : part[k] = VisibleTo(w)[w.from + k]
  <2>1. /\ Lines(w, w.from, to - w.from) \in Seq(Line)
        /\ Len(Lines(w, w.from, to - w.from)) = to - w.from
        /\ \A k \in 1 .. Len(Lines(w, w.from, to - w.from)) :
              Lines(w, w.from, to - w.from)[k] = VisibleTo(w)[w.from + k]
    BY <1>1, <1>3, LinesBetween
  <2> QED BY <1>2, <2>1
<1> HIDE DEF part
<1>5. \A k \in 1 .. n : w.window[k] = VisibleTo(w)[w.from + k]
  BY <1>1 DEF Exact, n
<1>6. part = w.window
  <2>1. Len(w.window) = n /\ Len(part) = n
    BY <1>1, <1>4 DEF n
  <2>2. \A k \in 1 .. n : part[k] = w.window[k]
    BY <1>4, <1>5, <2>1
  <2> QED BY <1>1, <1>4, <2>1, <2>2, SameElements
<1> QED BY <1>6 DEF part, n

\* A step that refreshes the panel: Tick, and ToggleLevel with another filter.
LEMMA RefreshingStep ==
  ASSUME Chunk \in Nat, ViewInv, Tick \/ ToggleLevel
  PROVE  \E v \in Views : /\ v.show = view'.show /\ v.follow = view.follow
                          /\ v.selected = view.selected /\ v.from = view.from
                          /\ v.window = view.window
                          /\ view' = RefreshHistory(v) /\ UNCHANGED fileVars
<1>1. view \in Views /\ file \in Seq(Line) /\ view.selected >= -1
  BY DEF ViewInv, Placed, LogInv, FileTypeOK
<1>2. CASE Tick
  <2>1. view' = RefreshHistory(view) /\ UNCHANGED fileVars
    BY <1>2 DEF Tick, PanelIs
  <2>2. view'.show = view.show
    BY <1>1, <2>1, Refreshed
  <2> QED BY <1>1, <2>1, <2>2
<1>3. CASE ToggleLevel
  <2>1. PICK level \in Levels :
          PanelIs(RefreshHistory([view EXCEPT !.show =
            IF level \in @ THEN @ \ {level} ELSE @ \cup {level}]))
    BY <1>3 DEF ToggleLevel
  <2> DEFINE show == IF level \in view.show THEN view.show \ {level} ELSE view.show \cup {level}
             v == [view EXCEPT !.show = show]
  <2>2. view' = RefreshHistory(v) /\ UNCHANGED fileVars
    BY <2>1 DEF PanelIs
  <2>3. show \in SUBSET Levels
    BY <1>1 DEF Views
  <2> HIDE DEF show
  <2>4. /\ v \in Views /\ v.follow = view.follow /\ v.selected = view.selected
        /\ v.from = view.from /\ v.window = view.window
    BY <1>1, <2>3 DEF Views
  <2> HIDE DEF v
  <2>5. view'.show = v.show
    BY <1>1, <2>2, <2>4, Refreshed
  <2> QED BY <2>2, <2>4, <2>5
<1> QED BY <1>2, <1>3

\* Every step keeps the invariant.
LEMMA ViewNextInv ==
  ASSUME ViewInv, [LogNext]_logVars
  PROVE  ViewInv'
<1>0. /\ Chunk \in Nat /\ Viewports \subseteq Nat
      /\ file \in Seq(Line) /\ LogInv /\ view \in Views /\ Placed(view)
  BY ViewAssumption DEF ViewInv, LogInv, FileTypeOK
<1>1. ASSUME UNCHANGED fileVars PROVE LogInv'
  BY <1>0, <1>1 DEF fileVars, LogInv, FileTypeOK, Rewriting, Whole
<1>2. CASE FileNext /\ UNCHANGED view
  BY <1>0, <1>2, LogNextInv DEF ViewInv
<1>3. CASE Tick \/ ToggleLevel
  <2>1. PICK v \in Views : /\ v.selected = view.selected
                           /\ view' = RefreshHistory(v) /\ UNCHANGED fileVars
    BY <1>0, <1>3, RefreshingStep
  <2>2. Drawn(view')
    BY <1>0, <2>1, Refreshed DEF Placed
  <2> QED BY <1>1, <2>1, <2>2 DEF ViewInv, Drawn
<1>4. CASE FocusLogs
  <2> DEFINE v == [view EXCEPT !.follow = TRUE]
  <2>1. view' = RefreshHistory(v) /\ UNCHANGED fileVars
    BY <1>4 DEF FocusLogs, PanelIs
  <2>2. v \in Views /\ v.selected = view.selected
    BY <1>0 DEF Views
  <2> HIDE DEF v
  <2>3. Drawn(view')
    BY <1>0, <2>1, <2>2, Refreshed DEF Placed
  <2> QED BY <1>1, <2>1, <2>3 DEF ViewInv, Drawn
<1>5. CASE Resize
  <2>1. PICK h \in Viewports : view' = [view EXCEPT !.height = h] /\ UNCHANGED fileVars
    BY <1>5 DEF Resize, PanelIs
  <2>2. view' \in Views /\ Placed(view')
    BY <1>0, <2>1 DEF Views, Placed
  <2> QED BY <1>1, <2>1, <2>2 DEF ViewInv
<1>6. CASE SelectPrevious
  <2>1. UNCHANGED fileVars
    BY <1>6 DEF SelectPrevious, PanelIs
  <2> QED BY <1>0, <1>1, <1>6, <2>1, PreviousSelected DEF ViewInv
<1>7. CASE SelectNext
  <2>1. UNCHANGED fileVars
    BY <1>7 DEF SelectNext, PanelIs
  <2> QED BY <1>0, <1>1, <1>7, <2>1, NextSelected DEF ViewInv
<1>8. CASE UNCHANGED logVars
  BY <1>0, <1>1, <1>8 DEF logVars, ViewInv
<1> QED BY <1>2, <1>3, <1>4, <1>5, <1>6, <1>7, <1>8 DEF LogNext, ViewNext

LEMMA ViewInvariant == LogSpec => []ViewInv
<1>1. LogInit => ViewInv
  BY ViewInit
<1>2. ViewInv /\ [LogNext]_logVars => ViewInv'
  BY ViewNextInv
<1> QED BY <1>1, <1>2, PTL DEF LogSpec

\* The log file and the panel are well typed: the flock is held exactly between
\* the two ends of an append or a pruning (logging.rs), and the selection and
\* the scroll offset are places among the counted lines (logs.rs).
THEOREM PanelTypes == LogSpec => []LogTypeOK
<1>1. ViewInv => LogTypeOK
  <2> SUFFICES ASSUME ViewInv PROVE LogTypeOK
    OBVIOUS
  <2>1. /\ view \in Views /\ Placed(view) /\ FileTypeOK
        /\ view.total \in Nat /\ view.selected \in Int /\ view.from \in Nat /\ view.scroll \in Nat
    BY DEF ViewInv, LogInv, Views
  <2>2. Less(view.total, 1) = IF view.total >= 1 THEN view.total - 1 ELSE 0
    BY <2>1, LessIs
  <2> DEFINE last == Less(view.total, 1)
  <2> HIDE DEF last
  <2>3. /\ view.selected \in -1 .. last /\ (view.total = 0 => view.selected = -1)
        /\ view.from \in 0 .. view.total /\ view.scroll \in 0 .. last
    BY <2>1, <2>2 DEF Placed, last
  <2> QED BY <2>1, <2>3 DEF LogTypeOK, NoLine, Views, last
<1> QED BY <1>1, ViewInvariant, PTL

\* Appends and prunings of any number of processes (append_locked and
\* prune_old_entries) do not undo each other: unless one was killed between two
\* of its writes, every line that no pruning had to drop is in the file, once
\* and in the order of logging.
THEOREM LinesAreKept == LogSpec => []LinesKept
<1>1. ViewInv => LinesKept
  BY DEF ViewInv, LogInv, Whole, LinesKept
<1> QED BY <1>1, ViewInvariant, PTL

\* A refresh draws what is in the file, with the selected line on the screen,
\* and keeps that line selected wherever it is now (refresh_log_history).
THEOREM DrawsWhatIsThere == LogSpec => DrawsTheFile
<1> DEFINE Drawing ==
      (Tick \/ ToggleLevel) =>
        /\ view'.window = Lines(view', view'.from, Len(view'.window))
        /\ view'.selected # NoLine =>
            /\ Shown(view', view'.selected) # {}
            /\ view'.selected \in view'.scroll .. view'.scroll + Rows(view') - 1
        /\ ~view.follow /\ view.selected # NoLine =>
            \A line \in Shown(view, view.selected) :
                line \in Range(VisibleTo(view'))
                  => Shown(view', view'.selected) = {line}
<1>1. ViewInv => Drawing
  <2> SUFFICES ASSUME ViewInv, Tick \/ ToggleLevel
               PROVE  /\ view'.window = Lines(view', view'.from, Len(view'.window))
                      /\ view'.selected # -1 =>
                          /\ Shown(view', view'.selected) # {}
                          /\ view'.selected \in view'.scroll
                                                  .. view'.scroll + Rows(view') - 1
                      /\ ~view.follow /\ view.selected # -1 =>
                          \A line \in Shown(view, view.selected) :
                              line \in Range(VisibleTo(view'))
                                => Shown(view', view'.selected) = {line}
    BY DEF NoLine
  <2>1. /\ Chunk \in Nat /\ file \in Seq(Line)
        /\ view.selected >= -1
    BY ViewAssumption DEF ViewInv, LogInv, FileTypeOK, Placed
  <2>2. PICK v \in Views : /\ v.show = view'.show /\ v.follow = view.follow
                           /\ v.selected = view.selected /\ v.from = view.from
                           /\ v.window = view.window
                           /\ view' = RefreshHistory(v)
    BY <2>1, RefreshingStep
  <2>3. Drawn(view')
        /\ (~view.follow /\ view.selected # -1 => \A line \in Shown(v, v.selected) :
             line \in Range(VisibleTo(v)) =>
               view'.selected >= 0 /\ VisibleTo(v)[view'.selected + 1] = line)
    BY <2>1, <2>2, Refreshed
  <2>4. view'.window = Lines(view', view'.from, Len(view'.window))
    BY <2>1, <2>3, DrawnWindow
  <2>5. ASSUME view'.selected # -1
        PROVE  /\ Shown(view', view'.selected) # {}
               /\ view'.selected \in view'.scroll .. view'.scroll + Rows(view') - 1
    <3>1. view' \in Views /\ OnScreen(view')
      BY <2>3, <2>5 DEF Drawn
    <3>2. /\ view'.selected \in Int /\ view'.scroll \in Nat /\ Rows(view') \in Nat
      BY <3>1, RowsAre DEF Views
    <3>3. Shown(view', view'.selected) = {view'.window[view'.selected - view'.from + 1]}
      BY <3>1, <3>2, ShownIs DEF OnScreen
    <3>4. view'.selected \in view'.scroll .. view'.scroll + Rows(view') - 1
      BY <3>1, <3>2 DEF OnScreen
    <3> QED BY <3>3, <3>4
  <2>6. ASSUME ~view.follow, view.selected # -1, NEW line \in Shown(view, view.selected),
               line \in Range(VisibleTo(view'))
        PROVE  Shown(view', view'.selected) = {line}
    <3>1. VisibleTo(v) = VisibleTo(view')
      BY <2>2, SameVisible
    <3>2. Shown(v, v.selected) = Shown(view, view.selected)
      BY <2>2 DEF Shown
    <3>3. view'.selected >= 0 /\ VisibleTo(view')[view'.selected + 1] = line
      BY <2>3, <2>6, <3>1, <3>2
    <3> QED BY <2>3, <3>3, DrawnLine
  <2> QED BY <2>4, <2>5, <2>6
<1>2. ViewInv => [Drawing]_logVars
  BY <1>1
<1> QED BY <1>2, ViewInvariant, PTL DEF DrawsTheFile

-----------------------------------------------------------------------------
(* The terminal interface: types.                                           *)

Param == ParamKeys \X Value
Table == Seq(Param)
Docs  == UNION {DocumentWith(S) : S \in SUBSET Entry}

ParamRow == [key : ParamKeys, value : Value, set : BOOLEAN]
Panel    == [entries : Seq(ParamRow), selected : Nat]

Modes ==
  [is : {"Normal", "Help", "EditingSeparator", "NamingPreset", "ChoosingInstallKind"}]
    \cup [is : {"EnteringInstall"}, what : {"module", "extension"}]
    \cup [is : {"AddingModule"}, selected : Nat]
    \cup [is : {"NamingModuleInstance"}, kind : Range(Kinds)]
    \cup [is : {"ConfirmingRemove"}, index : Nat, name : Entry]
    \cup [is : {"AddingParamKey"}, section : Entry]
    \cup [is : {"EditingParamValue"}, section : Entry, key : ParamKeys,
          expect : Value \cup {KeyAbsent}]
    \cup [is : {"ConfirmingRemoveParam", "RenamingParamKey"}, section : Entry,
          key : ParamKeys]
    \cup [is : {"ConfirmingRemovePreset"}, name : Names]
    \cup [is : {"ChoosingPreset"}, names : Seq(Names), selected : Nat]

Apps ==
  [active : Names \cup {None}, modules : Seq(Entry) \cup {None},
   separator : Texts \cup {None}, cache : Docs \cup {None}, selected : Nat,
   params : Panel \cup {None}, schema : [Range(Kinds) -> {"unknown", "known", "failed"}],
   focus : {"Modules", "Extensions", "Params", "Logs"}, detail : {"Module", "Extension"},
   listed : 0 .. MaxExtensions, extSelected : Nat, mode : Modes]

\* The values that stand for nothing.
LEMMA Nothing ==
  /\ {Absent, Broken, Refused, None} \cap Docs = {}
  /\ {Absent, Broken, None} \cap Names = {}
  /\ None \notin Entry /\ None \notin Seq(Entry) /\ NotArray \notin Seq(Entry)
  /\ NotTable \notin Table /\ KeyAbsent \notin Value
  /\ None \notin ParamRow /\ None \notin Panel
<1>1. {Absent, Broken, Refused, None} \cap Docs = {}
  BY NothingAssumption DEF Docs, IsDocument
<1> QED BY <1>1, NothingAssumption, TuiAssumption DEF Param, Table, ParamRow, Panel

LEMMA DocsAre ==
  /\ \A d : d \in Docs <=> IsDocument(d)
  /\ \A d \in Initial \cup Documents : d \in Docs
<1>1. \A d : d \in Docs <=> IsDocument(d)
  BY DEF Docs, IsDocument
<1> QED BY <1>1, TuiAssumption

\* The parts of a document.
LEMMA PartsOf ==
  ASSUME NEW d \in Docs
  PROVE  /\ d.separator \in Texts
         /\ d.modules \in Seq(Entry) \cup {NotArray}
         /\ DOMAIN d.sections \subseteq Entry
         /\ d.sections \in [DOMAIN d.sections -> Table \cup {NotTable}]
         /\ d = [separator |-> d.separator, modules |-> d.modules, sections |-> d.sections]
<1>1. PICK S \in SUBSET Entry : d \in DocumentWith(S)
  BY DEF Docs
<1>2. /\ d.separator \in Texts /\ d.modules \in Seq(Entry) \cup {NotArray}
      /\ d.sections \in [S -> Table \cup {NotTable}]
      /\ d = [separator |-> d.separator, modules |-> d.modules, sections |-> d.sections]
  BY <1>1 DEF DocumentWith, Table, Param
<1>3. DOMAIN d.sections = S
  BY <1>2
<1> QED BY <1>2, <1>3

\* A document with another list, separator or section.
LEMMA DocumentOf ==
  ASSUME NEW sep \in Texts, NEW list \in Seq(Entry) \cup {NotArray},
         NEW S \in SUBSET Entry, NEW sections \in [S -> Table \cup {NotTable}]
  PROVE  [separator |-> sep, modules |-> list, sections |-> sections] \in Docs
<1>1. [separator |-> sep, modules |-> list, sections |-> sections] \in DocumentWith(S)
  BY DEF DocumentWith, Table, Param
<1> QED BY <1>1 DEF Docs

LEMMA NewSeparator ==
  ASSUME NEW d \in Docs, NEW sep \in Texts
  PROVE  [d EXCEPT !.separator = sep] \in Docs
<1>1. [d EXCEPT !.separator = sep]
        = [separator |-> sep, modules |-> d.modules, sections |-> d.sections]
  BY PartsOf
<1>2. /\ DOMAIN d.sections \in SUBSET Entry /\ d.modules \in Seq(Entry) \cup {NotArray}
      /\ d.sections \in [DOMAIN d.sections -> Table \cup {NotTable}]
  BY PartsOf
<1>3. [separator |-> sep, modules |-> d.modules, sections |-> d.sections] \in Docs
  BY <1>2, DocumentOf
<1> QED BY <1>1, <1>3

LEMMA NewList ==
  ASSUME NEW d \in Docs, NEW list \in Seq(Entry)
  PROVE  [d EXCEPT !.modules = list] \in Docs
<1>1. [d EXCEPT !.modules = list]
        = [separator |-> d.separator, modules |-> list, sections |-> d.sections]
  BY PartsOf
<1>2. /\ DOMAIN d.sections \in SUBSET Entry /\ d.separator \in Texts
      /\ d.sections \in [DOMAIN d.sections -> Table \cup {NotTable}]
      /\ list \in Seq(Entry) \cup {NotArray}
  BY PartsOf
<1>3. [separator |-> d.separator, modules |-> list, sections |-> d.sections] \in Docs
  BY <1>2, DocumentOf
<1> QED BY <1>1, <1>3

\* Nothing but one section differs.
OneSection(d, new, section) ==
  /\ new.modules = d.modules /\ new.separator = d.separator
  /\ DOMAIN new.sections = DOMAIN d.sections \cup {section}
  /\ \A s \in DOMAIN d.sections \ {section} : new.sections[s] = d.sections[s]

\* SetSection changes one section.
LEMMA NewSection ==
  ASSUME NEW d \in Docs, NEW section \in Entry, NEW table \in Table
  PROVE  LET new == SetSection(d, section, table)
         IN  new \in Docs /\ OneSection(d, new, section) /\ RowsIn(new, section) = table
<1> DEFINE sections == [s \in DOMAIN d.sections \cup {section} |->
                           IF s = section THEN table ELSE d.sections[s]]
           new == [separator |-> d.separator, modules |-> d.modules, sections |-> sections]
<1>1. SetSection(d, section, table) = new
  BY PartsOf DEF SetSection
<1>2. /\ DOMAIN d.sections \cup {section} \in SUBSET Entry /\ d.separator \in Texts
      /\ d.modules \in Seq(Entry) \cup {NotArray}
      /\ sections \in [DOMAIN d.sections \cup {section} -> Table \cup {NotTable}]
  BY PartsOf
<1>3. /\ \A s \in DOMAIN d.sections \ {section} : sections[s] = d.sections[s]
      /\ DOMAIN sections = DOMAIN d.sections \cup {section}
      /\ sections[section] = table
  OBVIOUS
<1> HIDE DEF sections
<1>4. new \in Docs
  BY <1>2, DocumentOf
<1>5. new.modules = d.modules /\ new.separator = d.separator /\ new.sections = sections
  OBVIOUS
<1> HIDE DEF new
<1>6. OneSection(d, new, section)
  BY <1>3, <1>5 DEF OneSection
<1>7. RowsIn(new, section) = table
  BY <1>3, <1>5, Nothing DEF RowsIn, HasTable
<1> QED BY <1>1, <1>4, <1>6, <1>7

-----------------------------------------------------------------------------
(* The terminal interface: what is selected, and its parameters.            *)

SelectionFits(a) ==
  /\ a.selected = 0 <=> a.modules \in {None, <<>>}
  /\ a.selected # 0 => a.selected \in DOMAIN a.modules

\* A panel shows the parameters of an entry in a document: those that are set,
\* then defaults.
PanelShows(p, doc, entry) ==
  LET loaded == ParamEntries(doc, entry, FALSE)
  IN  /\ p.selected \in IF p.entries = <<>> THEN {0} ELSE DOMAIN p.entries
      /\ SubSeq(p.entries, 1, Len(loaded)) = loaded
      /\ \A k \in DOMAIN p.entries : p.entries[k].set <=> k <= Len(loaded)

ParamsFit(a) ==
  /\ a.params = None <=> SelectedEntry(a) = None
  /\ a.params # None => a.cache \in Docs /\ PanelShows(a.params, a.cache, SelectedEntry(a))

\* The selected entry is none, or the one at the selected place.
LEMMA Selection ==
  ASSUME NEW a \in Apps, SelectionFits(a)
  PROVE  /\ SelectedEntry(a) \in Entry \cup {None}
         /\ SelectedEntry(a) = None <=> a.selected = 0
         /\ SelectedEntry(a) # None =>
              /\ a.modules \in Seq(Entry) /\ a.selected \in 1 .. Len(a.modules)
              /\ SelectedEntry(a) = a.modules[a.selected]
<1>1. a.modules \in Seq(Entry) \cup {None} /\ a.selected \in Nat
  BY DEF Apps
<1>2. CASE a.modules = None
  <2>1. a.selected = 0 /\ SelectedEntry(a) = None
    BY <1>2 DEF SelectionFits, SelectedEntry
  <2> QED BY <2>1
<1>3. CASE a.modules # None
  <2>1. a.modules \in Seq(Entry)
    BY <1>1, <1>3
  <2>2. CASE a.selected = 0
    <3>1. a.selected \notin DOMAIN a.modules
      BY <2>1, <2>2
    <3>2. SelectedEntry(a) = None
      BY <1>3, <3>1 DEF SelectedEntry
    <3> QED BY <2>2, <3>2
  <2>3. CASE a.selected # 0
    <3>1. a.selected \in 1 .. Len(a.modules)
      BY <2>1, <2>3 DEF SelectionFits
    <3>2. SelectedEntry(a) = a.modules[a.selected] /\ a.modules[a.selected] \in Entry
      BY <1>3, <2>1, <3>1 DEF SelectedEntry
    <3> QED BY <2>1, <2>3, <3>1, <3>2, Nothing
  <2> QED BY <2>2, <2>3
<1> QED BY <1>2, <1>3

\* It depends on the list and the place only.
LEMMA SameSelection ==
  ASSUME NEW a, NEW b, b.modules = a.modules, b.selected = a.selected
  PROVE  SelectedEntry(b) = SelectedEntry(a) /\ (SelectionFits(b) <=> SelectionFits(a))
BY DEF SelectedEntry, SelectionFits

\* module_section_string_entries: the rows of a section.
LEMMA RowsOf ==
  ASSUME NEW doc \in Docs, NEW entry \in Entry, NEW known \in BOOLEAN
  PROVE  LET loaded == ParamEntries(doc, entry, FALSE)
             all    == ParamEntries(doc, entry, known)
         IN  /\ loaded \in Seq(ParamRow) /\ all \in Seq(ParamRow)
             /\ Len(loaded) <= Len(all)
             /\ SubSeq(all, 1, Len(loaded)) = loaded
             /\ \A k \in 1 .. Len(all) : all[k].set <=> k <= Len(loaded)
<1> DEFINE table == IF HasTable(doc, entry) THEN doc.sections[entry] ELSE <<>>
           explicit == ExplicitRows(table)
           absent == Only(SchemaKeys, Range(SchemaKeys) \ Keys(table))
           defaults == DefaultRows(absent)
<1>1. table \in Table
  <2>1. HasTable(doc, entry) => doc.sections[entry] \in Table
    BY PartsOf DEF HasTable
  <2> QED BY <2>1 DEF Table
<1>2. absent \in Seq(ParamKeys)
  BY OnlyRange, TuiAssumption
<1>3. ParamEntries(doc, entry, FALSE) = explicit
  BY DEF ParamEntries, RowsOfTable, SectionOf
<1>4. ParamEntries(doc, entry, TRUE) = explicit \o defaults
  BY DEF ParamEntries, RowsOfTable, SectionOf
<1> HIDE DEF table, absent
<1>5. explicit \in Seq(ParamRow) /\ \A k \in 1 .. Len(explicit) : explicit[k].set = TRUE
  <2> DEFINE n == Len(table)
             row(k) == [key |-> table[k][1], value |-> table[k][2], set |-> TRUE]
  <2>1. n \in Nat /\ DOMAIN table = 1 .. n
    BY <1>1 DEF Table
  <2>2. ASSUME NEW k \in 1 .. n PROVE row(k) \in ParamRow /\ row(k).set = TRUE
    <3>1. table[k] \in Param
      BY <1>1, <2>1 DEF Table
    <3> QED BY <3>1 DEF Param, ParamRow
  <2>3. explicit = [k \in 1 .. n |-> row(k)]
    BY <2>1 DEF ExplicitRows
  <2> HIDE DEF row, n, explicit
  <2>4. explicit \in [1 .. n -> ParamRow] /\ \A k \in 1 .. n : explicit[k].set = TRUE
    BY <2>2, <2>3
  <2>5. explicit \in Seq(ParamRow) /\ Len(explicit) = n
    BY <2>1, <2>4
  <2> QED BY <2>4, <2>5
<1>6. defaults \in Seq(ParamRow) /\ \A k \in 1 .. Len(defaults) : defaults[k].set = FALSE
  <2> DEFINE n == Len(absent)
             row(k) == [key |-> absent[k], value |-> DefaultText, set |-> FALSE]
  <2>1. n \in Nat /\ DOMAIN absent = 1 .. n
    BY <1>2
  <2>2. ASSUME NEW k \in 1 .. n PROVE row(k) \in ParamRow /\ row(k).set = FALSE
    <3>1. absent[k] \in ParamKeys /\ DefaultText \in Value
      BY <1>2, <2>1, TuiAssumption DEF Value
    <3> QED BY <3>1 DEF ParamRow
  <2>3. defaults = [k \in 1 .. n |-> row(k)]
    BY <2>1 DEF DefaultRows
  <2> HIDE DEF row, n, defaults
  <2>4. defaults \in [1 .. n -> ParamRow] /\ \A k \in 1 .. n : defaults[k].set = FALSE
    BY <2>2, <2>3
  <2>5. defaults \in Seq(ParamRow) /\ Len(defaults) = n
    BY <2>1, <2>4
  <2> QED BY <2>4, <2>5
<1> HIDE DEF explicit, defaults
<1>7. /\ explicit \o defaults \in Seq(ParamRow)
      /\ Len(explicit) <= Len(explicit \o defaults)
      /\ SubSeq(explicit \o defaults, 1, Len(explicit)) = explicit
  BY <1>5, <1>6
<1>8. ASSUME NEW k \in 1 .. Len(explicit \o defaults)
      PROVE  (explicit \o defaults)[k].set <=> k <= Len(explicit)
  <2>1. CASE k <= Len(explicit)
    <3>1. (explicit \o defaults)[k] = explicit[k] /\ k \in 1 .. Len(explicit)
      BY <1>5, <1>6, <2>1
    <3> QED BY <1>5, <2>1, <3>1
  <2>2. CASE ~(k <= Len(explicit))
    <3>1. /\ (explicit \o defaults)[k] = defaults[k - Len(explicit)]
          /\ k - Len(explicit) \in 1 .. Len(defaults)
      BY <1>5, <1>6, <2>2
    <3>2. (explicit \o defaults)[k].set = FALSE
      BY <1>6, <3>1
    <3> QED BY <2>2, <3>2
  <2> QED BY <2>1, <2>2
<1>9. /\ Len(explicit) <= Len(explicit) /\ SubSeq(explicit, 1, Len(explicit)) = explicit
      /\ \A k \in 1 .. Len(explicit) : explicit[k].set <=> k <= Len(explicit)
  BY <1>5
<1> QED BY <1>3, <1>4, <1>5, <1>7, <1>8, <1>9

\* A panel that shows the parameters of an entry has them from its rows.
LEMMA RowsShow ==
  ASSUME NEW doc \in Docs, NEW entry \in Entry, NEW known \in BOOLEAN, NEW n \in Nat,
         LET all == ParamEntries(doc, entry, known)
         IN  n \in IF all = <<>> THEN {0} ELSE DOMAIN all
  PROVE  LET p == [entries |-> ParamEntries(doc, entry, known), selected |-> n]
         IN  p \in Panel /\ PanelShows(p, doc, entry)
<1> DEFINE loaded == ParamEntries(doc, entry, FALSE)
           all    == ParamEntries(doc, entry, known)
           p      == [entries |-> all, selected |-> n]
<1>1. /\ loaded \in Seq(ParamRow) /\ all \in Seq(ParamRow)
      /\ SubSeq(all, 1, Len(loaded)) = loaded
      /\ \A k \in 1 .. Len(all) : all[k].set <=> k <= Len(loaded)
  BY RowsOf
<1>2. p.entries = all /\ p.selected = n
  OBVIOUS
<1> HIDE DEF loaded, all
<1>3. p \in Panel
  BY <1>1 DEF Panel
<1>4. n \in IF all = <<>> THEN {0} ELSE DOMAIN all
  BY DEF all
<1>5. DOMAIN all = 1 .. Len(all)
  BY <1>1
<1> HIDE DEF p
<1>6. /\ p.selected \in IF p.entries = <<>> THEN {0} ELSE DOMAIN p.entries
      /\ SubSeq(p.entries, 1, Len(loaded)) = loaded
      /\ \A k \in DOMAIN p.entries : p.entries[k].set <=> k <= Len(loaded)
  BY <1>1, <1>2, <1>4, <1>5
<1>7. PanelShows(p, doc, entry)
  BY <1>6 DEF PanelShows, loaded
<1> QED BY <1>3, <1>7 DEF p, all

\* RebuildFrom shows the parameters of the selected entry.
LEMMA RebuiltFrom ==
  ASSUME NEW a \in Apps, SelectionFits(a), NEW doc \in Docs, NEW reset \in BOOLEAN
  PROVE  \E p \in Panel \cup {None} :
           /\ RebuildFrom(a, doc, reset) = [a EXCEPT !.params = p]
           /\ p = None <=> SelectedEntry(a) = None
           /\ p # None => PanelShows(p, doc, SelectedEntry(a))
<1> DEFINE entry == SelectedEntry(a)
           known == a.schema[KindOf(entry)] = "known"
           all == ParamEntries(doc, entry, known)
           previous == IF a.params = None THEN 1 ELSE Max({a.params.selected, 1})
           n == IF all = <<>> THEN 0 ELSE IF reset THEN 1 ELSE Min({previous, Len(all)})
           p == [entries |-> all, selected |-> n]
<1>1. RebuildFrom(a, doc, reset)
        = IF entry = None THEN [a EXCEPT !.params = None] ELSE [a EXCEPT !.params = p]
  BY DEF RebuildFrom
<1>2. CASE entry = None
  BY <1>1, <1>2
<1>3. CASE entry # None
  <2>1. entry \in Entry
    BY <1>3, Selection
  <2>2. known \in BOOLEAN
    OBVIOUS
  <2> HIDE DEF entry, known
  <2>3. all \in Seq(ParamRow)
    BY <2>1, <2>2, RowsOf
  <2>4. previous \in Nat /\ previous >= 1
    <3>1. a.params \in Panel \cup {None}
      BY DEF Apps
    <3>2. CASE a.params = None
      BY <3>2
    <3>3. CASE a.params # None
      <4>1. a.params.selected \in Nat
        BY <3>1, <3>3 DEF Panel
      <4>2. Max({a.params.selected, 1})
              = IF a.params.selected >= 1 THEN a.params.selected ELSE 1
        BY <4>1, Max2
      <4> QED BY <3>3, <4>1, <4>2
    <3> QED BY <3>2, <3>3
  <2> HIDE DEF all, previous
  <2>5. n \in Nat /\ n \in IF all = <<>> THEN {0} ELSE DOMAIN all
    <3>1. CASE all = <<>>
      BY <3>1
    <3>2. CASE all # <<>>
      <4>1. Len(all) \in Nat /\ Len(all) >= 1 /\ DOMAIN all = 1 .. Len(all)
        BY <2>3, <3>2
      <4>2. Min({previous, Len(all)}) = IF previous <= Len(all) THEN previous ELSE Len(all)
        BY <2>4, <4>1, Min2
      <4> QED BY <2>4, <3>2, <4>1, <4>2
    <3> QED BY <3>1, <3>2
  <2> HIDE DEF n
  <2>6. p \in Panel /\ PanelShows(p, doc, entry)
    BY <2>1, <2>2, <2>5, RowsShow DEF all
  <2>7. p # None
    BY <2>6, Nothing
  <2> HIDE DEF p
  <2> QED BY <1>1, <1>3, <2>6, <2>7 DEF entry
<1> QED BY <1>2, <1>3

\* An App with other parameters: nothing else changes.
LEMMA OtherParams ==
  ASSUME NEW a \in Apps, NEW p \in Panel \cup {None}
  PROVE  LET b == [a EXCEPT !.params = p]
         IN  /\ b \in Apps /\ b.params = p
             /\ b.active = a.active /\ b.modules = a.modules /\ b.separator = a.separator
             /\ b.cache = a.cache /\ b.selected = a.selected /\ b.schema = a.schema
             /\ b.focus = a.focus /\ b.detail = a.detail /\ b.listed = a.listed
             /\ b.extSelected = a.extSelected /\ b.mode = a.mode
BY DEF Apps

\* Rebuild makes the parameters fit.
LEMMA Rebuilt ==
  ASSUME NEW a \in Apps, SelectionFits(a), a.modules # None => a.cache # None,
         NEW reset \in BOOLEAN
  PROVE  \E p \in Panel \cup {None} :
           Rebuild(a, reset) = [a EXCEPT !.params = p] /\ ParamsFit([a EXCEPT !.params = p])
<1>1. CASE a.cache = None
  <2>1. Rebuild(a, reset) = [a EXCEPT !.params = None]
    BY <1>1 DEF Rebuild
  <2> DEFINE b == [a EXCEPT !.params = None]
  <2>2. b.params = None /\ b.modules = a.modules
    BY OtherParams
  <2> HIDE DEF b
  <2>3. SelectedEntry(b) = None
    BY <1>1, <2>2 DEF SelectedEntry
  <2>4. ParamsFit(b)
    BY <2>2, <2>3 DEF ParamsFit
  <2> QED BY <2>1, <2>4 DEF b
<1>2. CASE a.cache # None
  <2>1. a.cache \in Docs
    BY <1>2 DEF Apps
  <2>2. Rebuild(a, reset) = RebuildFrom(a, a.cache, reset)
    BY <1>2 DEF Rebuild
  <2>3. PICK p \in Panel \cup {None} :
           /\ RebuildFrom(a, a.cache, reset) = [a EXCEPT !.params = p]
           /\ p = None <=> SelectedEntry(a) = None
           /\ p # None => PanelShows(p, a.cache, SelectedEntry(a))
    BY <2>1, RebuiltFrom
  <2> DEFINE b == [a EXCEPT !.params = p]
  <2>4. b.params = p /\ b.modules = a.modules /\ b.selected = a.selected /\ b.cache = a.cache
    BY OtherParams
  <2> HIDE DEF b
  <2>5. ParamsFit(b)
    BY <2>1, <2>3, <2>4, SameSelection DEF ParamsFit
  <2> QED BY <2>2, <2>3, <2>5 DEF b
<1> QED BY <1>1, <1>2

-----------------------------------------------------------------------------
(* The terminal interface: what a refresh leaves behind.                    *)

\* Nothing of a preset is left when none is active.
Inactive(a) ==
  a.active = None => {a.modules, a.cache, a.params, a.separator} = {None}

\* The copy of the preset, the selection in it and the parameters belong together.
Copied(a) ==
  /\ SelectionFits(a) /\ ParamsFit(a) /\ Inactive(a)
  /\ a.modules # None => a.cache # None

ExtensionsFit(a) == a.extSelected \in IF a.listed = 0 THEN {0} ELSE 1 .. a.listed

ParamModes ==
  {"AddingParamKey", "EditingParamValue", "ConfirmingRemoveParam", "RenamingParamKey"}

\* An overlay is about what is selected, a list has a selected place.
ModeFits(a) ==
  /\ a.mode.is = "ConfirmingRemove" =>
       a.mode.index = a.selected /\ a.mode.name = SelectedEntry(a)
  /\ a.mode.is \in ParamModes => a.mode.section = SelectedEntry(a)
  /\ a.mode.is = "ChoosingPreset" => a.mode.selected \in DOMAIN a.mode.names

Sound(a) == a \in Apps /\ Copied(a) /\ ExtensionsFit(a) /\ ModeFits(a)

\* What Copied is about.
SameCopy(a, b) ==
  /\ b.active = a.active /\ b.modules = a.modules /\ b.separator = a.separator
  /\ b.cache = a.cache /\ b.selected = a.selected /\ b.params = a.params

LEMMA StaysCopied ==
  ASSUME NEW a, NEW b, SameCopy(a, b)
  PROVE  SelectedEntry(b) = SelectedEntry(a) /\ (Copied(a) => Copied(b))
<1>1. SelectedEntry(b) = SelectedEntry(a) /\ (SelectionFits(b) <=> SelectionFits(a))
  BY SameSelection DEF SameCopy
<1>2. (ParamsFit(a) => ParamsFit(b)) /\ (Inactive(a) => Inactive(b))
  BY <1>1 DEF SameCopy, ParamsFit, Inactive
<1> QED BY <1>1, <1>2 DEF Copied, SameCopy

\* Rebuild keeps the rest of the copy.
LEMMA RebuiltCopy ==
  ASSUME NEW a \in Apps, SelectionFits(a), a.active # None,
         a.modules # None => a.cache # None, NEW reset \in BOOLEAN
  PROVE  LET b == Rebuild(a, reset)
         IN  /\ b \in Apps /\ Copied(b) /\ b.active = a.active /\ b.modules = a.modules
             /\ b.separator = a.separator /\ b.cache = a.cache /\ b.selected = a.selected
             /\ b.listed = a.listed /\ b.extSelected = a.extSelected /\ b.mode = a.mode
<1> DEFINE b == Rebuild(a, reset)
<1>1. PICK p \in Panel \cup {None} : b = [a EXCEPT !.params = p]
                                      /\ ParamsFit([a EXCEPT !.params = p])
  BY Rebuilt
<1>2. /\ b \in Apps /\ b.active = a.active /\ b.modules = a.modules
      /\ b.separator = a.separator /\ b.cache = a.cache /\ b.selected = a.selected
      /\ b.listed = a.listed /\ b.extSelected = a.extSelected /\ b.mode = a.mode
  BY <1>1, OtherParams
<1>3. ParamsFit(b)
  BY <1>1
<1> HIDE DEF b
<1>4. SelectionFits(b) /\ Inactive(b)
  BY <1>2, SameSelection DEF Inactive
<1>5. Copied(b)
  BY <1>2, <1>3, <1>4 DEF Copied
<1> QED BY <1>2, <1>5 DEF b

\* RefreshExtensions.
LEMMA ExtensionsRefreshed ==
  ASSUME NEW a \in Apps, NEW d, d.extensions \in 0 .. MaxExtensions
  PROVE  LET b == RefreshExtensions(a, d)
         IN  b \in Apps /\ ExtensionsFit(b) /\ SameCopy(a, b) /\ b.mode = a.mode
<1> DEFINE place == IF d.extensions = 0 THEN 0
                    ELSE Min({Max({a.extSelected, 1}), d.extensions})
           b == RefreshExtensions(a, d)
<1>1. b = [a EXCEPT !.listed = d.extensions, !.extSelected = place]
  BY DEF RefreshExtensions, Apps
<1>2. d.extensions \in Nat /\ a.extSelected \in Nat
  BY TuiAssumption DEF Apps
<1>3. place \in Nat /\ place \in IF d.extensions = 0 THEN {0} ELSE 1 .. d.extensions
  <2>1. CASE d.extensions = 0
    BY <2>1
  <2>2. CASE d.extensions # 0
    <3> DEFINE m == Max({a.extSelected, 1})
    <3>1. m = IF a.extSelected >= 1 THEN a.extSelected ELSE 1
      BY <1>2, Max2
    <3>2. m \in Nat /\ m >= 1
      BY <1>2, <3>1
    <3> HIDE DEF m
    <3>3. Min({m, d.extensions}) = IF m <= d.extensions THEN m ELSE d.extensions
      BY <1>2, <3>2, Min2
    <3>4. place = Min({m, d.extensions})
      BY <2>2 DEF m
    <3> QED BY <1>2, <2>2, <3>2, <3>3, <3>4
  <2> QED BY <2>1, <2>2
<1> HIDE DEF place, b
<1>4. /\ b \in Apps /\ b.listed = d.extensions /\ b.extSelected = place
      /\ SameCopy(a, b) /\ b.mode = a.mode
  BY <1>1, <1>3 DEF Apps, SameCopy
<1>5. ExtensionsFit(b)
  BY <1>3, <1>4 DEF ExtensionsFit
<1> QED BY <1>4, <1>5 DEF b

\* Cleared leaves nothing but the list of extensions and the overlay.
LEMMA ClearedApp ==
  ASSUME NEW a \in Apps
  PROVE  LET b == Cleared(a)
         IN  /\ b \in Apps /\ Copied(b) /\ b.active = a.active /\ b.mode = a.mode
             /\ b.modules = None /\ b.selected = 0 /\ b.params = None
<1> DEFINE b == Cleared(a)
<1>1. /\ b \in Apps /\ b.active = a.active /\ b.mode = a.mode
      /\ b.modules = None /\ b.selected = 0 /\ b.params = None /\ b.cache = None
      /\ b.separator = None
  BY DEF Cleared, Apps
<1> HIDE DEF b
<1>2. SelectedEntry(b) = None
  BY <1>1 DEF SelectedEntry
<1>3. Copied(b)
  BY <1>1, <1>2 DEF Copied, SelectionFits, ParamsFit, Inactive
<1> QED BY <1>1, <1>3 DEF b

\* A preset without a list of modules is kept, and nothing is selected.
LEMMA KeptWithoutList ==
  ASSUME NEW a \in Apps, a.active # None, NEW doc \in Docs
  PROVE  LET b == [Cleared(a) EXCEPT !.separator = doc.separator, !.cache = doc]
         IN  /\ b \in Apps /\ Copied(b) /\ b.active = a.active /\ b.mode = a.mode
             /\ b.cache = doc
<1> DEFINE c == Cleared(a)
           b == [c EXCEPT !.separator = doc.separator, !.cache = doc]
<1>1. /\ c \in Apps /\ c.active = a.active /\ c.mode = a.mode
      /\ c.modules = None /\ c.selected = 0 /\ c.params = None
  BY ClearedApp
<1>2. doc.separator \in Texts
  BY PartsOf
<1> HIDE DEF c
<1>3. /\ b \in Apps /\ b.active = a.active /\ b.mode = a.mode /\ b.cache = doc
      /\ b.modules = None /\ b.selected = 0 /\ b.params = None
  BY <1>1, <1>2 DEF Apps
<1> HIDE DEF b
<1>4. SelectedEntry(b) = None
  BY <1>3 DEF SelectedEntry
<1>5. Copied(b)
  BY <1>3, <1>4 DEF Copied, SelectionFits, ParamsFit, Inactive
<1> QED BY <1>3, <1>5 DEF b, c

\* Loaded: the selection is fitted to the list that was read.
LEMMA LoadedApp ==
  ASSUME NEW a \in Apps, a.active # None, NEW doc \in Docs, doc.modules \in Seq(Entry)
  PROVE  LET b == Loaded(a, doc)
         IN  /\ b \in Apps /\ Copied(b) /\ b.active = a.active /\ b.mode = a.mode
             /\ b.cache = doc
<1> DEFINE place == IF doc.modules = <<>> THEN 0
                    ELSE Min({Max({a.selected, 1}), Len(doc.modules)})
           fitted == [a EXCEPT !.modules = doc.modules, !.selected = place]
           pruned == [fitted EXCEPT !.schema =
                       [k \in DOMAIN @ |-> IF k \in ConfiguredKinds(fitted) THEN @[k]
                                           ELSE "unknown"]]
           reset  == SelectedEntry(a) # SelectedEntry(pruned)
           built  == RebuildFrom(pruned, doc, reset)
           b      == Loaded(a, doc)
<1>1. b = [built EXCEPT !.separator = doc.separator, !.cache = doc,
                        !.focus = IF built.selected = 0 THEN "Modules" ELSE @]
  BY Zenon DEF Loaded
<1>2. place \in Nat /\ place \in IF doc.modules = <<>> THEN {0} ELSE 1 .. Len(doc.modules)
  <2>1. CASE doc.modules = <<>>
    BY <2>1
  <2>2. CASE doc.modules # <<>>
    <3> DEFINE m == Max({a.selected, 1})
               len == Len(doc.modules)
    <3>1. a.selected \in Nat /\ len \in Nat /\ len >= 1
      BY <2>2 DEF Apps
    <3>2. m = IF a.selected >= 1 THEN a.selected ELSE 1
      BY <3>1, Max2
    <3>3. m \in Nat /\ m >= 1
      BY <3>1, <3>2
    <3>4. place = Min({m, len})
      BY <2>2
    <3> HIDE DEF m, len
    <3>5. Min({m, len}) = IF m <= len THEN m ELSE len
      BY <3>1, <3>3, Min2
    <3>6. place \in 1 .. len
      BY <3>1, <3>3, <3>4, <3>5
    <3> QED BY <2>2, <3>6 DEF len
  <2> QED BY <2>1, <2>2
<1> HIDE DEF place
<1>3. /\ fitted \in Apps /\ fitted.modules = doc.modules /\ fitted.selected = place
      /\ fitted.active = a.active /\ fitted.mode = a.mode
  BY <1>2 DEF Apps
<1> HIDE DEF fitted
<1>4. /\ pruned \in Apps /\ pruned.modules = doc.modules /\ pruned.selected = place
      /\ pruned.active = a.active /\ pruned.mode = a.mode
  BY <1>3 DEF Apps
<1> HIDE DEF pruned
<1>5. SelectionFits(pruned)
  BY <1>2, <1>4, Nothing DEF SelectionFits
<1>6. reset \in BOOLEAN
  OBVIOUS
<1> HIDE DEF reset
<1>7. PICK p \in Panel \cup {None} :
           /\ built = [pruned EXCEPT !.params = p]
           /\ p = None <=> SelectedEntry(pruned) = None
           /\ p # None => PanelShows(p, doc, SelectedEntry(pruned))
  BY <1>4, <1>5, <1>6, RebuiltFrom
<1> HIDE DEF built
<1>8. /\ built \in Apps /\ built.params = p /\ built.modules = doc.modules
      /\ built.selected = place /\ built.active = a.active /\ built.mode = a.mode
  BY <1>4, <1>7, OtherParams
<1>9. doc.separator \in Texts
  BY PartsOf
<1> HIDE DEF b
<1>10. /\ b \in Apps /\ b.params = p /\ b.modules = doc.modules /\ b.selected = place
       /\ b.active = a.active /\ b.mode = a.mode /\ b.cache = doc
  BY <1>1, <1>8, <1>9, ZenonT(30) DEF Apps
<1>11. /\ SelectedEntry(b) = SelectedEntry(pruned) /\ SelectionFits(b)
  BY <1>4, <1>5, <1>10, SameSelection
<1>12. ParamsFit(b) /\ Inactive(b) /\ b.cache # None
  BY <1>7, <1>10, <1>11, Nothing DEF ParamsFit, Inactive
<1> QED BY <1>10, <1>11, <1>12 DEF Copied, b

\* The files, as far as the interface reads them.
DiskTypes(d) ==
  /\ d.pointer \in Names \cup {None}
  /\ d.presets \in [Names -> Docs \cup {Absent, Broken}]
  /\ d.extensions \in 0 .. MaxExtensions

\* The list of presets has all there are.
LEMMA ListedAre ==
  ASSUME NEW d
  PROVE  /\ ListedNames(d) \in Seq(Names)
         /\ Range(ListedNames(d)) = ExistingIn(d)
         /\ ListedNames(d) = <<>> <=> ExistingIn(d) = {}
<1> DEFINE list == ListedNames(d)
<1>1. list \in Seq(Names) /\ Range(list) = Names \cap ExistingIn(d)
  BY OnlyRange, TuiAssumption DEF ListedNames
<1>2. ExistingIn(d) \subseteq Names
  BY DEF ExistingIn
<1> HIDE DEF list
<1>3. list = <<>> <=> Range(list) = {}
  <2>1. CASE list = <<>>
    <3>1. DOMAIN list = {}
      BY <2>1
    <3> QED BY <2>1, <3>1 DEF Range
  <2>2. CASE list # <<>>
    <3>1. 1 \in DOMAIN list
      BY <1>1, <2>2
    <3> QED BY <2>2, <3>1 DEF Range
  <2> QED BY <2>1, <2>2
<1> QED BY <1>1, <1>2, <1>3 DEF list

\* The overlays an App may have while it is refreshed, and the list of presets.
PresetMode(m) ==
  /\ m \in Modes /\ m.is \in {"Normal", "ChoosingPreset"}
  /\ m.is = "ChoosingPreset" => m.selected \in DOMAIN m.names

LEMMA NormalMode == PresetMode(Normal) /\ Normal.is = "Normal"
BY DEF PresetMode, Normal, Modes

LEMMA ListMode ==
  ASSUME NEW d, ListedNames(d) # <<>>
  PROVE  LET m == [is |-> "ChoosingPreset", names |-> ListedNames(d), selected |-> 1]
         IN  PresetMode(m)
<1>1. ListedNames(d) \in Seq(Names) /\ 1 \in DOMAIN ListedNames(d)
  BY ListedAre
<1> QED BY <1>1 DEF PresetMode, Modes

\* An overlay that is about no module fits whatever is selected.
LEMMA PresetModeFits ==
  ASSUME NEW a, PresetMode(a.mode)
  PROVE  ModeFits(a)
BY DEF PresetMode, ModeFits, ParamModes

LEMMA OtherMode ==
  ASSUME NEW a \in Apps, NEW m \in Modes
  PROVE  LET b == [a EXCEPT !.mode = m]
         IN  /\ b \in Apps /\ b.mode = m /\ SameCopy(a, b)
             /\ (Copied(a) => Copied(b)) /\ (ExtensionsFit(a) => ExtensionsFit(b))
             /\ b.focus = a.focus /\ b.schema = a.schema
<1> DEFINE b == [a EXCEPT !.mode = m]
<1>1. /\ b \in Apps /\ b.mode = m /\ SameCopy(a, b)
      /\ b.listed = a.listed /\ b.extSelected = a.extSelected
      /\ b.focus = a.focus /\ b.schema = a.schema
  BY DEF Apps, SameCopy
<1> HIDE DEF b
<1>2. (Copied(a) => Copied(b)) /\ (ExtensionsFit(a) => ExtensionsFit(b))
  BY <1>1, StaysCopied DEF ExtensionsFit
<1> QED BY <1>1, <1>2 DEF b

\* DropStale changes the overlay only.
LEMMA StaleDropped ==
  ASSUME NEW a \in Apps, PresetMode(a.mode), NEW d
  PROVE  \E m : PresetMode(m) /\ DropStale(a, d) = [a EXCEPT !.mode = m]
<1> DEFINE list == [is |-> "ChoosingPreset", names |-> ListedNames(d), selected |-> 1]
           gone == [a EXCEPT !.mode = Normal]
<1>1. a = [a EXCEPT !.mode = a.mode]
  BY DEF Apps
<1>2. CASE a.mode.is = "Normal"
  <2>1. DropStale(a, d) \in {a, gone}
    BY <1>2 DEF DropStale
  <2> QED BY <1>1, <2>1, NormalMode
<1>3. CASE a.mode.is = "ChoosingPreset"
  <2>1. CASE d.pointer # None /\ ExistingIn(d) # {}
    <3>1. PresetMode(list)
      BY <2>1, ListMode, ListedAre
    <3>2. DropStale(a, d) \in {a, gone, [a EXCEPT !.mode = list]}
      BY <1>3 DEF DropStale
    <3> QED BY <1>1, <3>1, <3>2, NormalMode
  <2>2. CASE ~(d.pointer # None /\ ExistingIn(d) # {})
    <3>1. DropStale(a, d) = gone
      BY <1>3, <2>2 DEF DropStale
    <3> QED BY <3>1, NormalMode
  <2> QED BY <2>1, <2>2
<1> QED BY <1>2, <1>3 DEF PresetMode

\* Refresh leaves a sound App that shows the active preset.
LEMMA RefreshedApp ==
  ASSUME NEW a \in Apps, PresetMode(a.mode), NEW d, DiskTypes(d)
  PROVE  LET b == Refresh(a, d)
         IN  /\ Sound(b) /\ PresetMode(b.mode) /\ b.active = ActiveIn(d)
             /\ b.active # None /\ d.presets[b.active] \in Docs
                  => b.cache = d.presets[b.active]
<1> DEFINE found == [a EXCEPT !.active = ActiveIn(d)]
           doc   == d.presets[found.active]
           read  == IF found.active = None THEN Cleared(found)
                    ELSE IF doc = Broken THEN Cleared(found)
                    ELSE IF doc.modules = NotArray
                    THEN [Cleared(found) EXCEPT !.separator = doc.separator, !.cache = doc]
                    ELSE Loaded(found, doc)
           with  == RefreshExtensions(read, d)
           b     == Refresh(a, d)
<1>1. b = DropStale(with, d)
  BY DEF Refresh
<1>2. /\ ActiveIn(d) \in Names \cup {None}
      /\ ActiveIn(d) # None => d.presets[ActiveIn(d)] \in Docs \cup {Broken}
  BY DEF ActiveIn, ExistingIn, DiskTypes
<1>3. found \in Apps /\ found.active = ActiveIn(d) /\ found.mode = a.mode
  BY <1>2 DEF Apps
<1> HIDE DEF found
<1>4. /\ read \in Apps /\ Copied(read) /\ read.active = ActiveIn(d) /\ read.mode = a.mode
      /\ ActiveIn(d) # None /\ d.presets[ActiveIn(d)] \in Docs
           => read.cache = d.presets[ActiveIn(d)]
  <2>1. CASE found.active = None
    <3>1. read = Cleared(found)
      BY <2>1
    <3> QED BY <1>3, <2>1, <3>1, ClearedApp
  <2>2. CASE found.active # None /\ doc = Broken
    <3>1. read = Cleared(found)
      BY <2>2
    <3>2. d.presets[ActiveIn(d)] \notin Docs
      BY <1>3, <2>2, Nothing
    <3> QED BY <1>3, <3>1, <3>2, ClearedApp
  <2>3. CASE found.active # None /\ doc # Broken
    <3>1. doc \in Docs /\ doc = d.presets[ActiveIn(d)]
      BY <1>2, <1>3, <2>3
    <3> HIDE DEF doc
    <3>2. CASE doc.modules = NotArray
      <4>1. read = [Cleared(found) EXCEPT !.separator = doc.separator, !.cache = doc]
        BY <2>3, <3>2
      <4> HIDE DEF read
      <4> QED BY <1>3, <2>3, <3>1, <4>1, KeptWithoutList
    <3>3. CASE doc.modules # NotArray
      <4>1. read = Loaded(found, doc)
        BY <2>3, <3>3
      <4>2. doc.modules \in Seq(Entry)
        BY <3>1, <3>3, PartsOf
      <4> HIDE DEF read
      <4> QED BY <1>3, <2>3, <3>1, <4>1, <4>2, LoadedApp
    <3> QED BY <3>2, <3>3
  <2> QED BY <2>1, <2>2, <2>3
<1> HIDE DEF read
<1>5. with \in Apps /\ ExtensionsFit(with) /\ SameCopy(read, with) /\ with.mode = a.mode
  BY <1>4, ExtensionsRefreshed DEF DiskTypes
<1> HIDE DEF with
<1>6. Copied(with)
  BY <1>4, <1>5, StaysCopied
<1>7. PICK m : PresetMode(m) /\ b = [with EXCEPT !.mode = m]
  BY <1>1, <1>5, StaleDropped
<1>8. m \in Modes
  BY <1>7 DEF PresetMode
<1>9. b \in Apps /\ b.mode = m /\ SameCopy(with, b) /\ Copied(b) /\ ExtensionsFit(b)
  BY <1>5, <1>6, <1>7, <1>8, OtherMode
<1> HIDE DEF b
<1>10. PresetMode(b.mode) /\ ModeFits(b)
  BY <1>7, <1>9, PresetModeFits
<1>11. b.active = read.active /\ b.cache = read.cache
  BY <1>5, <1>9 DEF SameCopy
<1> QED BY <1>4, <1>9, <1>10, <1>11 DEF Sound, b

\* Ensure refreshes an App that shows another preset.
LEMMA EnsuredApp ==
  ASSUME NEW a, Sound(a), PresetMode(a.mode), DiskTypes(Disk)
  PROVE  LET b == Ensure(a)
         IN  /\ Sound(b) /\ PresetMode(b.mode) /\ b.active = ActiveIn(Disk)
             /\ b = a \/ (b.active # None /\ presets[b.active] \in Docs
                            => b.cache = presets[b.active])
<1>1. CASE a.active = ActiveIn(Disk)
  BY <1>1 DEF Ensure
<1>2. CASE a.active # ActiveIn(Disk)
  <2>1. Ensure(a) = Refresh(a, Disk)
    BY <1>2 DEF Ensure
  <2>2. Disk.presets = presets
    BY DEF Disk
  <2>3. a \in Apps
    BY DEF Sound
  <2> QED BY <2>1, <2>2, <2>3, RefreshedApp
<1> QED BY <1>1, <1>2

-----------------------------------------------------------------------------
(* The terminal interface: the changes to a document.                       *)

\* A changed list of modules.
LEMMA ListWritten ==
  ASSUME NEW d \in Docs, NEW list \in Seq(Entry)
  PROVE  LET new == [d EXCEPT !.modules = list]
         IN  /\ new \in Docs /\ new.modules = list
             /\ new.sections = d.sections /\ new.separator = d.separator
<1>1. d = [separator |-> d.separator, modules |-> d.modules, sections |-> d.sections]
  BY PartsOf
<1>2. [d EXCEPT !.modules = list]
        = [separator |-> d.separator, modules |-> list, sections |-> d.sections]
  BY <1>1
<1> QED BY <1>2, NewList

LEMMA SeparatorWritten ==
  ASSUME NEW d \in Docs, NEW text \in Texts
  PROVE  LET new == WriteSeparator(d, text)
         IN  /\ new \in Docs /\ new.modules = d.modules
             /\ new.sections = d.sections /\ new.separator = text
<1>1. d = [separator |-> d.separator, modules |-> d.modules, sections |-> d.sections]
  BY PartsOf
<1>2. WriteSeparator(d, text)
        = [separator |-> text, modules |-> d.modules, sections |-> d.sections]
  BY <1>1 DEF WriteSeparator
<1>3. WriteSeparator(d, text) \in Docs
  BY NewSeparator DEF WriteSeparator
<1> QED BY <1>2, <1>3

LEMMA OrderWritten ==
  ASSUME NEW d \in Docs, NEW order \in Seq(Entry), WriteModuleOrder(d, order) # Refused
  PROVE  LET new == WriteModuleOrder(d, order)
         IN  /\ new \in Docs /\ new.modules = order /\ SameEntries(d.modules, order)
             /\ new.sections = d.sections /\ new.separator = d.separator
<1>1. /\ WriteModuleOrder(d, order) = [d EXCEPT !.modules = order]
      /\ SameEntries(d.modules, order)
  BY DEF WriteModuleOrder
<1> QED BY <1>1, ListWritten

LEMMA ModuleAdded ==
  ASSUME NEW d \in Docs, NEW expected, NEW entry \in Entry,
         WriteModuleAdd(d, expected, entry) # Refused
  PROVE  LET new == WriteModuleAdd(d, expected, entry)
         IN  /\ expected = d.modules /\ expected \in Seq(Entry)
             /\ entry \notin Range(expected)
             /\ new \in Docs /\ new.modules = Append(expected, entry)
             /\ new.sections = d.sections /\ new.separator = d.separator
<1>1. d.modules # NotArray /\ d.modules = expected /\ ~Contains(expected, entry)
  BY DEF WriteModuleAdd
<1>2. expected \in Seq(Entry) /\ Append(expected, entry) \in Seq(Entry)
  BY <1>1, PartsOf
<1>3. WriteModuleAdd(d, expected, entry) = [d EXCEPT !.modules = Append(expected, entry)]
  <2>1. WriteModuleAdd(d, expected, entry) = [d EXCEPT !.modules = Append(@, entry)]
    BY Zenon DEF WriteModuleAdd
  <2> QED BY <1>1, <2>1
<1>4. entry \notin Range(expected)
  <2>1. DOMAIN expected = 1 .. Len(expected)
    BY <1>2
  <2> QED BY <1>1, <2>1 DEF Contains, Range
<1> DEFINE new == [d EXCEPT !.modules = Append(expected, entry)]
<1>5. /\ new \in Docs /\ new.modules = Append(expected, entry)
      /\ new.sections = d.sections /\ new.separator = d.separator
  BY <1>2, ListWritten
<1>6. WriteModuleAdd(d, expected, entry) = new
  BY <1>3
<1> HIDE DEF new
<1> QED BY <1>1, <1>2, <1>4, <1>5, <1>6

\* RemoveAt leaves a sequence that is one shorter.
LEMMA RemovedAt ==
  ASSUME NEW T, NEW s \in Seq(T), NEW k \in 1 .. Len(s)
  PROVE  RemoveAt(s, k) \in Seq(T) /\ Len(RemoveAt(s, k)) = Len(s) - 1
<1> DEFINE p == SubSeq(s, 1, k - 1)
           q == SubSeq(s, k + 1, Len(s))
<1>1. Len(s) \in Nat /\ k - 1 \in 0 .. Len(s) /\ k + 1 \in 1 .. Len(s) + 1
  OBVIOUS
<1>2. p \in Seq(T)
  BY <1>1
<1>3. Len(p) = k - 1
  BY <1>1
<1>4. q \in Seq(T)
  BY <1>1
<1>5. Len(q) = Len(s) - k
  BY <1>1
<1>6. RemoveAt(s, k) = p \o q
  BY DEF RemoveAt
<1> HIDE DEF p, q
<1>7. p \o q \in Seq(T)
  BY ONLY <1>2, <1>4
<1>8. Len(p \o q) = Len(p) + Len(q)
  BY ONLY <1>2, <1>4
<1> QED BY <1>1, <1>3, <1>5, <1>6, <1>7, <1>8

LEMMA ModuleRemoved ==
  ASSUME NEW d \in Docs, NEW expected, NEW k, WriteModuleRemove(d, expected, k) # Refused
  PROVE  LET new == WriteModuleRemove(d, expected, k)
         IN  /\ expected = d.modules /\ expected \in Seq(Entry) /\ k \in 1 .. Len(expected)
             /\ RemoveAt(expected, k) \in Seq(Entry)
             /\ Len(RemoveAt(expected, k)) = Len(expected) - 1
             /\ new \in Docs /\ new.modules = RemoveAt(expected, k)
             /\ new.sections = d.sections /\ new.separator = d.separator
<1>1. d.modules # NotArray /\ d.modules = expected /\ k \in DOMAIN expected
  BY DEF WriteModuleRemove
<1>2. expected \in Seq(Entry) /\ k \in 1 .. Len(expected)
  BY <1>1, PartsOf
<1>3. WriteModuleRemove(d, expected, k) = [d EXCEPT !.modules = RemoveAt(expected, k)]
  <2>1. WriteModuleRemove(d, expected, k) = [d EXCEPT !.modules = RemoveAt(@, k)]
    BY Zenon DEF WriteModuleRemove
  <2> QED BY <1>1, <2>1
<1>4. /\ RemoveAt(expected, k) \in Seq(Entry)
      /\ Len(RemoveAt(expected, k)) = Len(expected) - 1
  BY <1>2, RemovedAt
<1> QED BY <1>1, <1>2, <1>3, <1>4, ListWritten

\* Where a key is in a table, and what it is set to.
LEMMA PlaceIs ==
  ASSUME NEW table \in Table, NEW key \in Keys(table)
  PROVE  /\ Place(table, key) \in 1 .. Len(table)
         /\ table[Place(table, key)] = <<key, Lookup(table, key)>>
         /\ key \in ParamKeys /\ Lookup(table, key) \in Value
<1>1. PICK j \in DOMAIN table : table[j][1] = key
  BY DEF Keys
<1>2. Place(table, key) \in DOMAIN table /\ table[Place(table, key)][1] = key
  BY <1>1 DEF Place
<1>3. Place(table, key) \in 1 .. Len(table) /\ table[Place(table, key)] \in Param
  BY <1>2 DEF Table
<1>4. table[Place(table, key)] = <<key, Lookup(table, key)>>
  BY <1>2, <1>3 DEF Lookup, Param
<1>5. <<key, Lookup(table, key)>> \in Param
  BY <1>3, <1>4
<1> QED BY <1>3, <1>4, <1>5 DEF Param

\* The rows of a section that is a table or not there.
LEMMA SectionRows ==
  ASSUME NEW d \in Docs, NEW section, section \in DOMAIN d.sections => HasTable(d, section)
  PROVE  /\ RowsIn(d, section) \in Table
         /\ RowsIn(d, section) = IF section \in DOMAIN d.sections
                                 THEN d.sections[section] ELSE <<>>
<1>1. <<>> \in Table
  BY DEF Table
<1> QED BY <1>1, PartsOf DEF RowsIn, HasTable

LEMMA ParamWritten ==
  ASSUME NEW d \in Docs, NEW m, m.is = "EditingParamValue", m.section \in Entry,
         m.key \in ParamKeys, NEW text \in Texts,
         WriteParamSet(d, m.section, m.key, text, m.expect) # Refused
  PROVE  LET new == WriteParamSet(d, m.section, m.key, text, m.expect)
         IN  /\ new \in Docs /\ OneSection(d, new, m.section)
             /\ RowsAsShown(RowsIn(d, m.section), RowsIn(new, m.section), m)
<1> DEFINE present == m.section \in DOMAIN d.sections
           table == IF present THEN d.sections[m.section] ELSE <<>>
           after == IF m.key \in Keys(table)
                    THEN [table EXCEPT ![Place(table, m.key)][2] = text]
                    ELSE Append(table, <<m.key, text>>)
           new == SetSection(d, m.section, after)
<1>1. /\ table # NotTable /\ AsExpected(table, m.key, m.expect)
      /\ WriteParamSet(d, m.section, m.key, text, m.expect) = new
  BY DEF WriteParamSet
<1>2. RowsIn(d, m.section) = table /\ table \in Table
  BY <1>1, SectionRows DEF HasTable
<1> HIDE DEF table
<1>3. <<m.key, text>> \in Param
  BY DEF Param, Value
<1>4. after \in Table /\ RowsAsShown(table, after, m)
  <2>1. CASE m.expect = KeyAbsent
    <3>1. m.key \notin Keys(table) /\ after = Append(table, <<m.key, text>>)
      BY <1>1, <2>1 DEF AsExpected
    <3> HIDE DEF after
    <3> QED BY <1>2, <1>3, <2>1, <3>1 DEF RowsAsShown, Table
  <2>2. CASE m.expect # KeyAbsent
    <3> DEFINE j == Place(table, m.key)
    <3>1. m.key \in Keys(table) /\ Lookup(table, m.key) = m.expect
      BY <1>1, <2>2 DEF AsExpected
    <3>2. j \in 1 .. Len(table) /\ table[j] = <<m.key, m.expect>>
      BY <1>2, <3>1, PlaceIs
    <3>3. after = [table EXCEPT ![j][2] = text]
      BY <3>1
    <3> HIDE DEF j, after
    <3>4. after = [table EXCEPT ![j] = <<m.key, text>>]
      <4>1. [<<m.key, m.expect>> EXCEPT ![2] = text] = <<m.key, text>>
        OBVIOUS
      <4>2. after = [table EXCEPT ![j] = [@ EXCEPT ![2] = text]]
        BY <3>3
      <4> QED BY <3>2, <4>1, <4>2
    <3>5. j \in DOMAIN table /\ after \in Table
      BY <1>2, <1>3, <3>2, <3>4 DEF Table
    <3> QED BY <2>2, <3>2, <3>4, <3>5 DEF RowsAsShown
  <2> QED BY <2>1, <2>2
<1> HIDE DEF after
<1>5. new \in Docs /\ OneSection(d, new, m.section) /\ RowsIn(new, m.section) = after
  BY <1>4, NewSection
<1> QED BY <1>1, <1>2, <1>4, <1>5

LEMMA ParamRemoved ==
  ASSUME NEW d \in Docs, NEW m, m.is = "ConfirmingRemoveParam", m.section \in Entry,
         WriteParamRemove(d, m.section, m.key) # Refused
  PROVE  LET new == WriteParamRemove(d, m.section, m.key)
         IN  /\ new \in Docs /\ OneSection(d, new, m.section)
             /\ RowsAsShown(RowsIn(d, m.section), RowsIn(new, m.section), m)
<1> DEFINE table == d.sections[m.section]
           j == Place(table, m.key)
           after == RemoveAt(table, j)
           new == SetSection(d, m.section, after)
<1>1. /\ HasTable(d, m.section) /\ m.key \in Keys(table)
      /\ WriteParamRemove(d, m.section, m.key) = new
  BY DEF WriteParamRemove
<1>2. RowsIn(d, m.section) = table /\ table \in Table
  BY <1>1, SectionRows DEF HasTable
<1> HIDE DEF table
<1>3. j \in 1 .. Len(table) /\ table[j] = <<m.key, Lookup(table, m.key)>>
  BY <1>1, <1>2, PlaceIs
<1> HIDE DEF j
<1>4. after \in Table
  BY <1>2, <1>3, RemovedAt DEF Table
<1>5. j \in DOMAIN table /\ table[j][1] = m.key
  BY <1>2, <1>3 DEF Table
<1>6. RowsAsShown(table, after, m)
  BY <1>5 DEF RowsAsShown
<1> HIDE DEF after
<1>7. new \in Docs /\ OneSection(d, new, m.section) /\ RowsIn(new, m.section) = after
  BY <1>4, NewSection
<1> QED BY <1>1, <1>2, <1>6, <1>7

LEMMA ParamRenamed ==
  ASSUME NEW d \in Docs, NEW m, m.is = "RenamingParamKey", m.section \in Entry,
         NEW key \in ParamKeys, WriteParamRename(d, m.section, m.key, key) # Refused
  PROVE  LET new == WriteParamRename(d, m.section, m.key, key)
         IN  /\ new \in Docs /\ OneSection(d, new, m.section)
             /\ RowsAsShown(RowsIn(d, m.section), RowsIn(new, m.section), m)
<1> DEFINE table == d.sections[m.section]
           j == Place(table, m.key)
           after == [table EXCEPT ![j][1] = key]
           new == SetSection(d, m.section, after)
<1>1. /\ HasTable(d, m.section) /\ m.key \in Keys(table) /\ key \notin Keys(table)
      /\ WriteParamRename(d, m.section, m.key, key) = new
  BY DEF WriteParamRename
<1>2. RowsIn(d, m.section) = table /\ table \in Table
  BY <1>1, SectionRows DEF HasTable
<1> HIDE DEF table
<1> DEFINE value == Lookup(table, m.key)
<1>3. j \in 1 .. Len(table) /\ table[j] = <<m.key, value>> /\ value \in Value
  BY <1>1, <1>2, PlaceIs
<1> HIDE DEF j, value
<1>4. <<key, value>> \in Param
  BY <1>3 DEF Param
<1>5. after = [table EXCEPT ![j] = <<key, value>>]
  <2>1. [<<m.key, value>> EXCEPT ![1] = key] = <<key, value>>
    OBVIOUS
  <2>2. after = [table EXCEPT ![j] = [@ EXCEPT ![1] = key]]
    OBVIOUS
  <2> QED BY <1>3, <2>1, <2>2
<1>6. j \in DOMAIN table /\ table[j][1] = m.key /\ table[j][2] = value
  BY <1>2, <1>3 DEF Table
<1> HIDE DEF after
<1>7. RowsAsShown(table, after, m)
  BY <1>1, <1>5, <1>6 DEF RowsAsShown
<1>8. after \in Table
  BY <1>2, <1>3, <1>4, <1>5 DEF Table
<1>9. new \in Docs /\ OneSection(d, new, m.section) /\ RowsIn(new, m.section) = after
  BY <1>8, NewSection
<1> QED BY <1>1, <1>2, <1>7, <1>9

-----------------------------------------------------------------------------
(* The terminal interface: the invariant, and what keeps an App sound.      *)

TuiInv == DiskTypes(Disk) /\ Sound(app)

\* What a step of the interface may do to the presets.
AsShown ==
  /\ EditsActive
  /\ pointer \in Names /\ presets[pointer] # presets'[pointer] =>
       EditsAsShown(presets[pointer], presets'[pointer], app.mode)

LEMMA NothingWritten ==
  ASSUME presets' = presets
  PROVE  AsShown
BY DEF AsShown, EditsActive

\* A step that changes nothing but the App.
LEMMA BecomesSound ==
  ASSUME TuiInv, NEW a, Sound(a), app' = a, UNCHANGED disk
  PROVE  TuiInv' /\ AsShown
<1>1. DiskTypes(Disk)'
  BY DEF TuiInv, DiskTypes, Disk, disk
<1>2. Sound(app')
  OBVIOUS
<1>3. presets' = presets
  BY DEF disk
<1> QED BY <1>1, <1>2, <1>3, NothingWritten DEF TuiInv

\* What is read of an overlay.
LEMMA ModeParts ==
  ASSUME NEW m \in Modes
  PROVE  /\ m.is = "EnteringInstall" => m.what \in {"module", "extension"}
         /\ m.is = "AddingModule" => m.selected \in Nat
         /\ m.is = "NamingModuleInstance" => m.kind \in Range(Kinds)
         /\ m.is = "ConfirmingRemove" => m.index \in Nat /\ m.name \in Entry
         /\ m.is \in ParamModes => m.section \in Entry
         /\ m.is = "EditingParamValue" =>
              m.key \in ParamKeys /\ m.expect \in Value \cup {KeyAbsent}
         /\ m.is \in {"ConfirmingRemoveParam", "RenamingParamKey"} => m.key \in ParamKeys
         /\ m.is = "ConfirmingRemovePreset" => m.name \in Names
         /\ m.is = "ChoosingPreset" => m.names \in Seq(Names) /\ m.selected \in Nat
BY DEF Modes, ParamModes

\* The overlays there are.
LEMMA TheModes ==
  /\ \A is \in {"Normal", "Help", "EditingSeparator", "NamingPreset",
                "ChoosingInstallKind"} : [is |-> is] \in Modes
  /\ \A w \in {"module", "extension"} : [is |-> "EnteringInstall", what |-> w] \in Modes
  /\ \A n \in Nat : [is |-> "AddingModule", selected |-> n] \in Modes
  /\ \A k \in Range(Kinds) : [is |-> "NamingModuleInstance", kind |-> k] \in Modes
  /\ \A n \in Nat, e \in Entry :
       [is |-> "ConfirmingRemove", index |-> n, name |-> e] \in Modes
  /\ \A e \in Entry : [is |-> "AddingParamKey", section |-> e] \in Modes
  /\ \A e \in Entry, k \in ParamKeys, v \in Value \cup {KeyAbsent} :
       [is |-> "EditingParamValue", section |-> e, key |-> k, expect |-> v] \in Modes
  /\ \A is \in {"ConfirmingRemoveParam", "RenamingParamKey"}, e \in Entry, k \in ParamKeys :
       [is |-> is, section |-> e, key |-> k] \in Modes
  /\ \A n \in Names : [is |-> "ConfirmingRemovePreset", name |-> n] \in Modes
  /\ \A s \in Seq(Names), n \in Nat :
       [is |-> "ChoosingPreset", names |-> s, selected |-> n] \in Modes
BY DEF Modes

\* What an overlay has to fit.
Fits(m, a) ==
  /\ m.is = "ConfirmingRemove" => m.index = a.selected /\ m.name = SelectedEntry(a)
  /\ m.is \in ParamModes => m.section = SelectedEntry(a)
  /\ m.is = "ChoosingPreset" => m.selected \in DOMAIN m.names

LEMMA OverlayFits ==
  ASSUME NEW a, Sound(a), NEW m \in Modes, Fits(m, a)
  PROVE  /\ Sound([a EXCEPT !.mode = m])
         /\ SameCopy(a, [a EXCEPT !.mode = m]) /\ [a EXCEPT !.mode = m].mode = m
<1> DEFINE b == [a EXCEPT !.mode = m]
<1>1. /\ b \in Apps /\ b.mode = m /\ SameCopy(a, b) /\ Copied(b) /\ ExtensionsFit(b)
  BY OtherMode DEF Sound
<1> HIDE DEF b
<1>2. SelectedEntry(b) = SelectedEntry(a) /\ b.selected = a.selected
  BY <1>1, StaysCopied DEF SameCopy
<1>3. ModeFits(b)
  BY <1>1, <1>2 DEF ModeFits, Fits
<1> QED BY <1>1, <1>3 DEF Sound, b

\* A step into an overlay that fits.
LEMMA EntersSound ==
  ASSUME TuiInv, NEW a, Sound(a), NEW m \in Modes, Fits(m, a), Enters(a, m)
  PROVE  TuiInv' /\ AsShown
<1>1. app' = [a EXCEPT !.mode = m] /\ UNCHANGED disk
  BY DEF Enters, Becomes
<1>2. Sound([a EXCEPT !.mode = m])
  BY OverlayFits
<1> QED BY <1>1, <1>2, BecomesSound

\* An App stays sound while the copy, the extensions and the overlay stay.
LEMMA StaysSound ==
  ASSUME NEW a, Sound(a), NEW b \in Apps, SameCopy(a, b), b.listed = a.listed,
         b.extSelected = a.extSelected, b.mode = a.mode
  PROVE  Sound(b)
<1>1. SelectedEntry(b) = SelectedEntry(a) /\ Copied(b) /\ b.selected = a.selected
  BY StaysCopied DEF Sound, SameCopy
<1>2. ExtensionsFit(b)
  BY DEF Sound, ExtensionsFit
<1>3. ModeFits(b)
  BY <1>1 DEF Sound, ModeFits
<1> QED BY <1>1, <1>2, <1>3 DEF Sound

\* Rebuild makes an App with another list or place sound.
LEMMA RebuiltSound ==
  ASSUME NEW a \in Apps, SelectionFits(a), a.active # None, ExtensionsFit(a), ModeFits(a),
         a.modules # None => a.cache # None, NEW reset \in BOOLEAN
  PROVE  LET b == Rebuild(a, reset)
         IN  Sound(b) /\ b.active = a.active /\ b.modules = a.modules
<1> DEFINE b == Rebuild(a, reset)
<1>1. /\ b \in Apps /\ Copied(b) /\ b.active = a.active /\ b.modules = a.modules
      /\ b.selected = a.selected /\ b.listed = a.listed /\ b.extSelected = a.extSelected
      /\ b.mode = a.mode
  BY RebuiltCopy
<1> HIDE DEF b
<1>2. SelectedEntry(b) = SelectedEntry(a)
  BY <1>1, SameSelection
<1>3. ExtensionsFit(b) /\ ModeFits(b)
  BY <1>1, <1>2 DEF ExtensionsFit, ModeFits
<1> QED BY <1>1, <1>3 DEF Sound, b

\* Another place in the panel of parameters.
LEMMA ParamSelected ==
  ASSUME NEW a, Sound(a), a.params # None, NEW k \in DOMAIN a.params.entries
  PROVE  LET b == [a EXCEPT !.params.selected = k]
         IN  /\ Sound(b) /\ b.active = a.active /\ b.modules = a.modules
             /\ b.cache = a.cache
<1> DEFINE q == [a.params EXCEPT !.selected = k]
           b == [a EXCEPT !.params = q]
<1>1. a \in Apps /\ a.params \in Panel /\ [a EXCEPT !.params.selected = k] = b
  BY DEF Sound, Apps
<1>2. k \in Nat /\ a.params.entries # <<>>
  BY <1>1 DEF Panel
<1>3. q \in Panel /\ q.entries = a.params.entries /\ q.selected = k /\ q # None
  <2>1. q \in Panel /\ q.entries = a.params.entries /\ q.selected = k
    BY <1>1, <1>2 DEF Panel
  <2> QED BY <2>1, Nothing
<1> HIDE DEF q
<1>4. /\ b \in Apps /\ b.params = q
      /\ b.active = a.active /\ b.modules = a.modules /\ b.separator = a.separator
      /\ b.cache = a.cache /\ b.selected = a.selected /\ b.listed = a.listed
      /\ b.extSelected = a.extSelected /\ b.mode = a.mode
  BY <1>1, <1>3, OtherParams
<1> HIDE DEF b
<1>5. SelectedEntry(b) = SelectedEntry(a) /\ SelectionFits(b)
  BY <1>4, SameSelection DEF Sound, Copied
<1>6. ParamsFit(b)
  <2>1. PanelShows(a.params, a.cache, SelectedEntry(a)) /\ a.cache \in Docs
    BY DEF Sound, Copied, ParamsFit
  <2>2. PanelShows(q, b.cache, SelectedEntry(b))
    BY <1>2, <1>3, <1>4, <1>5, <2>1 DEF PanelShows
  <2>3. SelectedEntry(b) # None
    BY <1>5 DEF Sound, Copied, ParamsFit
  <2> QED BY <1>3, <1>4, <2>1, <2>2, <2>3 DEF ParamsFit
<1>7. Inactive(b) /\ (b.modules # None => b.cache # None)
  <2>1. a.active # None
    BY DEF Sound, Copied, Inactive
  <2> QED BY <1>4, <2>1 DEF Sound, Copied, Inactive
<1>8. ExtensionsFit(b) /\ ModeFits(b)
  BY <1>4, <1>5 DEF Sound, ExtensionsFit, ModeFits
<1> QED BY <1>1, <1>4, <1>5, <1>6, <1>7, <1>8 DEF Sound, Copied

\* Reloaded shows the parameters of the document that was written.
LEMMA ReloadedSound ==
  ASSUME NEW a, Sound(a), a.active # None, NEW doc \in Docs
  PROVE  LET b == Reloaded(a, doc)
         IN  /\ Sound(b) /\ b.active = a.active /\ b.modules = a.modules
             /\ b.cache = doc
<1> DEFINE c == RebuildFrom(a, doc, FALSE)
           b == [c EXCEPT !.cache = doc]
<1>1. a \in Apps /\ SelectionFits(a)
  BY DEF Sound, Copied
<1>2. PICK p \in Panel \cup {None} :
           /\ c = [a EXCEPT !.params = p]
           /\ p = None <=> SelectedEntry(a) = None
           /\ p # None => PanelShows(p, doc, SelectedEntry(a))
  BY <1>1, RebuiltFrom
<1> HIDE DEF c
<1>3. /\ c \in Apps /\ c.params = p
      /\ c.active = a.active /\ c.modules = a.modules
      /\ c.selected = a.selected /\ c.listed = a.listed
      /\ c.extSelected = a.extSelected /\ c.mode = a.mode
  BY <1>1, <1>2, OtherParams
<1>4. /\ b \in Apps /\ b.params = p /\ b.cache = doc
      /\ b.active = a.active /\ b.modules = a.modules
      /\ b.selected = a.selected /\ b.listed = a.listed
      /\ b.extSelected = a.extSelected /\ b.mode = a.mode
  BY <1>3 DEF Apps
<1>5. b = Reloaded(a, doc)
  BY DEF Reloaded, c
<1> HIDE DEF b
<1>6. SelectedEntry(b) = SelectedEntry(a) /\ SelectionFits(b)
  BY <1>1, <1>4, SameSelection
<1>7. ParamsFit(b) /\ Inactive(b) /\ b.cache # None
  BY <1>2, <1>4, <1>6, Nothing DEF ParamsFit, Inactive
<1>8. ExtensionsFit(b) /\ ModeFits(b)
  BY <1>4, <1>6 DEF Sound, ExtensionsFit, ModeFits
<1> QED BY <1>4, <1>5, <1>6, <1>7, <1>8 DEF Sound, Copied

\* select_param_by_key.
LEMMA KeySelected ==
  ASSUME NEW a, Sound(a), NEW key
  PROVE  LET b == SelectKey(a, key)
         IN  /\ Sound(b) /\ b.active = a.active /\ b.modules = a.modules
             /\ b.cache = a.cache
<1>1. CASE ShowsKey(a, key)
  <2> DEFINE k == CHOOSE j \in DOMAIN a.params.entries : a.params.entries[j].key = key
  <2>1. a.params # None /\ k \in DOMAIN a.params.entries
    BY <1>1 DEF ShowsKey
  <2>2. SelectKey(a, key) = [a EXCEPT !.params.selected = k]
    BY <1>1 DEF SelectKey
  <2> HIDE DEF k
  <2> QED BY <2>1, <2>2, ParamSelected
<1>2. CASE ~ShowsKey(a, key)
  BY <1>2 DEF SelectKey
<1> QED BY <1>1, <1>2

\* The App a key finds: with the active preset, and no overlay but the list.
LEMMA FreshIs ==
  ASSUME TuiInv, InMode("Normal") \/ InMode("ChoosingPreset")
  PROVE  /\ Sound(Fresh) /\ PresetMode(Fresh.mode) /\ Fresh.active = ActiveIn(Disk)
         /\ Fresh \in Apps /\ Copied(Fresh) /\ ExtensionsFit(Fresh)
<1>1. PresetMode(app.mode)
  BY DEF TuiInv, Sound, ModeFits, Apps, InMode, PresetMode
<1>2. Sound(Fresh) /\ PresetMode(Fresh.mode) /\ Fresh.active = ActiveIn(Disk)
  BY <1>1, EnsuredApp DEF Fresh, TuiInv
<1> QED BY <1>2 DEF Sound

\* The App a confirmation finds.
LEMMA ConfirmedIs ==
  ASSUME TuiInv
  PROVE  /\ Sound(Confirmed) /\ PresetMode(Confirmed.mode)
         /\ Confirmed.active = ActiveIn(Disk)
         /\ SameCopy(app, Confirmed)
              \/ (Confirmed.active # None /\ presets[Confirmed.active] \in Docs
                    => Confirmed.cache = presets[Confirmed.active])
<1> DEFINE a == [app EXCEPT !.mode = Normal]
<1>1. Normal \in Modes /\ Fits(Normal, app)
  BY NormalMode DEF PresetMode, Fits, ParamModes
<1>2. Sound(a) /\ SameCopy(app, a) /\ a.mode = Normal
  BY <1>1, OverlayFits DEF TuiInv
<1>3. Confirmed = Ensure(a)
  BY DEF Confirmed
<1> HIDE DEF a
<1>4. PresetMode(a.mode)
  BY <1>2, NormalMode
<1> QED BY <1>2, <1>3, <1>4, EnsuredApp DEF TuiInv

-----------------------------------------------------------------------------
(* The terminal interface: the keys that write nothing.                     *)

LEMMA SettleStep ==
  ASSUME TuiInv, Settle
  PROVE  TuiInv' /\ AsShown
<1>1. Sound(Fresh) /\ app' = Fresh /\ UNCHANGED disk
  BY FreshIs DEF Settle, Becomes
<1> QED BY <1>1, BecomesSound

LEMMA HelpStep ==
  ASSUME TuiInv, Help
  PROVE  TuiInv' /\ AsShown
<1>1. CASE InMode("Normal") /\ Enters(Fresh, [is |-> "Help"])
  <2> DEFINE m == [is |-> "Help"]
  <2>1. Sound(Fresh) /\ m \in Modes /\ Fits(m, Fresh)
    BY <1>1, FreshIs, TheModes DEF Fits, ParamModes
  <2> QED BY <1>1, <2>1, EntersSound
<1>2. CASE Enters(app, Normal)
  <2>1. Sound(app) /\ Normal \in Modes /\ Fits(Normal, app)
    BY NormalMode DEF TuiInv, PresetMode, Fits, ParamModes
  <2> QED BY <1>2, <2>1, EntersSound
<1> QED BY <1>1, <1>2 DEF Help

\* An App that shows another entry.
LEMMA OtherEntry ==
  ASSUME NEW a \in Apps, Copied(a), ExtensionsFit(a), PresetMode(a.mode), a.active # None,
         a.cache # None, NEW list \in Seq(Entry), NEW k \in Nat,
         k \in IF list = <<>> THEN {0} ELSE 1 .. Len(list)
  PROVE  LET b == [a EXCEPT !.modules = list, !.selected = k]
         IN  /\ Sound(Rebuild(b, TRUE))
             /\ Rebuild(b, TRUE).active = a.active /\ Rebuild(b, TRUE).modules = list
<1> DEFINE b == [a EXCEPT !.modules = list, !.selected = k]
<1>1. /\ b \in Apps /\ b.modules = list /\ b.selected = k /\ b.active = a.active
      /\ b.cache = a.cache /\ b.mode = a.mode /\ b.listed = a.listed
      /\ b.extSelected = a.extSelected
  BY DEF Apps
<1> HIDE DEF b
<1>2. SelectionFits(b)
  BY <1>1, Nothing DEF SelectionFits
<1>3. ExtensionsFit(b) /\ ModeFits(b)
  BY <1>1, PresetModeFits DEF ExtensionsFit
<1>4. /\ Sound(Rebuild(b, TRUE)) /\ Rebuild(b, TRUE).active = b.active
      /\ Rebuild(b, TRUE).modules = b.modules
  BY <1>1, <1>2, <1>3, RebuiltSound
<1> QED BY <1>1, <1>4 DEF b

\* A sound App with a selection has what the selection is about.
LEMMA SelectedThere ==
  ASSUME NEW a, Sound(a), a.selected # 0 \/ SelectedEntry(a) # None
  PROVE  /\ a \in Apps /\ Copied(a) /\ ExtensionsFit(a)
         /\ a.active # None /\ a.cache # None /\ a.selected # 0
         /\ SelectedEntry(a) \in Entry /\ a.modules \in Seq(Entry)
         /\ a.selected \in 1 .. Len(a.modules) /\ a.modules # <<>>
         /\ SelectedEntry(a) = a.modules[a.selected]
<1>1. a \in Apps /\ Copied(a) /\ ExtensionsFit(a) /\ SelectionFits(a)
  BY DEF Sound, Copied
<1>2. SelectedEntry(a) \in Entry /\ a.selected # 0 /\ a.modules \in Seq(Entry)
      /\ a.selected \in 1 .. Len(a.modules) /\ SelectedEntry(a) = a.modules[a.selected]
  BY <1>1, Selection
<1>3. a.modules # None /\ a.modules # <<>>
  BY <1>2, Nothing
<1>4. a.active # None /\ a.cache # None
  BY <1>1, <1>3 DEF Copied, Inactive
<1> QED BY <1>1, <1>2, <1>3, <1>4

LEMMA SelectModuleStep ==
  ASSUME TuiInv, SelectModule
  PROVE  TuiInv' /\ AsShown
<1>1. /\ Sound(Fresh) /\ PresetMode(Fresh.mode) /\ Fresh.selected # 0
  BY FreshIs DEF SelectModule, Focused
<1>2. PICK k \in DOMAIN Fresh.modules : Becomes(Rebuild([Fresh EXCEPT !.selected = k], TRUE))
  BY DEF SelectModule
<1> DEFINE a == Fresh
           b == [a EXCEPT !.modules = a.modules, !.selected = k]
<1>3. /\ a \in Apps /\ Copied(a) /\ ExtensionsFit(a) /\ a.active # None /\ a.cache # None
      /\ a.modules \in Seq(Entry) /\ a.modules # <<>> /\ a.selected \in 1 .. Len(a.modules)
  BY <1>1, SelectedThere
<1>4. k \in Nat /\ k \in 1 .. Len(a.modules)
  BY <1>2, <1>3
<1>5. app' = Rebuild([a EXCEPT !.selected = k], TRUE) /\ UNCHANGED disk
  BY <1>2 DEF Becomes
<1> HIDE DEF a
<1>6. [a EXCEPT !.selected = k] = b
  BY <1>3 DEF Apps
<1>7. Sound(Rebuild(b, TRUE))
  BY <1>1, <1>3, <1>4, OtherEntry DEF a
<1> QED BY <1>5, <1>6, <1>7, BecomesSound

\* The parameter that is selected is a row of the panel.
LEMMA SelectedRow ==
  ASSUME NEW a, Sound(a), SelectedParam(a) # None
  PROVE  a.params # None /\ SelectedParam(a) \in ParamRow
<1>1. a.params # None /\ a.params.selected \in DOMAIN a.params.entries
      /\ SelectedParam(a) = a.params.entries[a.params.selected]
  BY DEF SelectedParam
<1>2. a.params \in Panel
  BY <1>1 DEF Sound, Apps
<1> QED BY <1>1, <1>2 DEF Panel

LEMMA SelectParamStep ==
  ASSUME TuiInv, SelectParam
  PROVE  TuiInv' /\ AsShown
<1>1. Sound(Fresh) /\ SelectedParam(Fresh) # None
  BY FreshIs DEF SelectParam, Focused
<1>2. PICK k \in DOMAIN Fresh.params.entries : Becomes([Fresh EXCEPT !.params.selected = k])
  BY DEF SelectParam
<1>3. Sound([Fresh EXCEPT !.params.selected = k])
  BY <1>1, SelectedRow, ParamSelected
<1>4. app' = [Fresh EXCEPT !.params.selected = k] /\ UNCHANGED disk
  BY <1>2 DEF Becomes
<1> QED BY <1>3, <1>4, BecomesSound

LEMMA SelectExtensionStep ==
  ASSUME TuiInv, SelectExtension
  PROVE  TuiInv' /\ AsShown
<1>1. Sound(Fresh) /\ Fresh \in Apps /\ Copied(Fresh) /\ Fresh.extSelected # 0
  BY FreshIs DEF SelectExtension, Focused
<1>2. PICK k \in 1 .. Fresh.listed : Becomes([Fresh EXCEPT !.extSelected = k])
  BY DEF SelectExtension
<1> DEFINE a == Fresh
           b == [a EXCEPT !.extSelected = k]
<1>3. app' = b /\ UNCHANGED disk
  BY <1>2 DEF Becomes
<1>4. a.listed # 0 /\ k \in Nat /\ k \in 1 .. a.listed
  BY <1>1, <1>2 DEF Apps
<1> HIDE DEF a
<1>5. b \in Apps /\ SameCopy(a, b) /\ b.listed = a.listed /\ b.extSelected = k
      /\ b.mode = a.mode
  BY <1>1, <1>4 DEF a, Apps, SameCopy
<1> HIDE DEF b
<1>6. SelectedEntry(b) = SelectedEntry(a) /\ Copied(b) /\ b.selected = a.selected
  BY <1>1, <1>5, StaysCopied DEF a, SameCopy
<1>7. ExtensionsFit(b) /\ ModeFits(b)
  BY <1>1, <1>4, <1>5, <1>6 DEF a, Sound, ExtensionsFit, ModeFits
<1>8. Sound(b)
  BY <1>5, <1>6, <1>7 DEF Sound
<1> QED BY <1>3, <1>8, BecomesSound

\* The focus says nothing about the rest.
LEMMA FocusSound ==
  ASSUME TuiInv, InMode("Normal")
  PROVE  /\ \A p \in {"Modules", "Extensions", "Params", "Logs"} :
              Sound(FocusOn(p)) /\ FocusOn(p) \in Apps
         /\ \A d \in {"Module", "Extension"} : Sound(FocusParams(d))
<1>1. Sound(Fresh) /\ Fresh \in Apps
  BY FreshIs
<1>2. ASSUME NEW p \in {"Modules", "Extensions", "Params", "Logs"}
      PROVE  Sound(FocusOn(p)) /\ FocusOn(p) \in Apps
  <2> DEFINE b == [Fresh EXCEPT !.focus = p]
  <2>1. /\ b \in Apps /\ SameCopy(Fresh, b) /\ b.listed = Fresh.listed
        /\ b.extSelected = Fresh.extSelected /\ b.mode = Fresh.mode
    BY <1>1 DEF Apps, SameCopy
  <2> HIDE DEF b
  <2>2. Sound(b)
    BY <1>1, <2>1, StaysSound
  <2> QED BY <2>1, <2>2 DEF b, FocusOn
<1>3. ASSUME NEW d \in {"Module", "Extension"}
      PROVE  Sound(FocusParams(d))
  <2> DEFINE a == FocusOn("Params")
             b == [a EXCEPT !.detail = d]
  <2>1. Sound(a) /\ a \in Apps
    BY <1>2
  <2> HIDE DEF a
  <2>2. /\ b \in Apps /\ SameCopy(a, b) /\ b.listed = a.listed
        /\ b.extSelected = a.extSelected /\ b.mode = a.mode
    BY <2>1 DEF Apps, SameCopy
  <2> HIDE DEF b
  <2>3. Sound(b)
    BY <2>1, <2>2, StaysSound
  <2> QED BY <2>3 DEF a, b, FocusParams
<1> QED BY <1>2, <1>3

\* RefreshExtensions keeps an App sound.
LEMMA ExtensionsSound ==
  ASSUME NEW a, Sound(a), NEW d, d.extensions \in 0 .. MaxExtensions
  PROVE  Sound(RefreshExtensions(a, d))
<1> DEFINE b == RefreshExtensions(a, d)
<1>1. b \in Apps /\ ExtensionsFit(b) /\ SameCopy(a, b) /\ b.mode = a.mode
  BY ExtensionsRefreshed DEF Sound
<1> HIDE DEF b
<1>2. Copied(b) /\ SelectedEntry(b) = SelectedEntry(a) /\ b.selected = a.selected
  BY <1>1, StaysCopied DEF Sound, SameCopy
<1>3. ModeFits(b)
  BY <1>1, <1>2 DEF Sound, ModeFits
<1> QED BY <1>1, <1>2, <1>3 DEF Sound, b

LEMMA ChangeFocusStep ==
  ASSUME TuiInv, ChangeFocus
  PROVE  TuiInv' /\ AsShown
<1> DEFINE Panels == {"Modules", "Extensions", "Params", "Logs"}
<1>1. InMode("Normal")
  BY DEF ChangeFocus, Focused
<1>2. \/ Becomes(RefreshExtensions(FocusOn("Extensions"), Disk))
      \/ \E d \in {"Module", "Extension"} : Becomes(FocusParams(d))
      \/ \E p \in Panels : Becomes(FocusOn(p))
  BY DEF ChangeFocus
<1>3. CASE Becomes(RefreshExtensions(FocusOn("Extensions"), Disk))
  <2>1. Disk.extensions \in 0 .. MaxExtensions
    BY DEF TuiInv, DiskTypes
  <2>2. Sound(FocusOn("Extensions"))
    BY <1>1, FocusSound
  <2>3. Sound(RefreshExtensions(FocusOn("Extensions"), Disk))
    BY <2>1, <2>2, ExtensionsSound
  <2>4. app' = RefreshExtensions(FocusOn("Extensions"), Disk) /\ UNCHANGED disk
    BY <1>3 DEF Becomes
  <2> QED BY <2>3, <2>4, BecomesSound
<1>4. CASE \E d \in {"Module", "Extension"} : Becomes(FocusParams(d))
  <2>1. PICK d \in {"Module", "Extension"} : Becomes(FocusParams(d))
    BY <1>4
  <2>2. Sound(FocusParams(d)) /\ app' = FocusParams(d) /\ UNCHANGED disk
    BY <1>1, <2>1, FocusSound DEF Becomes
  <2> QED BY <2>2, BecomesSound
<1>5. CASE \E p \in Panels : Becomes(FocusOn(p))
  <2>1. PICK p \in Panels : Becomes(FocusOn(p))
    BY <1>5
  <2>2. Sound(FocusOn(p)) /\ app' = FocusOn(p) /\ UNCHANGED disk
    BY <1>1, <2>1, FocusSound DEF Becomes
  <2> QED BY <2>2, BecomesSound
<1> QED BY <1>2, <1>3, <1>4, <1>5

LEMMA BeginOnModulesStep ==
  ASSUME TuiInv, BeginOnModules
  PROVE  TuiInv' /\ AsShown
<1>1. Sound(Fresh) /\ Fresh \in Apps
  BY FreshIs DEF BeginOnModules, Focused
<1>2. CASE Enters(Fresh, [is |-> "EditingSeparator"])
  <2> DEFINE m == [is |-> "EditingSeparator"]
  <2>1. m \in Modes /\ Fits(m, Fresh)
    BY TheModes DEF Fits, ParamModes
  <2> QED BY <1>1, <1>2, <2>1, EntersSound
<1>3. CASE Enters(Fresh, [is |-> "AddingModule", selected |-> 1])
  <2> DEFINE m == [is |-> "AddingModule", selected |-> 1]
  <2>1. m \in Modes /\ Fits(m, Fresh)
    BY TheModes DEF Fits, ParamModes
  <2> QED BY <1>1, <1>3, <2>1, EntersSound
<1>4. CASE /\ SelectedEntry(Fresh) # None
           /\ Enters(Fresh, [is |-> "ConfirmingRemove", index |-> Fresh.selected,
                             name |-> SelectedEntry(Fresh)])
  <2> DEFINE m == [is |-> "ConfirmingRemove", index |-> Fresh.selected,
                   name |-> SelectedEntry(Fresh)]
  <2>1. SelectedEntry(Fresh) \in Entry /\ Fresh.selected \in Nat
    BY <1>1, <1>4, SelectedThere DEF Apps
  <2>2. m \in Modes /\ Fits(m, Fresh)
    BY <2>1, TheModes DEF Fits, ParamModes
  <2> QED BY <1>1, <1>4, <2>2, EntersSound
<1> QED BY <1>2, <1>3, <1>4 DEF BeginOnModules

LEMMA BeginOnParamsStep ==
  ASSUME TuiInv, BeginOnParams
  PROVE  TuiInv' /\ AsShown
<1> DEFINE section == SelectedEntry(Fresh)
           param == SelectedParam(Fresh)
<1>1. Sound(Fresh) /\ section \in Entry
  BY FreshIs, SelectedThere DEF BeginOnParams, Focused
<1>2. param # None => param \in ParamRow
  BY <1>1, SelectedRow
<1>3. CASE Enters(Fresh, [is |-> "AddingParamKey", section |-> section])
  <2> DEFINE m == [is |-> "AddingParamKey", section |-> section]
  <2>1. m \in Modes /\ Fits(m, Fresh)
    BY <1>1, TheModes DEF Fits, ParamModes
  <2> QED BY <1>1, <1>3, <2>1, EntersSound
<1>4. CASE /\ param # None
           /\ Enters(Fresh, [is |-> "EditingParamValue", section |-> section,
                             key |-> param.key,
                             expect |-> IF param.set THEN param.value ELSE KeyAbsent])
  <2> DEFINE expect == IF param.set THEN param.value ELSE KeyAbsent
             m == [is |-> "EditingParamValue", section |-> section, key |-> param.key,
                   expect |-> expect]
  <2>1. param.key \in ParamKeys /\ expect \in Value \cup {KeyAbsent}
    BY <1>2, <1>4 DEF ParamRow
  <2>2. m \in Modes /\ Fits(m, Fresh)
    BY <1>1, <2>1, TheModes DEF Fits, ParamModes
  <2> QED BY <1>1, <1>4, <2>2, EntersSound
<1>5. CASE \E is \in {"ConfirmingRemoveParam", "RenamingParamKey"} :
             param # None /\ Enters(Fresh, [is |-> is, section |-> section, key |-> param.key])
  <2>1. PICK is \in {"ConfirmingRemoveParam", "RenamingParamKey"} :
             param # None /\ Enters(Fresh, [is |-> is, section |-> section, key |-> param.key])
    BY <1>5
  <2> DEFINE m == [is |-> is, section |-> section, key |-> param.key]
  <2>2. param.key \in ParamKeys
    BY <1>2, <2>1 DEF ParamRow
  <2>3. m \in Modes /\ Fits(m, Fresh)
    BY <1>1, <2>2, TheModes DEF Fits, ParamModes
  <2> QED BY <1>1, <2>1, <2>3, EntersSound
<1> QED BY <1>3, <1>4, <1>5 DEF BeginOnParams

LEMMA ChooseKindStep ==
  ASSUME TuiInv, ChooseKind
  PROVE  TuiInv' /\ AsShown
<1>1. Sound(app) /\ app.mode \in Modes /\ app.mode.is = "AddingModule"
  BY DEF TuiInv, Sound, Apps, ChooseKind, InMode
<1>2. ASSUME NEW k \in DOMAIN Kinds, Enters(app, [app.mode EXCEPT !.selected = k])
      PROVE  TuiInv' /\ AsShown
  <2> DEFINE m == [is |-> "AddingModule", selected |-> k]
  <2>1. k \in Nat
    BY TuiAssumption
  <2>2. m \in Modes /\ Fits(m, app)
    BY <2>1, TheModes DEF Fits, ParamModes
  <2>3. [app.mode EXCEPT !.selected = k] = m
    BY <1>1 DEF Modes
  <2> QED BY <1>1, <1>2, <2>2, <2>3, EntersSound
<1>3. ASSUME app.mode.selected \in DOMAIN Kinds,
             Enters(app, [is |-> "NamingModuleInstance", kind |-> Kinds[app.mode.selected]])
      PROVE  TuiInv' /\ AsShown
  <2> DEFINE m == [is |-> "NamingModuleInstance", kind |-> Kinds[app.mode.selected]]
  <2>1. Kinds[app.mode.selected] \in Range(Kinds)
    BY <1>3 DEF Range
  <2>2. m \in Modes /\ Fits(m, app)
    BY <2>1, TheModes DEF Fits, ParamModes
  <2> QED BY <1>1, <1>3, <2>2, EntersSound
<1> QED BY <1>2, <1>3 DEF ChooseKind

LEMMA NameParamStep ==
  ASSUME TuiInv, NameParam
  PROVE  TuiInv' /\ AsShown
<1>1. /\ Sound(app) /\ app.mode \in Modes /\ app.mode.is \in ParamModes
      /\ app.mode.section = SelectedEntry(app)
  BY DEF TuiInv, Sound, Apps, NameParam, InMode, ParamModes, ModeFits
<1>2. app.mode.section \in Entry
  BY <1>1, ModeParts
<1>3. PICK key \in ParamKeys :
        Enters(app, [is |-> "EditingParamValue", section |-> app.mode.section,
                     key |-> key, expect |-> KeyAbsent])
  BY DEF NameParam
<1> DEFINE m == [is |-> "EditingParamValue", section |-> app.mode.section,
                 key |-> key, expect |-> KeyAbsent]
<1>4. m \in Modes /\ Fits(m, app)
  BY <1>1, <1>2, TheModes DEF Fits, ParamModes
<1> QED BY <1>1, <1>3, <1>4, EntersSound

LEMMA CancelStep ==
  ASSUME TuiInv, Cancel
  PROVE  TuiInv' /\ AsShown
<1>1. Sound(app) /\ app.mode \in Modes
  BY DEF TuiInv, Sound, Apps
<1>2. CASE Enters(app, Normal)
  <2>1. Normal \in Modes /\ Fits(Normal, app)
    BY NormalMode DEF PresetMode, Fits, ParamModes
  <2> QED BY <1>1, <1>2, <2>1, EntersSound
<1>3. CASE /\ InMode("EditingParamValue")
           /\ Enters(app, [is |-> "AddingParamKey", section |-> app.mode.section])
  <2> DEFINE m == [is |-> "AddingParamKey", section |-> app.mode.section]
  <2>1. app.mode.is \in ParamModes /\ app.mode.section = SelectedEntry(app)
    BY <1>1, <1>3 DEF Sound, InMode, ParamModes, ModeFits
  <2>2. app.mode.section \in Entry
    BY <1>1, <2>1, ModeParts
  <2>3. m \in Modes /\ Fits(m, app)
    BY <2>1, <2>2, TheModes DEF Fits, ParamModes
  <2> QED BY <1>1, <1>3, <2>3, EntersSound
<1> QED BY <1>2, <1>3 DEF Cancel

\* What is known of a kind's schema says nothing about the rest.
LEMMA SchemaSound ==
  ASSUME NEW a, Sound(a), NEW kind, NEW result \in {"unknown", "known", "failed"}
  PROVE  LET b == [a EXCEPT !.schema[kind] = result]
         IN  Sound(b) /\ b \in Apps /\ SameCopy(a, b)
<1> DEFINE s == [a.schema EXCEPT ![kind] = result]
           b == [a EXCEPT !.schema = s]
<1>1. a \in Apps /\ s \in [Range(Kinds) -> {"unknown", "known", "failed"}]
  BY DEF Sound, Apps
<1>2. [a EXCEPT !.schema[kind] = result] = b
  BY <1>1 DEF Apps
<1> HIDE DEF s
<1>3. /\ b \in Apps /\ SameCopy(a, b) /\ b.listed = a.listed
      /\ b.extSelected = a.extSelected /\ b.mode = a.mode
  BY <1>1 DEF Apps, SameCopy
<1> HIDE DEF b
<1>4. Sound(b)
  BY <1>3, StaysSound
<1> QED BY <1>2, <1>3, <1>4

LEMMA PollSchemaStep ==
  ASSUME TuiInv, PollSchema
  PROVE  TuiInv' /\ AsShown
<1>1. PICK kind \in ConfiguredKinds(app) \cap Range(Kinds), result \in {"known", "failed"} :
        LET a == [app EXCEPT !.schema[kind] = result]
        IN  Becomes(IF result = "known" /\ SelectedEntry(a) # None
                    THEN IF KindOf(SelectedEntry(a)) = kind
                         THEN Rebuild(a, FALSE) ELSE a
                    ELSE a)
  BY DEF PollSchema
<1> DEFINE a == [app EXCEPT !.schema[kind] = result]
<1>2. Sound(a)
  BY SchemaSound DEF TuiInv
<1>3. Becomes(a) \/ (SelectedEntry(a) # None /\ Becomes(Rebuild(a, FALSE)))
  BY <1>1, Zenon
<1> HIDE DEF a
<1>4. CASE Becomes(a)
  BY <1>2, <1>4, BecomesSound DEF Becomes
<1>5. CASE SelectedEntry(a) # None /\ Becomes(Rebuild(a, FALSE))
  <2>1. /\ a \in Apps /\ SelectionFits(a) /\ ExtensionsFit(a) /\ ModeFits(a)
        /\ a.active # None /\ a.cache # None
    BY <1>2, <1>5, SelectedThere DEF Sound, Copied
  <2>2. Sound(Rebuild(a, FALSE))
    BY <2>1, RebuiltSound
  <2>3. app' = Rebuild(a, FALSE) /\ UNCHANGED disk
    BY <1>5 DEF Becomes
  <2> QED BY <2>2, <2>3, BecomesSound
<1> QED BY <1>3, <1>4, <1>5

LEMMA OthersStep ==
  ASSUME TuiInv, Others
  PROVE  TuiInv'
<1>1. /\ pointer \in Names \cup {None} /\ presets \in [Names -> Docs \cup {Absent, Broken}]
      /\ extensions \in 0 .. MaxExtensions /\ Sound(app)
  BY DEF TuiInv, DiskTypes, Disk
<1>2. app' = app
  BY DEF Others
<1>3. /\ pointer' \in Names \cup {None} /\ presets' \in [Names -> Docs \cup {Absent, Broken}]
      /\ extensions' \in 0 .. MaxExtensions
  <2>1. CASE /\ \E n \in Names : \E c \in Documents \cup {Absent, Broken} :
                    presets' = [presets EXCEPT ![n] = c]
             /\ UNCHANGED <<pointer, extensions>>
    BY <1>1, <2>1, DocsAre
  <2>2. CASE pointer' \in Existing \ {pointer} /\ UNCHANGED <<presets, extensions>>
    BY <1>1, <2>2 DEF Existing
  <2>3. CASE extensions' \in 0 .. MaxExtensions /\ UNCHANGED <<pointer, presets>>
    BY <1>1, <2>3
  <2> QED BY <2>1, <2>2, <2>3 DEF Others
<1>4. DiskTypes(Disk)'
  BY <1>3 DEF DiskTypes, Disk
<1> QED BY <1>1, <1>2, <1>4 DEF TuiInv

-----------------------------------------------------------------------------
(* The terminal interface: the keys that write the active preset.           *)

\* A new document was written, and the App b shows it.
Wrote(a, new, b) ==
  /\ a.active # None /\ presets[a.active] \notin {Absent, Broken} /\ new # Refused
  /\ presets' = [presets EXCEPT ![a.active] = new] /\ app' = b
  /\ UNCHANGED <<pointer, extensions>>

\* The document that was there.
LEMMA WrittenOver ==
  ASSUME TuiInv, NEW a, a.active = ActiveIn(Disk), NEW new, NEW b, Wrote(a, new, b)
  PROVE  pointer \in Names /\ a.active = pointer /\ presets[pointer] \in Docs
<1>1. a.active = pointer /\ pointer \in Names
  BY DEF Wrote, ActiveIn, ExistingIn, Disk
<1>2. presets \in [Names -> Docs \cup {Absent, Broken}]
  BY DEF TuiInv, DiskTypes, Disk
<1> QED BY <1>1, <1>2 DEF Wrote

\* One document is written, and it is the active one.
LEMMA WroteSound ==
  ASSUME TuiInv, NEW a, a.active = ActiveIn(Disk), NEW new \in Docs, NEW b,
         Wrote(a, new, b), Sound(b), EditsAsShown(presets[pointer], new, app.mode)
  PROVE  TuiInv' /\ AsShown
<1>1. pointer \in Names /\ a.active = pointer /\ presets[pointer] \in Docs
  BY WrittenOver
<1>2. /\ pointer \in Names \cup {None} /\ presets \in [Names -> Docs \cup {Absent, Broken}]
      /\ extensions \in 0 .. MaxExtensions
  BY DEF TuiInv, DiskTypes, Disk
<1>3. presets' = [presets EXCEPT ![pointer] = new] /\ app' = b
      /\ UNCHANGED <<pointer, extensions>>
  BY <1>1 DEF Wrote
<1>4. DiskTypes(Disk)'
  BY <1>2, <1>3 DEF DiskTypes, Disk
<1>5. Sound(app')
  BY <1>3
<1>6. presets'[pointer] = new /\ new \notin {Absent, Broken}
      /\ presets[pointer] \notin {Absent, Broken}
      /\ \A n \in Names : n # pointer => presets'[n] = presets[n]
  BY <1>1, <1>2, <1>3, Nothing
<1>7. AsShown
  BY <1>6 DEF AsShown, EditsActive
<1> QED BY <1>4, <1>5, <1>7 DEF TuiInv

LEMMA SeparatorCommitted ==
  ASSUME CommitSeparator
  PROVE  \/ Becomes(Confirmed)
         \/ \E text \in Texts :
              Wrote(Confirmed, WriteSeparator(presets[Confirmed.active], text),
                    [Confirmed EXCEPT !.separator = text])
<1>1. PICK text \in Texts :
        Write(Confirmed, LAMBDA doc : WriteSeparator(doc, text),
              LAMBDA doc : [Confirmed EXCEPT !.separator = text])
  BY DEF CommitSeparator
<1> DEFINE a == Confirmed
           new == WriteSeparator(presets[a.active], text)
<1>2. Becomes(a) \/ Wrote(a, new, [a EXCEPT !.separator = text])
  BY <1>1 DEF Write, Wrote
<1> QED BY <1>2

LEMMA SeparatorSound ==
  ASSUME NEW a, Sound(a), a.active # None, NEW text \in Texts
  PROVE  LET b == [a EXCEPT !.separator = text]
         IN  /\ Sound(b) /\ b.active = a.active /\ b.modules = a.modules
             /\ b.separator = text
<1> DEFINE b == [a EXCEPT !.separator = text]
<1>1. /\ b \in Apps /\ b.active = a.active /\ b.modules = a.modules
      /\ b.cache = a.cache /\ b.selected = a.selected /\ b.params = a.params
      /\ b.listed = a.listed /\ b.extSelected = a.extSelected /\ b.mode = a.mode
      /\ b.separator = text
  BY DEF Sound, Apps
<1> HIDE DEF b
<1>2. SelectedEntry(b) = SelectedEntry(a) /\ SelectionFits(b)
  BY <1>1, SameSelection DEF Sound, Copied
<1>3. ParamsFit(b) /\ Inactive(b) /\ (b.modules # None => b.cache # None)
  BY <1>1, <1>2 DEF Sound, Copied, ParamsFit, Inactive
<1>4. ExtensionsFit(b) /\ ModeFits(b)
  BY <1>1, <1>2 DEF Sound, ExtensionsFit, ModeFits
<1> QED BY <1>1, <1>2, <1>3, <1>4 DEF Sound, Copied, b

LEMMA ConfirmedStays ==
  ASSUME TuiInv, Becomes(Confirmed)
  PROVE  TuiInv' /\ AsShown
<1>1. Sound(Confirmed) /\ app' = Confirmed /\ UNCHANGED disk
  BY ConfirmedIs DEF Becomes
<1> QED BY <1>1, BecomesSound

LEMMA CommitSeparatorStep ==
  ASSUME TuiInv, CommitSeparator
  PROVE  TuiInv' /\ AsShown
<1>1. CASE Becomes(Confirmed)
  BY <1>1, ConfirmedStays
<1>2. ASSUME NEW text \in Texts,
             Wrote(Confirmed, WriteSeparator(presets[Confirmed.active], text),
                   [Confirmed EXCEPT !.separator = text])
      PROVE  TuiInv' /\ AsShown
  <2> DEFINE a == Confirmed
             new == WriteSeparator(presets[pointer], text)
             b == [a EXCEPT !.separator = text]
  <2>1. Sound(a) /\ a.active = ActiveIn(Disk)
    BY ConfirmedIs
  <2>2. pointer \in Names /\ a.active = pointer /\ presets[pointer] \in Docs
    BY <1>2, <2>1, WrittenOver
  <2>3. Wrote(a, new, b) /\ app' = b
    BY <1>2, <2>2 DEF Wrote
  <2>4. /\ new \in Docs /\ new.modules = presets[pointer].modules
        /\ new.sections = presets[pointer].sections /\ new.separator = text
    BY <2>2, SeparatorWritten
  <2> HIDE DEF a, new
  <2>5. a.active # None
    BY <2>2, Nothing
  <2>6. Sound(b) /\ b.active = pointer /\ b.separator = text
    BY <2>1, <2>2, <2>5, SeparatorSound
  <2> HIDE DEF b
  <2>7. EditsAsShown(presets[pointer], new, app.mode)
    <3>1. app.mode.is = "EditingSeparator"
      BY DEF CommitSeparator, InMode
    <3> QED BY <2>3, <2>4, <2>6, <3>1 DEF EditsAsShown, ModuleModes, ParamWrites
  <2> QED BY <2>1, <2>3, <2>4, <2>6, <2>7, WroteSound
<1> QED BY <1>1, <1>2, SeparatorCommitted

LEMMA ModuleMoved ==
  ASSUME MoveModule
  PROVE  \/ Becomes(Fresh)
         \/ \E k \in DOMAIN Fresh.modules :
              LET i     == Fresh.selected
                  order == [Fresh.modules EXCEPT ![i] = Fresh.modules[k],
                                                 ![k] = Fresh.modules[i]]
              IN  Wrote(Fresh, WriteModuleOrder(presets[Fresh.active], order),
                        Rebuild([Fresh EXCEPT !.modules = order, !.selected = k], TRUE))
<1> DEFINE a == Fresh
           order(k) == [a.modules EXCEPT ![a.selected] = a.modules[k],
                                         ![k] = a.modules[a.selected]]
           after(k) == Rebuild([a EXCEPT !.modules = order(k), !.selected = k], TRUE)
<1>1. PICK k \in DOMAIN a.modules :
        Write(a, LAMBDA doc : WriteModuleOrder(doc, order(k)), LAMBDA doc : after(k))
  BY DEF MoveModule
<1>2. Becomes(a) \/ Wrote(a, WriteModuleOrder(presets[a.active], order(k)), after(k))
  BY <1>1 DEF Write, Wrote
<1> QED BY <1>2

LEMMA MoveModuleStep ==
  ASSUME TuiInv, MoveModule
  PROVE  TuiInv' /\ AsShown
<1>1. /\ Sound(Fresh) /\ PresetMode(Fresh.mode) /\ Fresh.active = ActiveIn(Disk)
      /\ SelectedEntry(Fresh) # None
  BY FreshIs DEF MoveModule, Focused
<1>2. CASE Becomes(Fresh)
  BY <1>1, <1>2, BecomesSound DEF Becomes
<1>3. ASSUME NEW k \in DOMAIN Fresh.modules,
             LET i     == Fresh.selected
                 order == [Fresh.modules EXCEPT ![i] = Fresh.modules[k],
                                                ![k] = Fresh.modules[i]]
             IN  Wrote(Fresh, WriteModuleOrder(presets[Fresh.active], order),
                       Rebuild([Fresh EXCEPT !.modules = order, !.selected = k], TRUE))
      PROVE  TuiInv' /\ AsShown
  <2> DEFINE a == Fresh
             order == [a.modules EXCEPT ![a.selected] = a.modules[k],
                                        ![k] = a.modules[a.selected]]
             new == WriteModuleOrder(presets[pointer], order)
             c == [a EXCEPT !.modules = order, !.selected = k]
             b == Rebuild(c, TRUE)
  <2>1. Wrote(a, WriteModuleOrder(presets[a.active], order), b)
    BY <1>3
  <2>2. /\ a \in Apps /\ Copied(a) /\ ExtensionsFit(a) /\ a.active # None /\ a.cache # None
        /\ a.modules \in Seq(Entry) /\ a.selected \in 1 .. Len(a.modules)
    BY <1>1, SelectedThere
  <2>3. k \in Nat /\ k \in 1 .. Len(a.modules)
    BY <1>3, <2>2
  <2> HIDE DEF a
  <2>4. order \in Seq(Entry) /\ Len(order) = Len(a.modules)
    BY <2>2, <2>3
  <2>5. k \in IF order = <<>> THEN {0} ELSE 1 .. Len(order)
    BY <2>3, <2>4
  <2> HIDE DEF order
  <2>6. Sound(b) /\ b.active = a.active /\ b.modules = order
    BY <1>1, <2>2, <2>3, <2>4, <2>5, OtherEntry DEF a
  <2> HIDE DEF b
  <2>7. pointer \in Names /\ a.active = pointer /\ presets[pointer] \in Docs
    BY <1>1, <2>1, WrittenOver DEF a
  <2>8. Wrote(a, new, b) /\ app' = b /\ new # Refused
    BY <2>1, <2>7 DEF Wrote
  <2>9. /\ new \in Docs /\ new.modules = order
        /\ SameEntries(presets[pointer].modules, order)
        /\ new.sections = presets[pointer].sections
        /\ new.separator = presets[pointer].separator
    BY <2>4, <2>7, <2>8, OrderWritten
  <2> HIDE DEF new
  <2>10. EditsAsShown(presets[pointer], new, app.mode)
    <3>1. app.mode.is = "Normal"
      BY DEF MoveModule, Focused, InMode
    <3>2. ModulesAsShown(presets[pointer].modules, new.modules, app.mode)
      BY <2>9, <3>1 DEF ModulesAsShown
    <3> QED BY <2>6, <2>7, <2>8, <2>9, <3>1, <3>2 DEF EditsAsShown, ModuleModes, ParamWrites
  <2> QED BY <1>1, <2>6, <2>8, <2>9, <2>10, WroteSound DEF a
<1> QED BY <1>2, <1>3, ModuleMoved

LEMMA AddCommitted ==
  ASSUME CommitAddModule
  PROVE  \/ Becomes(Confirmed)
         \/ \E instance \in Instances :
              LET a     == Confirmed
                  entry == <<app.mode.kind, instance>>
              IN  Wrote(a, WriteModuleAdd(presets[a.active], a.modules, entry),
                        Rebuild([a EXCEPT !.modules = Append(@, entry),
                                          !.selected = Len(a.modules) + 1], TRUE))
<1> DEFINE a == Confirmed
           entry(x) == <<app.mode.kind, x>>
           after(x) == Rebuild([a EXCEPT !.modules = Append(@, entry(x)),
                                         !.selected = Len(a.modules) + 1], TRUE)
<1>1. PICK x \in Instances :
        Write(a, LAMBDA doc : WriteModuleAdd(doc, a.modules, entry(x)), LAMBDA doc : after(x))
  BY DEF CommitAddModule
<1>2. \/ Becomes(a)
      \/ Wrote(a, WriteModuleAdd(presets[a.active], a.modules, entry(x)), after(x))
  BY <1>1 DEF Write, Wrote
<1> QED BY <1>2

LEMMA CommitAddModuleStep ==
  ASSUME TuiInv, CommitAddModule
  PROVE  TuiInv' /\ AsShown
<1>1. /\ Sound(Confirmed) /\ PresetMode(Confirmed.mode)
      /\ Confirmed.active = ActiveIn(Disk)
  BY ConfirmedIs
<1>2. CASE Becomes(Confirmed)
  BY <1>2, ConfirmedStays
<1>3. ASSUME NEW instance \in Instances,
             LET a     == Confirmed
                 entry == <<app.mode.kind, instance>>
             IN  Wrote(a, WriteModuleAdd(presets[a.active], a.modules, entry),
                       Rebuild([a EXCEPT !.modules = Append(@, entry),
                                         !.selected = Len(a.modules) + 1], TRUE))
      PROVE  TuiInv' /\ AsShown
  <2> DEFINE a == Confirmed
             entry == <<app.mode.kind, instance>>
             list == Append(a.modules, entry)
             k == Len(a.modules) + 1
             new == WriteModuleAdd(presets[pointer], a.modules, entry)
             c == [a EXCEPT !.modules = list, !.selected = k]
             b == Rebuild(c, TRUE)
  <2>1. entry \in Entry
    <3>1. app.mode \in Modes /\ app.mode.is = "NamingModuleInstance"
      BY DEF TuiInv, Sound, Apps, CommitAddModule, InMode
    <3>2. app.mode.kind \in Range(Kinds)
      BY <3>1, ModeParts
    <3> QED BY <3>2 DEF Entry
  <2>2. Wrote(a, WriteModuleAdd(presets[a.active], a.modules, entry), b)
    <3>1. a \in Apps
      BY <1>1 DEF Sound
    <3>2. [a EXCEPT !.modules = Append(@, entry), !.selected = Len(a.modules) + 1] = c
      BY <3>1 DEF Apps
    <3> QED BY <1>3, <3>2
  <2> HIDE DEF a, b, entry
  <2>3. pointer \in Names /\ a.active = pointer /\ presets[pointer] \in Docs
    BY <1>1, <2>2, WrittenOver DEF a
  <2>4. Wrote(a, new, b) /\ app' = b /\ new # Refused
    BY <2>2, <2>3 DEF Wrote
  <2>5. /\ a.modules \in Seq(Entry) /\ new \in Docs
        /\ a.modules = presets[pointer].modules /\ entry \notin Range(a.modules)
        /\ new.modules = list /\ new.sections = presets[pointer].sections
        /\ new.separator = presets[pointer].separator
    BY <2>1, <2>3, <2>4, ModuleAdded
  <2> HIDE DEF new
  <2>6. list \in Seq(Entry) /\ list # <<>> /\ k \in Nat /\ k \in 1 .. Len(list)
    BY <2>1, <2>5
  <2>7. /\ a \in Apps /\ Copied(a) /\ ExtensionsFit(a) /\ a.active # None /\ a.cache # None
    <3>1. a.modules # None /\ a.active # None
      BY <2>3, <2>5, Nothing
    <3> QED BY <1>1, <3>1 DEF a, Sound, Copied
  <2>10. list = Append(presets[pointer].modules, entry)
    BY <2>5
  <2> HIDE DEF list, k
  <2>8. Sound(b) /\ b.active = a.active /\ b.modules = list
    BY <1>1, <2>6, <2>7, OtherEntry DEF a, b
  <2>9. EditsAsShown(presets[pointer], new, app.mode)
    <3>1. app.mode.is = "NamingModuleInstance"
      BY DEF CommitAddModule, InMode
    <3>2. ModulesAsShown(presets[pointer].modules, new.modules, app.mode)
      BY <2>5, <2>10, <3>1 DEF ModulesAsShown, entry
    <3> QED BY <2>3, <2>4, <2>5, <2>8, <3>1, <3>2 DEF EditsAsShown, ModuleModes, ParamWrites
  <2> QED BY <1>1, <2>4, <2>5, <2>8, <2>9, WroteSound DEF a
<1> QED BY <1>2, <1>3, AddCommitted

LEMMA RemoveCommitted ==
  ASSUME CommitRemoveModule
  PROVE  \/ Becomes(Confirmed)
         \/ LET a    == Confirmed
                k    == app.mode.index
                rest == RemoveAt(app.modules, k)
            IN  Wrote(a, WriteModuleRemove(presets[a.active], app.modules, k),
                      Rebuild([a EXCEPT !.modules = rest, !.selected = Min({k, Len(rest)}),
                                        !.focus = IF rest = <<>> THEN "Modules" ELSE @], TRUE))
<1> DEFINE a == Confirmed
           k == app.mode.index
           rest == RemoveAt(app.modules, k)
           after == Rebuild([a EXCEPT !.modules = rest, !.selected = Min({k, Len(rest)}),
                                      !.focus = IF rest = <<>> THEN "Modules" ELSE @], TRUE)
<1>1. Write(a, LAMBDA doc : WriteModuleRemove(doc, app.modules, k), LAMBDA doc : after)
  BY DEF CommitRemoveModule
<1>2. \/ Becomes(a)
      \/ Wrote(a, WriteModuleRemove(presets[a.active], app.modules, k), after)
  BY <1>1 DEF Write, Wrote
<1> QED BY <1>2

LEMMA CommitRemoveModuleStep ==
  ASSUME TuiInv, CommitRemoveModule
  PROVE  TuiInv' /\ AsShown
<1> DEFINE a == Confirmed
           k == app.mode.index
           rest == RemoveAt(app.modules, k)
           place == Min({k, Len(rest)})
           new == WriteModuleRemove(presets[pointer], app.modules, k)
           c == [a EXCEPT !.focus = IF rest = <<>> THEN "Modules" ELSE @]
           d == [c EXCEPT !.modules = rest, !.selected = place]
           b == Rebuild(d, TRUE)
<1>1. /\ Sound(a) /\ PresetMode(a.mode) /\ a.active = ActiveIn(Disk) /\ a \in Apps
      /\ \/ SameCopy(app, a)
         \/ a.active # None /\ presets[a.active] \in Docs => a.cache = presets[a.active]
  BY ConfirmedIs DEF Sound
<1>2. CASE Becomes(Confirmed)
  BY <1>2, ConfirmedStays
<1>3. CASE Wrote(a, WriteModuleRemove(presets[a.active], app.modules, k),
                 Rebuild([a EXCEPT !.modules = rest, !.selected = Min({k, Len(rest)}),
                                   !.focus = IF rest = <<>> THEN "Modules" ELSE @], TRUE))
  <2>1. Wrote(a, WriteModuleRemove(presets[a.active], app.modules, k), b)
    <3>1. [a EXCEPT !.modules = rest, !.selected = Min({k, Len(rest)}),
                    !.focus = IF rest = <<>> THEN "Modules" ELSE @] = d
      BY <1>1 DEF Apps
    <3> QED BY <1>3, <3>1
  <2> HIDE DEF b
  <2>2. pointer \in Names /\ a.active = pointer /\ presets[pointer] \in Docs
    BY <1>1, <2>1, WrittenOver
  <2>3. Wrote(a, new, b) /\ app' = b /\ new # Refused
    BY <2>1, <2>2 DEF Wrote
  <2>4. /\ app.modules = presets[pointer].modules /\ app.modules \in Seq(Entry)
        /\ k \in 1 .. Len(app.modules) /\ rest \in Seq(Entry)
        /\ Len(rest) = Len(app.modules) - 1
        /\ new \in Docs /\ new.modules = rest /\ new.sections = presets[pointer].sections
        /\ new.separator = presets[pointer].separator
    BY <2>2, <2>3, ModuleRemoved
  <2> HIDE DEF new
  <2>5. app.modules[k] = app.mode.name
    <3>1. /\ app.mode.is = "ConfirmingRemove" /\ Sound(app)
      BY DEF CommitRemoveModule, InMode, TuiInv
    <3>2. k = app.selected /\ app.mode.name = SelectedEntry(app)
      BY <3>1 DEF Sound, ModeFits
    <3>3. app.selected # 0
      BY <2>4, <3>2
    <3>4. SelectedEntry(app) = app.modules[app.selected]
      BY <3>1, <3>3, SelectedThere
    <3> QED BY <3>2, <3>4
  <2>6. a.cache # None
    <3>1. CASE SameCopy(app, a)
      <4>1. app.cache # None
        BY <2>4, Nothing DEF TuiInv, Sound, Copied
      <4> QED BY <3>1, <4>1 DEF SameCopy
    <3>2. CASE a.active # None /\ presets[a.active] \in Docs => a.cache = presets[a.active]
      BY <2>2, <3>2, Nothing
    <3> QED BY <1>1, <3>1, <3>2
  <2> HIDE DEF a, rest, k
  <2>7. /\ c \in Apps /\ SameCopy(a, c) /\ c.mode = a.mode /\ c.listed = a.listed
        /\ c.extSelected = a.extSelected
    BY <1>1 DEF Apps, SameCopy
  <2> HIDE DEF c
  <2>8. /\ Copied(c) /\ ExtensionsFit(c) /\ c.active = pointer /\ c.active # None
        /\ c.cache # None
    BY <1>1, <2>2, <2>6, <2>7, StaysCopied, Nothing DEF Sound, SameCopy, ExtensionsFit
  <2>9. place \in Nat /\ place \in IF rest = <<>> THEN {0} ELSE 1 .. Len(rest)
    <3> DEFINE len == Len(rest)
    <3>1. rest \in Seq(Entry) /\ Len(app.modules) \in Nat /\ k \in 1 .. Len(app.modules)
      BY <2>4
    <3>2. len \in Nat /\ k \in Nat /\ k >= 1 /\ (rest = <<>> <=> len = 0)
      BY ONLY <3>1
    <3> HIDE DEF len
    <3>3. Min({k, len}) = IF k <= len THEN k ELSE len
      BY <3>2, Min2
    <3>4. place = Min({k, len})
      BY DEF len
    <3>5. place \in Nat /\ place \in IF rest = <<>> THEN {0} ELSE 1 .. len
      BY <3>2, <3>3, <3>4
    <3> QED BY <3>5 DEF len
  <2> HIDE DEF place
  <2>10. Sound(b) /\ b.active = c.active /\ b.modules = rest
    BY <1>1, <2>4, <2>7, <2>8, <2>9, OtherEntry DEF b
  <2>11. EditsAsShown(presets[pointer], new, app.mode)
    <3>1. app.mode.is = "ConfirmingRemove"
      BY DEF CommitRemoveModule, InMode
    <3>2. rest = RemoveAt(presets[pointer].modules, app.mode.index)
          /\ presets[pointer].modules[app.mode.index] = app.mode.name
      BY <2>4, <2>5 DEF rest, k
    <3>3. ModulesAsShown(presets[pointer].modules, new.modules, app.mode)
      BY <2>4, <3>1, <3>2 DEF ModulesAsShown
    <3> QED BY <2>3, <2>4, <2>8, <2>10, <3>1, <3>3 DEF EditsAsShown, ModuleModes, ParamWrites
  <2> QED BY <1>1, <2>3, <2>4, <2>10, <2>11, WroteSound
<1> QED BY <1>2, <1>3, RemoveCommitted

\* One row of the section of the overlay was written.
LEMMA ParamCommitted ==
  ASSUME TuiInv, NEW new, NEW b, Wrote(Confirmed, new, b), app.mode.is \in ParamWrites,
         presets[pointer] \in Docs =>
            /\ new \in Docs /\ OneSection(presets[pointer], new, app.mode.section)
            /\ RowsAsShown(RowsIn(presets[pointer], app.mode.section),
                           RowsIn(new, app.mode.section), app.mode),
         new \in Docs => Sound(b) /\ b.active = Confirmed.active /\ b.cache = new
  PROVE  TuiInv' /\ AsShown
<1>1. Confirmed.active = ActiveIn(Disk)
  BY ConfirmedIs
<1>2. pointer \in Names /\ Confirmed.active = pointer /\ presets[pointer] \in Docs
  BY <1>1, WrittenOver
<1>3. app' = b
  BY DEF Wrote
<1>4. app.mode.section = SelectedEntry(app)
  BY DEF TuiInv, Sound, ModeFits, ParamModes, ParamWrites
<1>5. app.mode.is \notin ModuleModes /\ app.mode.is # "EditingSeparator"
  BY DEF ParamWrites, ModuleModes
<1>6. EditsAsShown(presets[pointer], new, app.mode)
  BY <1>2, <1>3, <1>4, <1>5 DEF EditsAsShown, OneSection
<1> QED BY <1>1, <1>2, <1>6, WroteSound

LEMMA ParamValueCommitted ==
  ASSUME CommitParamValue
  PROVE  \/ Becomes(Confirmed)
         \/ \E text \in Texts : \E keep :
              LET a == Confirmed
                  m == app.mode
                  new == WriteParamSet(presets[a.active], m.section, m.key, text, m.expect)
              IN  Wrote(a, new, SelectKey(Reloaded(a, new), keep))
<1> DEFINE a == Confirmed
           m == app.mode
           keep == IF m.expect = KeyAbsent /\ SelectedParam(a) # None
                   THEN SelectedParam(a).key ELSE m.key
<1>1. PICK text \in Texts :
        Write(a, LAMBDA doc : WriteParamSet(doc, m.section, m.key, text, m.expect),
              LAMBDA doc : SelectKey(Reloaded(a, doc), keep))
  BY DEF CommitParamValue
<1> DEFINE new == WriteParamSet(presets[a.active], m.section, m.key, text, m.expect)
<1>2. Becomes(a) \/ Wrote(a, new, SelectKey(Reloaded(a, new), keep))
  BY <1>1 DEF Write, Wrote
<1> HIDE DEF keep
<1> QED BY <1>2

LEMMA CommitParamValueStep ==
  ASSUME TuiInv, CommitParamValue
  PROVE  TuiInv' /\ AsShown
<1>1. CASE Becomes(Confirmed)
  BY <1>1, ConfirmedStays
<1>2. ASSUME NEW text \in Texts, NEW keep,
             LET a == Confirmed
                 m == app.mode
                 new == WriteParamSet(presets[a.active], m.section, m.key, text, m.expect)
             IN  Wrote(a, new, SelectKey(Reloaded(a, new), keep))
      PROVE  TuiInv' /\ AsShown
  <2> DEFINE a == Confirmed
             m == app.mode
             new == WriteParamSet(presets[pointer], m.section, m.key, text, m.expect)
             old == WriteParamSet(presets[a.active], m.section, m.key, text, m.expect)
             b == SelectKey(Reloaded(a, new), keep)
  <2>1. Sound(a) /\ a.active = ActiveIn(Disk)
    BY ConfirmedIs
  <2>2. pointer \in Names /\ a.active = pointer /\ presets[pointer] \in Docs
    <3>1. Wrote(a, old, SelectKey(Reloaded(a, old), keep))
      BY <1>2
    <3> QED BY <2>1, <3>1, WrittenOver
  <2>3. Wrote(a, new, b) /\ new # Refused
    BY <1>2, <2>2 DEF Wrote
  <2>4. m.is = "EditingParamValue" /\ m.section \in Entry /\ m.key \in ParamKeys
    <3>1. m \in Modes /\ m.is = "EditingParamValue"
      BY DEF TuiInv, Sound, Apps, CommitParamValue, InMode
    <3>2. m.is \in ParamModes
      BY <3>1 DEF ParamModes
    <3> QED BY <3>1, <3>2, ModeParts
  <2>5. /\ new \in Docs /\ OneSection(presets[pointer], new, m.section)
        /\ RowsAsShown(RowsIn(presets[pointer], m.section), RowsIn(new, m.section), m)
    BY <2>2, <2>3, <2>4, ParamWritten
  <2> HIDE DEF m, a, new
  <2>6. new \in Docs => Sound(b) /\ b.active = a.active /\ b.cache = new
    <3>1. a.active # None
      BY <2>2, Nothing
    <3>2. ASSUME new \in Docs
          PROVE  /\ Sound(Reloaded(a, new)) /\ Reloaded(a, new).active = a.active
                 /\ Reloaded(a, new).cache = new
      BY <2>1, <3>1, <3>2, ReloadedSound
    <3> QED BY <3>2, KeySelected
  <2> HIDE DEF b
  <2>7. m.is \in ParamWrites
    BY <2>4 DEF ParamWrites
  <2> QED BY <2>3, <2>5, <2>6, <2>7, ParamCommitted DEF a, m
<1> QED BY <1>1, <1>2, ParamValueCommitted

LEMMA CommitRemoveParamStep ==
  ASSUME TuiInv, CommitRemoveParam
  PROVE  TuiInv' /\ AsShown
<1> DEFINE a == Confirmed
           m == app.mode
           new == WriteParamRemove(presets[a.active], m.section, m.key)
           b == Reloaded(a, new)
<1>1. Write(a, LAMBDA doc : WriteParamRemove(doc, m.section, m.key),
            LAMBDA doc : Reloaded(a, doc))
  BY DEF CommitRemoveParam
<1>2. Becomes(a) \/ Wrote(a, new, b)
  BY <1>1 DEF Write, Wrote
<1>3. CASE Becomes(Confirmed)
  BY <1>3, ConfirmedStays
<1>4. CASE Wrote(a, new, b)
  <2>1. /\ m \in Modes /\ m.is = "ConfirmingRemoveParam"
    BY DEF TuiInv, Sound, Apps, CommitRemoveParam, InMode
  <2>2. m.section \in Entry
    BY <2>1, ModeParts DEF ParamModes
  <2>3. Sound(a) /\ a.active = ActiveIn(Disk)
    BY ConfirmedIs
  <2>4. a.active = pointer /\ a.active # None /\ new # Refused
    BY <1>4, <2>3, WrittenOver DEF Wrote
  <2>5. presets[pointer] \in Docs =>
          /\ new \in Docs /\ OneSection(presets[pointer], new, m.section)
          /\ RowsAsShown(RowsIn(presets[pointer], m.section), RowsIn(new, m.section), m)
    BY <2>1, <2>2, <2>4, ParamRemoved
  <2> HIDE DEF a, m, new
  <2>6. new \in Docs => Sound(b) /\ b.active = a.active /\ b.cache = new
    BY <2>3, <2>4, ReloadedSound
  <2> HIDE DEF b
  <2>7. m.is \in ParamWrites
    BY <2>1 DEF ParamWrites
  <2> QED BY <1>4, <2>5, <2>6, <2>7, ParamCommitted DEF a, m
<1> QED BY <1>2, <1>3, <1>4

LEMMA CommitRenameParamStep ==
  ASSUME TuiInv, CommitRenameParam
  PROVE  TuiInv' /\ AsShown
<1> DEFINE a == Confirmed
           m == app.mode
<1>1. PICK key \in ParamKeys :
        Write(a, LAMBDA doc : WriteParamRename(doc, m.section, m.key, key),
              LAMBDA doc : SelectKey(Reloaded(a, doc), key))
  BY DEF CommitRenameParam
<1> DEFINE new == WriteParamRename(presets[a.active], m.section, m.key, key)
           b == SelectKey(Reloaded(a, new), key)
<1>2. Becomes(a) \/ Wrote(a, new, b)
  BY <1>1 DEF Write, Wrote
<1>3. CASE Becomes(Confirmed)
  BY <1>3, ConfirmedStays
<1>4. CASE Wrote(a, new, b)
  <2>1. /\ m \in Modes /\ m.is = "RenamingParamKey"
    BY DEF TuiInv, Sound, Apps, CommitRenameParam, InMode
  <2>2. m.section \in Entry
    BY <2>1, ModeParts DEF ParamModes
  <2>3. Sound(a) /\ a.active = ActiveIn(Disk)
    BY ConfirmedIs
  <2>4. a.active = pointer /\ a.active # None /\ new # Refused
    BY <1>4, <2>3, WrittenOver DEF Wrote
  <2>5. presets[pointer] \in Docs =>
          /\ new \in Docs /\ OneSection(presets[pointer], new, m.section)
          /\ RowsAsShown(RowsIn(presets[pointer], m.section), RowsIn(new, m.section), m)
    BY <2>1, <2>2, <2>4, ParamRenamed
  <2> HIDE DEF a, m, new
  <2>6. new \in Docs => Sound(b) /\ b.active = a.active /\ b.cache = new
    <3>1. ASSUME new \in Docs
          PROVE  /\ Sound(Reloaded(a, new)) /\ Reloaded(a, new).active = a.active
                 /\ Reloaded(a, new).cache = new
      BY <2>3, <2>4, <3>1, ReloadedSound
    <3> QED BY <3>1, KeySelected
  <2> HIDE DEF b
  <2>7. m.is \in ParamWrites
    BY <2>1 DEF ParamWrites
  <2> QED BY <1>4, <2>5, <2>6, <2>7, ParamCommitted DEF a, m
<1> QED BY <1>2, <1>3, <1>4

-----------------------------------------------------------------------------
(* The terminal interface: presets and packages.                            *)

LEMMA ToListSound ==
  ASSUME NEW a, Sound(a), NEW d
  PROVE  Sound(ToList(a, d))
<1> DEFINE list == [is |-> "ChoosingPreset", names |-> ListedNames(d), selected |-> 1]
           m == IF ListedNames(d) = <<>> THEN Normal ELSE list
<1>1. PresetMode(m)
  BY NormalMode, ListMode
<1>2. ToList(a, d) = [a EXCEPT !.mode = m]
  BY DEF ToList
<1> HIDE DEF m
<1>3. m \in Modes /\ Fits(m, a)
  BY <1>1 DEF PresetMode, Fits, ParamModes
<1> QED BY <1>2, <1>3, OverlayFits

LEMMA ManagePresetsStep ==
  ASSUME TuiInv, ManagePresets
  PROVE  TuiInv' /\ AsShown
<1>1. Sound(Fresh) /\ app' = ToList(Fresh, Disk) /\ UNCHANGED disk
  BY FreshIs DEF ManagePresets, Becomes
<1>2. Sound(ToList(Fresh, Disk))
  BY <1>1, ToListSound
<1> QED BY <1>1, <1>2, BecomesSound

\* The list of presets, and the place that is selected in it.
LEMMA InListIs ==
  ASSUME TuiInv, InList
  PROVE  /\ Sound(Fresh) /\ Fresh.active = ActiveIn(Disk)
         /\ Fresh.mode.names \in Seq(Names)
         /\ Fresh.mode.selected \in DOMAIN Fresh.mode.names
         /\ Fresh.mode.names[Fresh.mode.selected] \in Names
<1>1. /\ Sound(Fresh) /\ PresetMode(Fresh.mode) /\ Fresh.active = ActiveIn(Disk)
      /\ Fresh.mode.is = "ChoosingPreset"
  BY FreshIs DEF InList
<1>2. /\ Fresh.mode.names \in Seq(Names) /\ Fresh.mode.selected \in DOMAIN Fresh.mode.names
  BY <1>1, ModeParts DEF PresetMode
<1> QED BY <1>1, <1>2

LEMMA ChoosePresetStep ==
  ASSUME TuiInv, ChoosePreset
  PROVE  TuiInv' /\ AsShown
<1>1. Sound(Fresh) /\ Fresh.mode \in Modes
  BY FreshIs DEF ChoosePreset, InList, Sound, Apps
<1>2. CASE Becomes(Fresh)
  BY <1>1, <1>2, BecomesSound DEF Becomes
<1>3. ASSUME InList, NEW k \in DOMAIN Fresh.mode.names,
             Becomes([Fresh EXCEPT !.mode.selected = k])
      PROVE  TuiInv' /\ AsShown
  <2> DEFINE m == [is |-> "ChoosingPreset", names |-> Fresh.mode.names, selected |-> k]
  <2>1. Fresh.mode.names \in Seq(Names) /\ Fresh.mode.is = "ChoosingPreset" /\ k \in Nat
    BY <1>3, InListIs DEF InList
  <2>2. m \in Modes /\ Fits(m, Fresh)
    BY <1>3, <2>1, TheModes DEF Fits, ParamModes
  <2>3. [Fresh EXCEPT !.mode.selected = k] = [Fresh EXCEPT !.mode = m]
    <3>1. [Fresh.mode EXCEPT !.selected = k] = m
      BY <1>1, <2>1 DEF Modes
    <3>2. [Fresh EXCEPT !.mode.selected = k]
            = [Fresh EXCEPT !.mode = [Fresh.mode EXCEPT !.selected = k]]
      BY <1>1 DEF Sound, Apps
    <3> QED BY <3>1, <3>2
  <2>4. Enters(Fresh, m)
    BY <1>3, <2>3 DEF Enters
  <2> QED BY <1>1, <2>2, <2>4, EntersSound
<1>4. CASE Enters(Fresh, Normal)
  <2>1. Normal \in Modes /\ Fits(Normal, Fresh)
    BY NormalMode DEF PresetMode, Fits, ParamModes
  <2> QED BY <1>1, <1>4, <2>1, EntersSound
<1>5. CASE Enters(Fresh, [is |-> "NamingPreset"])
  <2> DEFINE m == [is |-> "NamingPreset"]
  <2>1. m \in Modes /\ Fits(m, Fresh)
    BY TheModes DEF Fits, ParamModes
  <2> QED BY <1>1, <1>5, <2>1, EntersSound
<1>6. CASE /\ InList
           /\ LET name == Fresh.mode.names[Fresh.mode.selected]
              IN  Enters(Fresh, [is |-> "ConfirmingRemovePreset", name |-> name])
  <2> DEFINE name == Fresh.mode.names[Fresh.mode.selected]
             m == [is |-> "ConfirmingRemovePreset", name |-> name]
  <2>1. name \in Names
    BY <1>6, InListIs
  <2>2. m \in Modes /\ Fits(m, Fresh)
    BY <2>1, TheModes DEF Fits, ParamModes
  <2> QED BY <1>1, <1>6, <2>2, EntersSound
<1> QED BY <1>2, <1>3, <1>4, <1>5, <1>6 DEF ChoosePreset

\* The files after an operation on presets.
LEMMA ManagesSound ==
  ASSUME TuiInv, NEW d, DiskTypes(d), d.extensions = extensions, NEW a, Sound(a),
         Manages(d, a)
  PROVE  TuiInv' /\ presets' = d.presets
<1>1. pointer' = d.pointer /\ presets' = d.presets /\ extensions' = extensions /\ app' = a
  BY DEF Manages
<1>2. DiskTypes(Disk)'
  BY <1>1 DEF DiskTypes, Disk
<1>3. Sound(app')
  BY <1>1
<1> QED BY <1>1, <1>2, <1>3 DEF TuiInv

LEMMA SwitchPresetStep ==
  ASSUME TuiInv, SwitchPreset
  PROVE  TuiInv' /\ AsShown
<1> DEFINE name == Fresh.mode.names[Fresh.mode.selected]
           d    == [Disk EXCEPT !.pointer = name]
<1>1. Sound(Fresh) /\ name \in Names
  BY InListIs DEF SwitchPreset
<1>2. DiskTypes(d) /\ d.extensions = extensions /\ d.presets = presets
  BY <1>1 DEF TuiInv, DiskTypes, Disk
<1>3. \/ Becomes(ToList(Fresh, Disk)) \/ Manages(d, ToList(Fresh, d))
      \/ Manages(d, ToList(Refresh(Fresh, d), d))
  BY DEF SwitchPreset
<1> HIDE DEF d
<1>4. Sound(ToList(Fresh, Disk)) /\ Sound(ToList(Fresh, d))
  BY <1>1, ToListSound
<1>5. Sound(ToList(Refresh(Fresh, d), d))
  <2>1. Fresh \in Apps /\ PresetMode(Fresh.mode)
    BY FreshIs DEF SwitchPreset, InList
  <2>2. Sound(Refresh(Fresh, d))
    BY <1>2, <2>1, RefreshedApp
  <2> QED BY <2>2, ToListSound
<1>6. CASE Becomes(ToList(Fresh, Disk))
  BY <1>4, <1>6, BecomesSound DEF Becomes
<1>7. CASE Manages(d, ToList(Fresh, d)) \/ Manages(d, ToList(Refresh(Fresh, d), d))
  <2>1. TuiInv' /\ presets' = presets
    BY <1>2, <1>4, <1>5, <1>7, ManagesSound
  <2> QED BY <2>1, NothingWritten
<1> QED BY <1>3, <1>6, <1>7

\* The active preset stays, and so does every other but one that is new, or that
\* was confirmed to go.
LEMMA OtherPresetChanged ==
  ASSUME TuiInv, NEW name \in Names, name # pointer, NEW c,
         presets' = [presets EXCEPT ![name] = c],
         \/ InMode("NamingPreset") /\ presets[name] = Absent
         \/ InMode("ConfirmingRemovePreset") /\ name = app.mode.name
  PROVE  AsShown
<1>1. \A n \in Names : n # name => presets'[n] = presets[n]
  BY DEF TuiInv, DiskTypes, Disk
<1> QED BY <1>1 DEF AsShown, EditsActive

LEMMA SavePresetStep ==
  ASSUME TuiInv, SavePreset
  PROVE  TuiInv' /\ AsShown
<1>1. Sound(app)
  BY DEF TuiInv
<1>2. CASE Becomes(ToList(app, Disk))
  <2>1. Sound(ToList(app, Disk))
    BY <1>1, ToListSound
  <2> QED BY <1>2, <2>1, BecomesSound DEF Becomes
<1>3. ASSUME NEW name \in Names \ Existing,
             LET d == [Disk EXCEPT !.presets[name] = presets[pointer]]
             IN  pointer \in Existing /\ Manages(d, ToList(app, d))
      PROVE  TuiInv' /\ AsShown
  <2> DEFINE d == [Disk EXCEPT !.presets[name] = presets[pointer]]
  <2>1. /\ pointer \in Names /\ presets[pointer] # Absent
        /\ presets[name] = Absent /\ name # pointer
    BY <1>3 DEF Existing
  <2>2. /\ presets \in [Names -> Docs \cup {Absent, Broken}]
        /\ extensions \in 0 .. MaxExtensions
    BY DEF TuiInv, DiskTypes, Disk
  <2>3. /\ d.pointer = pointer /\ d.extensions = extensions
        /\ d.presets = [presets EXCEPT ![name] = presets[pointer]]
    BY DEF Disk
  <2>4. Manages(d, ToList(app, d))
    BY <1>3
  <2> HIDE DEF d
  <2>5. DiskTypes(d)
    BY <2>1, <2>2, <2>3 DEF DiskTypes
  <2>6. Sound(ToList(app, d))
    BY <1>1, ToListSound
  <2>7. TuiInv' /\ presets' = [presets EXCEPT ![name] = presets[pointer]]
    BY <2>3, <2>4, <2>5, <2>6, ManagesSound
  <2>8. AsShown
    BY <2>1, <2>7, OtherPresetChanged DEF SavePreset
  <2> QED BY <2>7, <2>8
<1> QED BY <1>2, <1>3 DEF SavePreset

LEMMA RemovePresetStep ==
  ASSUME TuiInv, RemovePreset
  PROVE  TuiInv' /\ AsShown
<1> DEFINE name == app.mode.name
           d    == [Disk EXCEPT !.presets[name] = Absent]
<1>1. Sound(app) /\ name \in Names
  <2>1. Sound(app) /\ app.mode \in Modes /\ app.mode.is = "ConfirmingRemovePreset"
    BY DEF TuiInv, Sound, Apps, RemovePreset, InMode
  <2> QED BY <2>1, ModeParts
<1>2. CASE Becomes(ToList(app, Disk))
  <2>1. Sound(ToList(app, Disk))
    BY <1>1, ToListSound
  <2> QED BY <1>2, <2>1, BecomesSound DEF Becomes
<1>3. CASE pointer \notin {None, name} /\ Manages(d, ToList(app, d))
  <2>1. /\ pointer \in Names \cup {None} /\ presets \in [Names -> Docs \cup {Absent, Broken}]
        /\ extensions \in 0 .. MaxExtensions
    BY DEF TuiInv, DiskTypes, Disk
  <2>2. /\ d.pointer = pointer /\ d.extensions = extensions
        /\ d.presets = [presets EXCEPT ![name] = Absent]
    BY DEF Disk
  <2> HIDE DEF d
  <2>3. DiskTypes(d)
    BY <1>1, <2>1, <2>2 DEF DiskTypes
  <2>4. Sound(ToList(app, d))
    BY <1>1, ToListSound
  <2>5. TuiInv' /\ presets' = [presets EXCEPT ![name] = Absent]
    BY <1>3, <2>2, <2>3, <2>4, ManagesSound
  <2>6. AsShown
    BY <1>1, <1>3, <2>5, OtherPresetChanged DEF RemovePreset
  <2> QED BY <2>5, <2>6
<1> QED BY <1>2, <1>3 DEF RemovePreset

LEMMA InstallStep ==
  ASSUME TuiInv, Install
  PROVE  TuiInv' /\ AsShown
<1>1. Sound(app) /\ Normal \in Modes /\ Fits(Normal, app)
  BY NormalMode DEF TuiInv, PresetMode, Fits, ParamModes
<1>2. Sound([app EXCEPT !.mode = Normal])
  BY <1>1, OverlayFits
<1>3. CASE /\ Focused("Modules") \/ Focused("Extensions")
           /\ Enters(Fresh, [is |-> "ChoosingInstallKind"])
  <2> DEFINE m == [is |-> "ChoosingInstallKind"]
  <2>1. Sound(Fresh) /\ m \in Modes /\ Fits(m, Fresh)
    BY <1>3, FreshIs, TheModes DEF Fits, ParamModes, Focused
  <2> QED BY <1>3, <2>1, EntersSound
<1>4. ASSUME NEW what \in {"module", "extension"},
             Enters(app, [is |-> "EnteringInstall", what |-> what])
      PROVE  TuiInv' /\ AsShown
  <2> DEFINE m == [is |-> "EnteringInstall", what |-> what]
  <2>1. m \in Modes /\ Fits(m, app)
    BY TheModes DEF Fits, ParamModes
  <2> QED BY <1>1, <1>4, <2>1, EntersSound
<1>5. ASSUME NEW kind \in ConfiguredKinds(app) \cap Range(Kinds),
             Becomes([app EXCEPT !.mode = Normal, !.schema[kind] = "unknown"])
      PROVE  TuiInv' /\ AsShown
  <2> DEFINE a == [app EXCEPT !.mode = Normal]
  <2>1. [app EXCEPT !.mode = Normal, !.schema[kind] = "unknown"]
          = [a EXCEPT !.schema[kind] = "unknown"]
    BY <1>1 DEF Sound, Apps
  <2> HIDE DEF a
  <2>2. Sound([a EXCEPT !.schema[kind] = "unknown"])
    BY <1>2, SchemaSound DEF a
  <2>3. app' = [a EXCEPT !.schema[kind] = "unknown"] /\ UNCHANGED disk
    BY <1>5, <2>1 DEF Becomes
  <2> QED BY <2>2, <2>3, BecomesSound
<1>6. CASE /\ extensions' \in {extensions, extensions + 1} \cap (1 .. MaxExtensions)
           /\ app' = RefreshExtensions([app EXCEPT !.mode = Normal],
                                       [extensions |-> extensions'])
           /\ UNCHANGED <<pointer, presets, changes, writes>>
  <2> DEFINE a == [app EXCEPT !.mode = Normal]
             d == [extensions |-> extensions']
  <2>1. extensions' \in 0 .. MaxExtensions /\ d.extensions \in 0 .. MaxExtensions
    BY <1>6
  <2>2. app' = RefreshExtensions(a, d)
    BY <1>6
  <2> HIDE DEF a, d
  <2>3. Sound(RefreshExtensions(a, d))
    BY <1>2, <2>1, ExtensionsSound DEF a
  <2>4. DiskTypes(Disk)'
    BY <1>6, <2>1 DEF TuiInv, DiskTypes, Disk
  <2>5. Sound(app')
    BY <2>2, <2>3
  <2> QED BY <1>6, <2>4, <2>5, NothingWritten DEF TuiInv
<1> QED BY <1>3, <1>4, <1>5, <1>6 DEF Install

-----------------------------------------------------------------------------
(* The terminal interface: the theorems.                                    *)

LEMMA TuiInitInv == TuiInit => TuiInv
<1> SUFFICES ASSUME TuiInit PROVE TuiInv
  OBVIOUS
<1> DEFINE blank == [active |-> None, modules |-> None, separator |-> None,
                     cache |-> None, selected |-> 0, params |-> None,
                     schema |-> [k \in Range(Kinds) |-> "unknown"],
                     focus |-> "Modules", detail |-> "Module",
                     listed |-> 0, extSelected |-> 0, mode |-> Normal]
<1>1. DiskTypes(Disk)
  BY DocsAre, TuiAssumption DEF TuiInit, DiskTypes, Disk
<1>2. blank \in Apps /\ PresetMode(blank.mode)
  <2>1. Normal \in Modes /\ PresetMode(Normal)
    BY NormalMode DEF PresetMode
  <2> QED BY <2>1, TuiAssumption DEF Apps
<1>3. app = Refresh(blank, Disk)
  BY DEF TuiInit
<1> HIDE DEF blank
<1>4. Sound(Refresh(blank, Disk))
  BY <1>1, <1>2, RefreshedApp
<1> QED BY <1>1, <1>3, <1>4 DEF TuiInv

LEMMA KeyStep ==
  ASSUME TuiInv, Key \/ PollSchema
  PROVE  TuiInv' /\ AsShown
<1>1. CASE \/ Settle \/ Help \/ SelectModule \/ SelectParam \/ SelectExtension \/ ChangeFocus
  BY <1>1, SettleStep, HelpStep, SelectModuleStep, SelectParamStep, SelectExtensionStep,
     ChangeFocusStep
<1>2. CASE \/ BeginOnModules \/ BeginOnParams \/ ChooseKind \/ NameParam \/ Cancel
           \/ PollSchema
  BY <1>2, BeginOnModulesStep, BeginOnParamsStep, ChooseKindStep, NameParamStep, CancelStep,
     PollSchemaStep
<1>3. CASE \/ MoveModule \/ CommitAddModule \/ CommitRemoveModule \/ CommitSeparator
           \/ CommitParamValue \/ CommitRemoveParam \/ CommitRenameParam
  BY <1>3, MoveModuleStep, CommitAddModuleStep, CommitRemoveModuleStep, CommitSeparatorStep,
     CommitParamValueStep, CommitRemoveParamStep, CommitRenameParamStep
<1>4. CASE \/ ManagePresets \/ ChoosePreset \/ SwitchPreset \/ SavePreset \/ RemovePreset
           \/ Install
  BY <1>4, ManagePresetsStep, ChoosePresetStep, SwitchPresetStep, SavePresetStep,
     RemovePresetStep, InstallStep
<1> QED BY <1>1, <1>2, <1>3, <1>4 DEF Key

LEMMA TuiStuttering ==
  ASSUME TuiInv, UNCHANGED tuiVars
  PROVE  TuiInv'
BY DEF TuiInv, DiskTypes, Disk, tuiVars, disk

LEMMA TuiInvariant == TuiSpec => []TuiInv
<1>1. TuiInv /\ [TuiNext]_tuiVars => TuiInv'
  BY KeyStep, OthersStep, TuiStuttering DEF TuiNext
<1> QED BY <1>1, TuiInitInv, PTL DEF TuiSpec

\* The changes by others are counted, and by nobody else.
LEMMA ChangesCounted == TuiSpec => [](changes \in Nat)
<1>1. TuiInit => changes \in Nat
  BY DEF TuiInit
<1>2. Key \/ PollSchema => changes' = changes
  <2>1. Settle \/ Help \/ SelectModule \/ SelectParam \/ SelectExtension \/ PollSchema
          => changes' = changes
    BY DEF Settle, Help, SelectModule, SelectParam, SelectExtension, PollSchema, Enters,
       Becomes
  <2>2. ChangeFocus \/ BeginOnModules \/ BeginOnParams \/ ChooseKind \/ NameParam \/ Cancel
          => changes' = changes
    BY DEF ChangeFocus, BeginOnModules, BeginOnParams, ChooseKind, NameParam, Cancel, Enters,
       Becomes
  <2>3. MoveModule \/ CommitAddModule \/ CommitRemoveModule => changes' = changes
    BY DEF MoveModule, CommitAddModule, CommitRemoveModule, Write, Becomes
  <2>4. CommitSeparator \/ CommitParamValue \/ CommitRemoveParam \/ CommitRenameParam
          => changes' = changes
    BY DEF CommitSeparator, CommitParamValue, CommitRemoveParam, CommitRenameParam, Write,
       Becomes
  <2>5. ManagePresets \/ ChoosePreset \/ SwitchPreset \/ SavePreset \/ RemovePreset \/ Install
          => changes' = changes
    BY DEF ManagePresets, ChoosePreset, SwitchPreset, SavePreset, RemovePreset, Install,
       Manages, Enters, Becomes
  <2> QED BY <2>1, <2>2, <2>3, <2>4, <2>5 DEF Key
<1>3. changes \in Nat /\ [TuiNext]_tuiVars => (changes \in Nat)'
  BY <1>2 DEF TuiNext, Others, tuiVars
<1> QED BY <1>1, <1>3, PTL DEF TuiSpec

\* Selections stay places in the lists they are about, and nothing of a preset
\* is shown when none is active, whatever other processes do to the files.
THEOREM TuiTypes == TuiSpec => []TuiTypeOK
<1>1. TuiInv => TuiTypeOK
  <2> SUFFICES ASSUME TuiInv PROVE TuiTypeOK
    OBVIOUS
  <2>1. /\ app \in Apps /\ SelectionFits(app) /\ ParamsFit(app) /\ Inactive(app)
        /\ ExtensionsFit(app) /\ ModeFits(app)
    BY DEF TuiInv, Sound, Copied
  <2>2. pointer \in Names \cup {None} /\ extensions \in 0 .. MaxExtensions
    BY DEF TuiInv, DiskTypes, Disk
  <2>3. /\ app.active \in Names \cup {None}
        /\ app.focus \in {"Modules", "Extensions", "Params", "Logs"}
        /\ app.detail \in {"Module", "Extension"}
        /\ app.schema \in [Range(Kinds) -> {"unknown", "known", "failed"}]
    BY <2>1 DEF Apps
  <2>4. /\ app.selected = 0 <=> app.modules \in {None, <<>>}
        /\ app.selected # 0 => app.selected \in DOMAIN app.modules
    BY <2>1 DEF SelectionFits
  <2>5. app.params # None => app.params.selected \in
            IF app.params.entries = <<>> THEN {0} ELSE DOMAIN app.params.entries
    BY <2>1 DEF ParamsFit, PanelShows
  <2>6. app.extSelected \in IF app.listed = 0 THEN {0} ELSE 1 .. app.listed
    BY <2>1 DEF ExtensionsFit
  <2>7. app.active = None => {app.modules, app.cache, app.params, app.separator} = {None}
    BY <2>1 DEF Inactive
  <2>8. InMode("ConfirmingRemove") => SelectedEntry(app) = app.mode.name
    BY <2>1 DEF ModeFits, InMode
  <2> QED BY <2>2, <2>3, <2>4, <2>5, <2>6, <2>7, <2>8 DEF TuiTypeOK
<1> QED BY <1>1, TuiInvariant, PTL

\* The parameters shown are those of the selected module in the copy of the
\* preset, through every reload, write and late schema.
THEOREM ParamsShown == TuiSpec => []ParamsAreLoaded
<1>1. TuiInv => ParamsAreLoaded
  BY DEF TuiInv, Sound, Copied, ParamsFit, PanelShows, ModeFits, ParamModes, ParamsAreLoaded
<1> QED BY <1>1, TuiInvariant, PTL

\* Whatever other processes did since the copy was made, a key that writes
\* changes the preset that is active then and no other, and in it only what the
\* overlay is about: an entry of the list on the screen, the row of the key on the
\* screen (a value only where it is the one on the screen), or the separator. It
\* does not say that this is the preset whose copy was on the screen.
THEOREM ShownIsDone == TuiSpec => DoesWhatWasShown
<1>1. TuiInv /\ changes \in Nat /\ [TuiNext]_tuiVars
        => [changes' = changes =>
              /\ EditsActive
              /\ pointer \in Names /\ presets[pointer] # presets'[pointer] =>
                   EditsAsShown(presets[pointer], presets'[pointer], app.mode)]_tuiVars
  <2> SUFFICES ASSUME TuiInv, changes \in Nat, TuiNext, changes' = changes
               PROVE  AsShown
    BY DEF AsShown
  <2>1. ~Others
    BY DEF Others
  <2> QED BY <2>1, KeyStep DEF TuiNext
<1> QED BY <1>1, TuiInvariant, ChangesCounted, PTL DEF TuiSpec, DoesWhatWasShown
=============================================================================
