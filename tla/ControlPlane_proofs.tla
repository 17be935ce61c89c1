------------------------- MODULE ControlPlane_proofs -------------------------
(***************************************************************************)
(* Theorems about ControlPlane, for any number of clients, instances and   *)
(* restarts: type correctness, and that an acknowledged change of the      *)
(* preset, of a module or of an extension is not lost between the socket   *)
(* and the bar.                                                            *)
(***************************************************************************)
EXTENDS ControlPlane, SequenceTheorems, TLAPS

Versions == [Parts -> Nat]

\* Everything but the bar.
PlaneType ==
    /\ disk \in [version : [Parts -> Nat \ {0}], preset : Presets]
    /\ clients \in [Clients -> [pc : {"new", "edited", "waiting", "ok", "failed",
                                      "not_running"},
                                req : SUBSET Parts, saw : Versions]]
    /\ socket \in {"none", "stale", "bound"}
    /\ backlog \in Seq(Clients) /\ batch \subseteq Parts
    /\ channel \in Seq((SUBSET Parts) \ {{}})
    /\ process \in Nat /\ ignored \in Nat /\ crashes \in Nat

LEMMA TypeParts == TypeOK <=> PlaneType /\ BarType
  BY DEF TypeOK, PlaneType, Versions

LEMMA InitType == Init => TypeOK
<1> SUFFICES ASSUME Init PROVE PlaneType /\ BarType
  BY TypeParts
<1>1. PlaneType
  BY EmptySeq DEF Init, PlaneType, Versions
<1>2. BarType
  BY DEF Init, BarType, Off, At, Loaded
<1> QED BY <1>1, <1>2

LEMMA BarFrame == ASSUME BarType, bar' = bar PROVE BarType'
  BY DEF BarType, At, Loaded

LEMMA PlaneFrame ==
  ASSUME PlaneType, UNCHANGED <<disk, clients, socket, backlog, batch, channel,
                                process, ignored, crashes>>
  PROVE  PlaneType'
  BY DEF PlaneType

LEMMA NextType == TypeOK /\ [Next]_vars => TypeOK'
<1> SUFFICES ASSUME PlaneType, BarType, [Next]_vars PROVE PlaneType' /\ BarType'
  BY DEF TypeOK, PlaneType, Versions
<1>a. ASSUME NEW c \in Clients, NEW pc \in {"waiting", "ok", "failed", "not_running"},
             clients' = [clients EXCEPT ![c].pc = pc]
      PROVE  clients' \in [Clients -> [pc : {"new", "edited", "waiting", "ok", "failed",
                                            "not_running"},
                                      req : SUBSET Parts, saw : Versions]]
  BY <1>a DEF PlaneType
<1>1. ASSUME NEW c \in Clients, Edit(c) PROVE PlaneType' /\ BarType'
  <2>1. PICK req \in SUBSET Editable, p \in Presets :
          LET after == [x \in Parts |-> disk.version[x] + (IF x \in req THEN 1 ELSE 0)]
          IN  /\ disk' = [version |-> after,
                          preset  |-> IF "config" \in req THEN p ELSE disk.preset]
              /\ clients' = [clients EXCEPT
                               ![c] = [pc |-> "edited", req |-> req, saw |-> after]]
    BY <1>1 DEF Edit
  <2> DEFINE after == [x \in Parts |-> disk.version[x] + (IF x \in req THEN 1 ELSE 0)]
  <2>2. after \in [Parts -> Nat \ {0}] /\ after \in Versions
    BY DEF PlaneType, Versions
  <2>3. req \subseteq Parts
    BY ControlAssumption
  <2> HIDE DEF after
  <2>4. /\ disk' \in [version : [Parts -> Nat \ {0}], preset : Presets]
        /\ clients' \in [Clients -> [pc : {"new", "edited", "waiting", "ok", "failed",
                                           "not_running"},
                                     req : SUBSET Parts, saw : Versions]]
    BY <2>1, <2>2, <2>3 DEF PlaneType, after
  <2> QED BY <1>1, <2>4, BarFrame DEF Edit, PlaneType
<1>2. ASSUME NEW c \in Clients, Connect(c) PROVE PlaneType' /\ BarType'
  <2>1. Append(backlog, c) \in Seq(Clients)
    BY AppendProperties DEF PlaneType
  <2>2. clients' = [clients EXCEPT ![c].pc = clients'[c].pc]
        /\ clients'[c].pc \in {"waiting", "not_running"}
    BY <1>2 DEF Connect, PlaneType
  <2>3. backlog' \in {backlog, Append(backlog, c)}
    BY <1>2 DEF Connect
  <2>4. clients' \in [Clients -> [pc : {"new", "edited", "waiting", "ok", "failed",
                                       "not_running"},
                                 req : SUBSET Parts, saw : Versions]]
    BY <1>a, <2>2
  <2> QED BY <1>2, <2>1, <2>3, <2>4, BarFrame DEF Connect, PlaneType
<1>3. ASSUME NEW c \in Clients, GiveUp(c) PROVE PlaneType' /\ BarType'
  BY <1>3, BarFrame DEF GiveUp, PlaneType
<1>4. ASSUME Serve PROVE PlaneType' /\ BarType'
  <2>1. Head(backlog) \in Clients /\ Tail(backlog) \in Seq(Clients)
    BY <1>4, HeadTailProperties DEF Serve, PlaneType
  <2> DEFINE c == Head(backlog)
  <2>2. CASE clients[c].pc = "waiting"
    <3>1. clients' = [clients EXCEPT ![c].pc = "ok"] /\ batch' = batch \cup clients[c].req
      BY <1>4, <2>2 DEF Serve
    <3>2. clients' \in [Clients -> [pc : {"new", "edited", "waiting", "ok", "failed",
                                         "not_running"},
                                   req : SUBSET Parts, saw : Versions]]
      BY <1>a, <2>1, <3>1
    <3>3. batch' \subseteq Parts
      BY <2>1, <3>1 DEF PlaneType
    <3> QED BY <1>4, <2>1, <3>2, <3>3, BarFrame DEF Serve, PlaneType
  <2>3. CASE clients[c].pc # "waiting"
    BY <1>4, <2>1, <2>3, BarFrame DEF Serve, PlaneType
  <2> QED BY <2>2, <2>3
<1>5. ASSUME Send PROVE PlaneType' /\ BarType'
  <2>1. Append(channel, batch) \in Seq((SUBSET Parts) \ {{}})
    BY <1>5, AppendProperties DEF Send, PlaneType
  <2> QED BY <1>5, <2>1, BarFrame DEF Send, PlaneType
<1>6. ASSUME Boot PROVE PlaneType' /\ BarType'
  <2>1. BarType'
    BY <1>6 DEF Boot, BarType, Off, At, Loaded
  <2> QED BY <1>6, <2>1, PlaneFrame DEF Boot
<1>7. ASSUME NEW pc \in {"unlink", "tick"}, ~bar.entering, ~bar.spare, LoadIdle(pc),
             bar.todo = {}
      PROVE  BarType'
  <2>1. disk.preset \in Presets /\ disk.version["config"] \in Nat
    BY DEF PlaneType, Versions, Parts
  <2>2. disk.preset \subseteq Instances
    BY <2>1, ControlAssumption
  <2> QED BY <1>7, <2>1, <2>2 DEF LoadIdle, BarType, At, Loaded
<1>8. ASSUME LoadInitial PROVE PlaneType' /\ BarType'
  <2>1. BarType'
    BY <1>7, <1>8 DEF LoadInitial, BarType, At
  <2> QED BY <1>8, <2>1, PlaneFrame DEF LoadInitial
<1>9. ASSUME NEW i \in Instances, StartInstance(i) PROVE PlaneType' /\ BarType'
  <2>1. disk.version["wasm"] \in Nat
    BY DEF PlaneType, Versions, Parts
  <2>2. CASE bar' = [bar EXCEPT !.todo = @ \ {i}, !.kept = @ \cup (Loaded \cap {i})]
    BY <1>9, <2>2, PlaneFrame DEF StartInstance, BarType, At, Loaded
  <2>3. CASE bar' = [bar EXCEPT !.inst[i] = disk.version["wasm"],
                                !.todo = @ \ {i}, !.kept = @ \ {i}]
    <3>1. /\ bar'.inst = [bar.inst EXCEPT ![i] = disk.version["wasm"]]
          /\ bar'.todo = bar.todo \ {i} /\ bar'.kept = bar.kept \ {i}
          /\ UNCHANGED <<bar.pc, bar.spare, bar.idle, bar.entering>>
      BY <2>3 DEF BarType
    <3>2. disk.version["wasm"] > 0
      BY DEF PlaneType, Parts
    <3>3. Loaded' = Loaded \cup {i}
      BY <2>1, <3>1, <3>2 DEF Loaded, BarType
    <3>4. bar' \in [pc : {"off", "load", "start", "unlink", "bind", "tick", "wait",
                         "apply"},
                   spare : BOOLEAN, read : Nat, preset : Presets \cup {NoPreset},
                   inst : [Instances -> Nat], todo : SUBSET Instances,
                   kept : SUBSET Instances, hand : SUBSET Parts, idle : BOOLEAN,
                   entering : BOOLEAN]
      BY <2>1, <2>3 DEF BarType
    <3>5. BarType'
      BY <1>9, <3>1, <3>3, <3>4 DEF StartInstance, BarType, At
    <3> QED BY <1>9, <3>5, PlaneFrame DEF StartInstance
  <2>4. CASE bar' = [bar EXCEPT !.inst[i] = 0, !.todo = @ \ {i}, !.kept = @ \ {i}]
    <3>1. /\ bar'.inst = [bar.inst EXCEPT ![i] = 0]
          /\ bar'.todo = bar.todo \ {i} /\ bar'.kept = bar.kept \ {i}
          /\ UNCHANGED <<bar.pc, bar.spare, bar.idle, bar.entering>>
      BY <2>4 DEF BarType
    <3>2. Loaded' = Loaded \ {i}
      BY <3>1 DEF Loaded, BarType
    <3>3. bar' \in [pc : {"off", "load", "start", "unlink", "bind", "tick", "wait",
                         "apply"},
                   spare : BOOLEAN, read : Nat, preset : Presets \cup {NoPreset},
                   inst : [Instances -> Nat], todo : SUBSET Instances,
                   kept : SUBSET Instances, hand : SUBSET Parts, idle : BOOLEAN,
                   entering : BOOLEAN]
      BY <2>4 DEF BarType
    <3>4. BarType'
      BY <1>9, <3>1, <3>2, <3>3 DEF StartInstance, BarType, At
    <3> QED BY <1>9, <3>4, PlaneFrame DEF StartInstance
  <2> QED BY <1>9, <2>2, <2>3, <2>4 DEF StartInstance
<1>10. ASSUME Started PROVE PlaneType' /\ BarType'
  <2>1. BarType'
    BY <1>10 DEF Started, BarType, At, Loaded
  <2> QED BY <1>10, <2>1, PlaneFrame DEF Started
<1>11. ASSUME Unlink PROVE PlaneType' /\ BarType'
  BY <1>11 DEF Unlink, PlaneType, BarType, At, Loaded
<1>12. ASSUME Bind PROVE PlaneType' /\ BarType'
  BY <1>12 DEF Bind, PlaneType, BarType, At, Loaded
<1>13. ASSUME CallExtension PROVE PlaneType' /\ BarType'
  <2>1. disk.version["extension"] \in Nat
    BY DEF PlaneType, Versions, Parts
  <2> QED BY <1>13, <2>1, BarFrame DEF CallExtension, PlaneType
<1>14. ASSUME Ticked \/ Slice \/ TickAgain PROVE PlaneType' /\ BarType'
  <2>1. CASE Ticked
    <3>1. PICK spare \in BOOLEAN : bar' = [bar EXCEPT !.pc = "wait", !.spare = spare]
      BY <1>14, <2>1 DEF Ticked
    <3> QED BY <2>1, <3>1, PlaneFrame DEF Ticked, BarType, At, Loaded
  <2>2. CASE Slice \/ TickAgain
    <3>1. BarType'
      BY <2>2 DEF Slice, TickAgain, BarType, At, Loaded
    <3> QED BY <2>2, <3>1, PlaneFrame DEF Slice, TickAgain
  <2> QED BY <1>14, <2>1, <2>2
<1>15. ASSUME Receive PROVE PlaneType' /\ BarType'
  <2>1. Head(channel) \in (SUBSET Parts) \ {{}} /\ Tail(channel) \in Seq((SUBSET Parts) \ {{}})
    BY <1>15, HeadTailProperties DEF Receive, PlaneType
  <2>2. BarType'
    BY <1>15, <2>1 DEF Receive, BarType, At, Loaded
  <2> QED BY <1>15, <2>1, <2>2 DEF Receive, PlaneType
<1>16. ASSUME ApplyIdle PROVE PlaneType' /\ BarType'
  <2>1. bar.todo = {} /\ ~bar.entering /\ ~bar.spare
    BY <1>16 DEF ApplyIdle, BarType, At
  <2>2. BarType'
    <3>1. CASE "config" \in bar.hand
      BY <1>7, <1>16, <2>1, <3>1 DEF ApplyIdle
    <3>2. CASE "config" \notin bar.hand
      <4>1. bar' = [bar EXCEPT !.pc = "tick", !.hand = {}]
        BY <1>16, <3>2 DEF ApplyIdle
      <4> QED BY <2>1, <4>1 DEF BarType, At, Loaded
    <3> QED BY <3>1, <3>2
  <2>3. disk.version["extension"] \in Nat
    BY DEF PlaneType, Versions, Parts
  <2> QED BY <1>16, <2>2, <2>3 DEF ApplyIdle, PlaneType
<1>17. ASSUME ApplyConfig PROVE PlaneType' /\ BarType'
  <2> DEFINE new == disk.preset
             stay == Loaded \cap new
  <2>1. /\ new \in Presets /\ disk.version["config"] \in Nat
        /\ new \subseteq Instances
    BY ControlAssumption DEF PlaneType, Versions, Parts
  <2>2. bar.todo = {} /\ stay \subseteq Instances /\ ~bar.spare
    BY <1>17 DEF ApplyConfig, BarType, At, Loaded
  <2>3. CASE new = NoPreset
    <3>1. stay = {}
      BY <2>3 DEF NoPreset
    <3>2. bar' = [[bar EXCEPT !.read = disk.version["config"], !.hand = @ \ {"config"},
                             !.inst = [i \in Instances |-> 0],
                             !.kept = {}]
                  EXCEPT !.entering = TRUE]
      BY <1>17, <2>3, <3>1 DEF ApplyConfig
    <3>3. /\ bar'.pc = "apply" /\ bar'.inst = [i \in Instances |-> 0]
          /\ bar'.kept = {} /\ bar'.todo = {} /\ ~bar'.idle /\ ~bar'.spare
      BY <1>17, <2>2, <3>2 DEF BarType, ApplyConfig, At
    <3>4. bar' \in [pc : {"off", "load", "start", "unlink", "bind", "tick", "wait",
                         "apply"},
                   spare : BOOLEAN, read : Nat, preset : Presets \cup {NoPreset},
                   inst : [Instances -> Nat], todo : SUBSET Instances,
                   kept : SUBSET Instances, hand : SUBSET Parts, idle : BOOLEAN,
                   entering : BOOLEAN]
      BY <2>1, <3>2 DEF BarType
    <3>5. BarType'
      BY <3>3, <3>4 DEF BarType, At
    <3> QED BY <1>17, <3>5, PlaneFrame DEF ApplyConfig
  <2>4. CASE new # NoPreset
    <3>1. bar' = [[bar EXCEPT !.read = disk.version["config"], !.hand = @ \ {"config"},
                              !.inst = [i \in Instances |-> IF i \in stay THEN @[i] ELSE 0],
                              !.kept = @ \cap stay]
                  EXCEPT !.pc = "start", !.preset = new, !.todo = new \ stay]
      BY <1>17, <2>4 DEF ApplyConfig
    <3>2. /\ bar'.inst = [i \in Instances |-> IF i \in stay THEN bar.inst[i] ELSE 0]
          /\ bar'.kept = bar.kept \cap stay /\ bar'.spare = bar.spare
          /\ bar'.pc = "start" /\ bar'.todo = new \ stay
          /\ bar'.entering = bar.entering /\ bar'.idle = bar.idle
      BY <3>1 DEF BarType
    <3>3. Loaded' = stay
      BY <3>2 DEF Loaded, BarType
    <3>4. bar' \in [pc : {"off", "load", "start", "unlink", "bind", "tick", "wait",
                          "apply"},
                    spare : BOOLEAN, read : Nat, preset : Presets \cup {NoPreset},
                    inst : [Instances -> Nat], todo : SUBSET Instances,
                    kept : SUBSET Instances, hand : SUBSET Parts, idle : BOOLEAN,
                    entering : BOOLEAN]
      BY <2>1, <2>2, <3>1 DEF BarType
    <3>5. BarType'
      BY <2>2, <3>2, <3>3, <3>4 DEF BarType, At
    <3> QED BY <1>17, <3>5, PlaneFrame DEF ApplyConfig
  <2> QED BY <2>3, <2>4
<1>18. ASSUME ApplyWasm PROVE PlaneType' /\ BarType'
  <2>1. bar.preset \subseteq Instances
    BY ControlAssumption DEF BarType, NoPreset
  <2>2. BarType'
    BY <1>18, <2>1 DEF ApplyWasm, BarType, At, Loaded
  <2> QED BY <1>18, <2>2, PlaneFrame DEF ApplyWasm
<1>19. ASSUME ApplyRest PROVE PlaneType' /\ BarType'
  <2>1. BarType'
    BY <1>19 DEF ApplyRest, BarType, At, Loaded, Off
  <2> QED BY <1>19, <2>1 DEF ApplyRest, PlaneType
<1>20. ASSUME Crash PROVE PlaneType' /\ BarType'
  <2>1. BarType'
    BY <1>20 DEF Crash, BarType, At, Loaded, Off
  <2>2. clients' \in [Clients -> [pc : {"new", "edited", "waiting", "ok", "failed",
                                       "not_running"},
                                 req : SUBSET Parts, saw : Versions]]
    BY <1>20 DEF Crash, PlaneType
  <2>3. backlog' \in Seq(Clients) /\ channel' \in Seq((SUBSET Parts) \ {{}})
    BY <1>20, EmptySeq DEF Crash
  <2>4. socket' \in {"none", "stale", "bound"} /\ crashes' \in Nat
    BY <1>20 DEF Crash, PlaneType
  <2> QED BY <1>20, <2>1, <2>2, <2>3, <2>4 DEF Crash, PlaneType
<1>21. CASE UNCHANGED vars
  BY <1>21, BarFrame, PlaneFrame DEF vars
<1> QED
  BY <1>1, <1>2, <1>3, <1>4, <1>5, <1>6, <1>8, <1>9, <1>10, <1>11, <1>12, <1>13,
     <1>14, <1>15, <1>16, <1>17, <1>18, <1>19, <1>20, <1>21
     DEF Next, ControlStep, BarStep

\* Every reachable state of the control plane is well typed.
THEOREM TypeCorrect == Spec => []TypeOK
<1>1. Init => TypeOK
  BY InitType
<1>2. TypeOK /\ [Next]_vars => TypeOK'
  BY NextType
<1> QED BY <1>1, <1>2, PTL DEF Spec

-----------------------------------------------------------------------------
(* Acknowledged reloads. *)

\* What clients were promised is on disk.
PromisesOnDisk ==
    \A c \in Clients, x \in Parts : clients[c].saw[x] <= disk.version[x]

\* A batch is in hand only while it is applied, and in idle mode only before.
HandHeld ==
    /\ bar.hand # {} => bar.pc \in {"start", "apply"}
    /\ bar.hand # {} /\ bar.idle => At("apply")

\* Nothing runs in idle mode unless it is being started, and the bar boots idle.
IdleIsEmpty ==
    /\ bar.pc \in {"off", "load"} => bar.idle
    /\ bar.idle /\ ~At("start") => Loaded = {}

Ready == TypeOK /\ PromisesOnDisk /\ HandHeld /\ IdleIsEmpty

LEMMA InitReady == Init => Ready
<1> SUFFICES ASSUME Init PROVE PromisesOnDisk /\ HandHeld /\ IdleIsEmpty
  BY InitType DEF Ready
<1>1. PromisesOnDisk
  BY DEF Init, PromisesOnDisk
<1>2. HandHeld /\ IdleIsEmpty
  BY DEF Init, HandHeld, IdleIsEmpty, Off, Loaded, At
<1> QED BY <1>1, <1>2

\* The disk only moves forward, and no step but Serve acknowledges.
LEMMA ClientMoves ==
  ASSUME PlaneType, PromisesOnDisk, [Next]_vars
  PROVE  /\ PromisesOnDisk'
         /\ ~Serve => \A c \in Clients, x \in Parts :
                        Acked(c, x)' => Acked(c, x)
         /\ \A c \in Clients, x \in Parts :
              Acked(c, x)' => clients'[c].saw[x] = clients[c].saw[x]
<1>1. ASSUME NEW c \in Clients, Edit(c)
      PROVE  /\ PromisesOnDisk'
             /\ \A d \in Clients, x \in Parts : Acked(d, x)' =>
                  Acked(d, x) /\ clients'[d].saw[x] = clients[d].saw[x]
  <2>1. PICK req \in SUBSET Editable, p \in Presets :
          LET after == [x \in Parts |-> disk.version[x] + (IF x \in req THEN 1 ELSE 0)]
          IN  /\ disk' = [version |-> after,
                          preset  |-> IF "config" \in req THEN p ELSE disk.preset]
              /\ clients' = [clients EXCEPT
                               ![c] = [pc |-> "edited", req |-> req, saw |-> after]]
    BY <1>1 DEF Edit
  <2> DEFINE after == [x \in Parts |-> disk.version[x] + (IF x \in req THEN 1 ELSE 0)]
  <2>2. \A x \in Parts : disk.version[x] \in Nat /\ disk.version[x] <= after[x]
    BY DEF PlaneType
  <2> HIDE DEF after
  <2>3. /\ clients'[c].saw = after /\ clients'[c].pc = "edited"
        /\ disk'.version = after
        /\ \A d \in Clients \ {c} : clients'[d] = clients[d]
    BY <2>1 DEF PlaneType, after
  <2>4. \A d \in Clients, x \in Parts : clients[d].saw[x] \in Nat /\ after[x] \in Nat
    BY DEF PlaneType, Versions, after
  <2> QED BY <2>2, <2>3, <2>4 DEF PromisesOnDisk, Acked
<1>2. ASSUME NEW c \in Clients, Connect(c) \/ GiveUp(c)
      PROVE  /\ PromisesOnDisk'
             /\ \A d \in Clients, x \in Parts : Acked(d, x)' =>
                  Acked(d, x) /\ clients'[d].saw[x] = clients[d].saw[x]
  <2>1. /\ disk' = disk /\ clients'[c].pc # "ok"
        /\ \A d \in Clients \ {c} : clients'[d] = clients[d]
        /\ clients'[c].saw = clients[c].saw
    BY <1>2 DEF Connect, GiveUp, PlaneType
  <2> QED BY <2>1 DEF PromisesOnDisk, Acked
<1>3. ASSUME Serve
      PROVE  /\ PromisesOnDisk'
             /\ \A d \in Clients : clients'[d].saw = clients[d].saw
  <2>1. disk' = disk /\ \A d \in Clients : clients'[d].saw = clients[d].saw
    <3>1. Head(backlog) \in Clients
      BY <1>3, HeadTailProperties DEF Serve, PlaneType
    <3>2. CASE clients[Head(backlog)].pc = "waiting"
      <4>1. clients' = [clients EXCEPT ![Head(backlog)].pc = "ok"] /\ disk' = disk
        BY <1>3, <3>2 DEF Serve
      <4> QED BY <3>1, <4>1 DEF PlaneType
    <3>3. CASE clients[Head(backlog)].pc # "waiting"
      BY <1>3, <3>3 DEF Serve
    <3> QED BY <3>2, <3>3
  <2> QED BY <2>1 DEF PromisesOnDisk
<1>4. ASSUME Crash
      PROVE  /\ PromisesOnDisk'
             /\ \A d \in Clients, x \in Parts : Acked(d, x)' =>
                  Acked(d, x) /\ clients'[d].saw[x] = clients[d].saw[x]
  <2>1. /\ disk' = disk
        /\ \A d \in Clients : /\ clients'[d].saw = clients[d].saw
                              /\ clients'[d].req = clients[d].req
                              /\ clients'[d].pc = "ok" => clients[d].pc = "ok"
    BY <1>4 DEF Crash, PlaneType
  <2> QED BY <2>1 DEF PromisesOnDisk, Acked
<1>5. ASSUME UNCHANGED <<disk, clients>>
      PROVE  /\ PromisesOnDisk'
             /\ \A d \in Clients, x \in Parts : Acked(d, x)' =>
                  Acked(d, x) /\ clients'[d].saw[x] = clients[d].saw[x]
  BY <1>5 DEF PromisesOnDisk, Acked
<1>6. \/ \E c \in Clients : Edit(c) \/ Connect(c) \/ GiveUp(c)
      \/ Serve \/ Crash \/ UNCHANGED <<disk, clients>>
  BY DEF Next, ControlStep, BarStep, vars, Send, Boot, LoadInitial, StartInstance,
     Started, Unlink, Bind, CallExtension, Ticked, Slice, TickAgain, Receive, ApplyIdle,
     ApplyConfig, ApplyWasm, ApplyRest
<1> QED BY <1>1, <1>2, <1>3, <1>4, <1>5, <1>6

\* Steps of the clients, the control thread and the extension leave the bar
\* alone.
LEMMA BarMoves ==
  ASSUME [Next]_vars
  PROVE  \/ bar' = bar
         \/ BarStep \/ Boot \/ Crash
BY DEF Next, ControlStep, vars, Edit, Connect, GiveUp, Serve, Send, CallExtension

\* What a new configuration leaves of the bar and of its instances.
LEMMA ConfigApplied ==
  ASSUME BarType, ApplyConfig
  PROVE  LET stay == Loaded \cap disk.preset IN
         /\ bar'.inst = [i \in Instances |-> IF i \in stay THEN bar.inst[i] ELSE 0]
         /\ bar'.kept = bar.kept \cap stay
         /\ bar'.hand = bar.hand \ {"config"} /\ bar'.read = disk.version["config"]
         /\ ~bar.idle /\ ~bar'.idle
         /\ bar.pc = "apply" /\ bar'.pc \in {"start", "apply"}
         /\ \/ bar'.preset = disk.preset /\ bar'.todo = disk.preset \ stay
            \/ bar'.preset = bar.preset /\ bar'.todo = {} /\ stay = {}
<1> DEFINE stay == Loaded \cap disk.preset
           read == [bar EXCEPT !.read = disk.version["config"],
                               !.hand = @ \ {"config"},
                               !.inst = [i \in Instances |->
                                           IF i \in stay THEN @[i] ELSE 0],
                               !.kept = @ \cap stay]
<1>1. ~bar.idle /\ bar.todo = {} /\ bar.pc = "apply"
  BY DEF ApplyConfig, BarType, At
<1>2. /\ read.inst = [i \in Instances |-> IF i \in stay THEN bar.inst[i] ELSE 0]
      /\ read.kept = bar.kept \cap stay /\ ~read.idle /\ read.todo = {}
      /\ read.preset = bar.preset /\ read.pc = "apply"
      /\ read.hand = bar.hand \ {"config"} /\ read.read = disk.version["config"]
      /\ DOMAIN read = DOMAIN bar
  BY <1>1 DEF BarType
<1>3. CASE disk.preset = NoPreset
  <2>1. bar' = [read EXCEPT !.entering = TRUE] /\ stay = {}
    BY <1>3 DEF ApplyConfig, NoPreset
  <2> QED BY <1>1, <1>2, <2>1 DEF BarType
<1>4. CASE disk.preset # NoPreset
  <2>1. bar' = [read EXCEPT !.pc = "start", !.preset = disk.preset,
                            !.todo = disk.preset \ stay]
    BY <1>4 DEF ApplyConfig
  <2> QED BY <1>1, <1>2, <2>1 DEF BarType
<1> QED BY <1>3, <1>4

\* What an attempt to start an instance leaves of it.
LEMMA InstanceStarted ==
  ASSUME BarType, NEW i \in Instances, StartInstance(i)
  PROVE  /\ bar'.todo = bar.todo \ {i} /\ i \in bar.todo
         /\ bar'.preset = bar.preset /\ bar'.hand = bar.hand
         /\ bar'.read = bar.read /\ bar'.idle = bar.idle
         /\ bar.pc = "start" /\ bar'.pc = "start"
         /\ \/ /\ bar'.inst = [bar.inst EXCEPT ![i] = disk.version["wasm"]]
               /\ bar'.kept = bar.kept \ {i}
            \/ /\ bar'.inst = bar.inst
               /\ bar'.kept = bar.kept \cup (Loaded \cap {i})
            \/ /\ bar'.inst = [bar.inst EXCEPT ![i] = 0]
               /\ bar'.kept = bar.kept \ {i}
BY DEF StartInstance, BarType, At

LEMMA NextReady == Ready /\ [Next]_vars => Ready'
<1> SUFFICES ASSUME PlaneType, BarType, HandHeld, IdleIsEmpty, [Next]_vars
             PROVE  HandHeld' /\ IdleIsEmpty'
  BY NextType, TypeParts, ClientMoves DEF Ready
<1> USE DEF HandHeld, IdleIsEmpty, At, Loaded
<1>1. CASE bar' = bar
  BY <1>1
<1>2. CASE Boot \/ Crash
  BY <1>2 DEF Boot, Crash, Off
<1>3. CASE LoadInitial
  BY <1>3 DEF LoadInitial, LoadIdle, BarType
<1>4. CASE \E i \in Instances : StartInstance(i)
  BY <1>4, InstanceStarted
<1>5. CASE Started
  BY <1>5 DEF Started, BarType
<1>6. CASE Unlink \/ Bind \/ Ticked \/ Slice \/ TickAgain
  <2>1. CASE Unlink \/ Bind
    BY <2>1 DEF Unlink, Bind, BarType
  <2>2. CASE Ticked
    BY <2>2 DEF Ticked, BarType
  <2>3. CASE Slice \/ TickAgain
    BY <2>3 DEF Slice, TickAgain, BarType
  <2> QED BY <1>6, <2>1, <2>2, <2>3
<1>7. CASE Receive
  BY <1>7 DEF Receive, BarType
<1>8. CASE ApplyIdle
  BY <1>8 DEF ApplyIdle, LoadIdle, BarType
<1>9. CASE ApplyConfig
  <2>1. ~bar'.idle /\ bar'.pc \in {"start", "apply"}
    BY <1>9, ConfigApplied
  <2> QED BY <2>1
<1>10. CASE ApplyWasm
  BY <1>10 DEF ApplyWasm, BarType
<1>11. CASE ApplyRest
  BY <1>11 DEF ApplyRest, BarType, Off
<1> QED
  BY <1>1, <1>2, <1>3, <1>4, <1>5, <1>6, <1>7, <1>8, <1>9, <1>10, <1>11, BarMoves
     DEF BarStep

\* A reload on its way stays so until the step that consumes it.
LEMMA Carried ==
  ASSUME PlaneType, BarType, HandHeld, [Next]_vars,
         NEW x \in Parts, OnItsWay(x), ~LoadInitial,
         ~(ApplyIdle /\ x \in bar.hand), ~(x = "config" /\ ApplyConfig),
         ~(x = "wasm" /\ ApplyWasm), ~(x = "extension" /\ ApplyRest)
  PROVE  OnItsWay(x)'
<1> USE DEF At
<1>1. CASE Serve
  <2>1. batch \subseteq batch'
    BY <1>1 DEF Serve
  <2> QED BY <1>1, <2>1 DEF Serve, OnItsWay
<1>2. CASE Send
  <2>1. /\ channel' = Append(channel, batch) /\ bar' = bar
        /\ Len(channel') = Len(channel) + 1 /\ Len(channel) \in Nat
        /\ \A k \in 1 .. Len(channel) : channel'[k] = channel[k]
        /\ channel'[Len(channel) + 1] = batch
    BY <1>2, AppendProperties, LenProperties DEF Send, PlaneType
  <2>2. CASE x \in batch
    BY <2>1, <2>2 DEF OnItsWay
  <2>3. CASE \E k \in 1 .. Len(channel) : x \in channel[k]
    BY <2>1, <2>3 DEF OnItsWay
  <2>4. CASE x \in bar.hand \/ bar.pc \in {"off", "load"}
    BY <2>1, <2>4 DEF OnItsWay
  <2> QED BY <2>2, <2>3, <2>4 DEF OnItsWay
<1>3. CASE Receive
  <2>1. bar.hand = {} /\ bar'.hand = Head(channel) /\ batch' = batch
        /\ channel' = Tail(channel)
    BY <1>3 DEF Receive, BarType, HandHeld
  <2>2. /\ channel \in Seq((SUBSET Parts) \ {{}}) /\ channel # <<>>
        /\ Len(channel) \in Nat /\ Head(channel) = channel[1]
        /\ Len(channel') = Len(channel) - 1
        /\ \A k \in 1 .. Len(channel') : channel'[k] = channel[k + 1]
    BY <1>3, <2>1, HeadTailProperties, LenProperties DEF Receive, PlaneType
  <2>3. CASE x \in batch
    BY <2>1, <2>3 DEF OnItsWay
  <2>4. ASSUME NEW k \in 1 .. Len(channel), x \in channel[k] PROVE OnItsWay(x)'
    <3>1. CASE k = 1
      BY <2>1, <2>2, <2>4, <3>1 DEF OnItsWay
    <3>2. CASE k # 1
      <4>1. k - 1 \in 1 .. Len(channel') /\ channel'[k - 1] = channel[(k - 1) + 1]
        BY <2>2, <3>2
      <4> QED BY <2>4, <4>1 DEF OnItsWay
    <3> QED BY <3>1, <3>2
  <2> QED BY <1>3, <2>1, <2>3, <2>4 DEF OnItsWay, Receive
<1>4. CASE Boot \/ Crash
  BY <1>4 DEF Boot, Crash, Off, OnItsWay
<1>5. ASSUME UNCHANGED <<batch, channel>>, ~Boot, ~Crash PROVE OnItsWay(x)'
  <2>1. bar' = bar \/ BarStep
    BY <1>5, BarMoves
  <2>2. CASE bar' = bar
    BY <1>5, <2>2 DEF OnItsWay
  <2>3. CASE (\E i \in Instances : StartInstance(i)) \/ Started \/ Unlink \/ Bind
             \/ Ticked \/ Slice \/ TickAgain
    <3>1. bar'.hand = bar.hand /\ bar.pc \notin {"off", "load"}
      <4>1. CASE \E i \in Instances : StartInstance(i)
        BY <4>1, InstanceStarted
      <4>2. CASE Started
        BY <4>2 DEF Started, BarType
      <4>3. CASE Unlink \/ Bind \/ Ticked \/ Slice \/ TickAgain
        BY <4>3 DEF Unlink, Bind, Ticked, Slice, TickAgain, BarType
      <4> QED BY <2>3, <4>1, <4>2, <4>3
    <3> QED BY <1>5, <3>1 DEF OnItsWay
  <2>4. CASE Receive
    BY <1>3, <2>4
  <2>5. CASE ApplyConfig
    <3>1. bar'.hand = bar.hand \ {"config"} /\ bar.pc = "apply"
      BY <2>5, ConfigApplied
    <3> QED BY <1>5, <2>5, <3>1 DEF OnItsWay
  <2>6. CASE ApplyWasm
    <3>1. bar'.hand = bar.hand \ {"wasm"} /\ bar.pc \notin {"off", "load"}
      BY <2>6 DEF ApplyWasm, BarType
    <3> QED BY <1>5, <2>6, <3>1 DEF OnItsWay
  <2>7. CASE ApplyRest
    <3>1. x \notin bar.hand /\ bar.pc \notin {"off", "load"}
      BY <2>7 DEF ApplyRest, Parts
    <3> QED BY <1>5, <3>1 DEF OnItsWay
  <2>8. CASE ApplyIdle
    <3>1. x \notin bar.hand /\ bar.pc \notin {"off", "load"}
      BY <2>8 DEF ApplyIdle
    <3> QED BY <1>5, <3>1 DEF OnItsWay
  <2> QED BY <2>1, <2>2, <2>3, <2>4, <2>5, <2>6, <2>7, <2>8 DEF BarStep
<1>6. Serve \/ Send \/ Receive \/ Boot \/ Crash \/ UNCHANGED <<batch, channel>>
  BY DEF Next, ControlStep, BarStep, vars, Edit, Connect, GiveUp, LoadInitial,
     StartInstance, Started, Unlink, Bind, CallExtension, Ticked, Slice, TickAgain,
     ApplyIdle, ApplyConfig, ApplyWasm, ApplyRest
<1> QED BY <1>1, <1>2, <1>3, <1>4, <1>5, <1>6

\* An acknowledgement puts the request on its way.
LEMMA ServeCarries ==
  ASSUME PlaneType, Serve, NEW c \in Clients, NEW x \in Parts, Acked(c, x)'
  PROVE  Acked(c, x) \/ OnItsWay(x)'
<1> DEFINE d == Head(backlog)
<1>1. d \in Clients
  BY HeadTailProperties DEF Serve, PlaneType
<1>2. CASE clients[d].pc = "waiting"
  <2>1. clients' = [clients EXCEPT ![d].pc = "ok"] /\ batch' = batch \cup clients[d].req
    BY <1>2 DEF Serve
  <2>2. CASE c = d
    BY <1>1, <2>1, <2>2 DEF Acked, OnItsWay, PlaneType
  <2>3. CASE c # d
    BY <1>1, <2>1, <2>3 DEF Acked, PlaneType
  <2> QED BY <2>2, <2>3
<1>3. CASE clients[d].pc # "waiting"
  BY <1>3 DEF Serve, Acked
<1> QED BY <1>2, <1>3

-----------------------------------------------------------------------------
(* The preset. *)

Preset == Ready /\ AckedPresetIsRead

LEMMA InitPreset == Init => Preset
  BY InitReady DEF Preset, Init, AckedPresetIsRead, Acked

\* What the bar has read changes to what is on disk only.
LEMMA ReadMoves ==
  ASSUME BarType, [Next]_vars, ~LoadInitial, ~ApplyConfig, ~Boot, ~Crash,
         ~(ApplyIdle /\ "config" \in bar.hand)
  PROVE  bar'.read = bar.read
<1> USE DEF BarType
<1>0. CASE \E i \in Instances : StartInstance(i)
  BY <1>0, InstanceStarted
<1>1. CASE Started \/ Unlink \/ Bind
  BY <1>1 DEF Started, Unlink, Bind
<1>2. CASE Ticked \/ Slice \/ TickAgain \/ Receive
  BY <1>2 DEF Ticked, Slice, TickAgain, Receive
<1>3. CASE ApplyIdle \/ ApplyWasm \/ ApplyRest
  BY <1>3 DEF ApplyIdle, ApplyWasm, ApplyRest, Off
<1> QED BY <1>0, <1>1, <1>2, <1>3, BarMoves DEF BarStep

LEMMA ConfigConsumed ==
  ASSUME BarType,
         LoadInitial \/ ApplyConfig \/ (ApplyIdle /\ "config" \in bar.hand)
  PROVE  bar'.read = disk.version["config"]
<1> USE DEF BarType
<1>1. CASE LoadInitial
  BY <1>1 DEF LoadInitial, LoadIdle
<1>2. CASE ApplyIdle /\ "config" \in bar.hand
  BY <1>2 DEF ApplyIdle, LoadIdle
<1>3. CASE ApplyConfig
  BY <1>3, ConfigApplied
<1> QED BY <1>1, <1>2, <1>3

LEMMA NextPreset == Preset /\ [Next]_vars => Preset'
<1> SUFFICES ASSUME Ready, AckedPresetIsRead, [Next]_vars,
                    NEW c \in Clients, Acked(c, "config")'
             PROVE  bar'.read >= clients'[c].saw["config"] \/ OnItsWay("config")'
  BY NextReady DEF Preset, AckedPresetIsRead
<1>1. PlaneType /\ BarType /\ HandHeld /\ PromisesOnDisk /\ "config" \in Parts
  BY TypeParts DEF Ready, Parts
<1>2. clients'[c].saw["config"] = clients[c].saw["config"]
  BY <1>1, ClientMoves
<1>3. CASE ~Acked(c, "config")
  BY <1>1, <1>3, ClientMoves, ServeCarries
<1>4. CASE Boot \/ Crash
  BY <1>4 DEF Boot, Crash, Off, OnItsWay
<1>5. CASE LoadInitial \/ ApplyConfig \/ (ApplyIdle /\ "config" \in bar.hand)
  <2>1. /\ clients[c].saw["config"] <= disk.version["config"]
        /\ clients[c].saw["config"] \in Nat /\ disk.version["config"] \in Nat
    BY <1>1 DEF PromisesOnDisk, PlaneType, Versions
  <2>2. bar'.read = disk.version["config"]
    BY <1>1, <1>5, ConfigConsumed
  <2> QED BY <1>2, <2>1, <2>2
<1>6. ASSUME Acked(c, "config"), ~Boot, ~Crash,
             ~(LoadInitial \/ ApplyConfig \/ (ApplyIdle /\ "config" \in bar.hand))
      PROVE  bar'.read >= clients'[c].saw["config"] \/ OnItsWay("config")'
  <2>1. bar'.read = bar.read
    BY <1>1, <1>6, ReadMoves
  <2>2. OnItsWay("config") => OnItsWay("config")'
    BY <1>1, <1>6, Carried
  <2> QED BY <1>2, <1>6, <2>1, <2>2 DEF AckedPresetIsRead
<1> QED BY <1>3, <1>4, <1>5, <1>6

\* "reload delivered" is kept for the preset: an acknowledged change has been
\* read by the bar or is on its way to it, for any number of clients, in every
\* mode of the bar and across restarts.
THEOREM PresetNotLost == Spec => []AckedPresetIsRead
<1>1. Spec => []Preset
  BY InitPreset, NextPreset, PTL DEF Spec
<1>2. Preset => AckedPresetIsRead
  BY DEF Preset
<1> QED BY <1>1, <1>2, PTL

-----------------------------------------------------------------------------
(* Instances. *)

\* Whatever is loaded or being started is listed in the preset in use.
Listed == Loaded \cup bar.todo \subseteq bar.preset

Configured == Ready /\ Listed

LEMMA InitConfigured == Init => Configured
  BY InitReady DEF Configured, Init, Listed, Loaded, Off

LEMMA NextConfigured == Configured /\ [Next]_vars => Configured'
<1> SUFFICES ASSUME BarType, IdleIsEmpty, Listed, [Next]_vars PROVE Listed'
  BY NextReady, TypeParts DEF Configured, Ready
<1> USE DEF Listed, Loaded, At
<1>1. CASE bar' = bar
  BY <1>1
<1>2. CASE Boot \/ Crash
  BY <1>2 DEF Boot, Crash, Off
<1>3. ASSUME NEW pc \in {"unlink", "tick"}, LoadIdle(pc), Loaded = {}, bar.todo = {}
      PROVE  Listed'
  BY <1>3 DEF LoadIdle, BarType
<1>4. CASE LoadInitial
  <2>1. Loaded = {} /\ bar.todo = {}
    BY <1>4 DEF LoadInitial, IdleIsEmpty, BarType
  <2> QED BY <1>3, <1>4, <2>1 DEF LoadInitial
<1>5. CASE \E i \in Instances : StartInstance(i)
  <2>1. PICK i \in Instances : StartInstance(i)
    BY <1>5
  <2>2. /\ bar'.todo = bar.todo \ {i} /\ i \in bar.todo /\ bar'.preset = bar.preset
        /\ bar'.inst \in {bar.inst, [bar.inst EXCEPT ![i] = disk.version["wasm"]],
                          [bar.inst EXCEPT ![i] = 0]}
    BY <2>1, InstanceStarted
  <2> QED BY <2>2 DEF BarType
<1>6. CASE Started
  BY <1>6 DEF Started, BarType
<1>7. CASE Unlink \/ Bind \/ Ticked \/ Slice \/ TickAgain \/ Receive
  <2>1. CASE Unlink \/ Bind
    BY <2>1 DEF Unlink, Bind, BarType
  <2>2. CASE Ticked
    BY <2>2 DEF Ticked, BarType
  <2>3. CASE Slice \/ TickAgain
    BY <2>3 DEF Slice, TickAgain, BarType
  <2>4. CASE Receive
    BY <2>4 DEF Receive, BarType
  <2> QED BY <1>7, <2>1, <2>2, <2>3, <2>4
<1>8. CASE ApplyIdle
  <2>1. Loaded = {} /\ bar.todo = {}
    BY <1>8 DEF ApplyIdle, IdleIsEmpty, BarType
  <2>2. CASE "config" \in bar.hand
    BY <1>3, <1>8, <2>1, <2>2 DEF ApplyIdle
  <2>3. CASE "config" \notin bar.hand
    BY <1>8, <2>3 DEF ApplyIdle, BarType
  <2> QED BY <2>2, <2>3
<1>9. CASE ApplyConfig
  <2> DEFINE stay == Loaded \cap disk.preset
  <2>1. /\ bar'.inst = [i \in Instances |-> IF i \in stay THEN bar.inst[i] ELSE 0]
        /\ \/ bar'.preset = disk.preset /\ bar'.todo = disk.preset \ stay
           \/ bar'.preset = bar.preset /\ bar'.todo = {} /\ stay = {}
    BY <1>9, ConfigApplied
  <2>2. Loaded' \subseteq stay
    BY <2>1
  <2> QED BY <2>1, <2>2
<1>10. CASE ApplyWasm
  BY <1>10 DEF ApplyWasm, BarType
<1>11. CASE ApplyRest
  BY <1>11 DEF ApplyRest, BarType, Off
<1> QED
  BY <1>1, <1>2, <1>4, <1>5, <1>6, <1>7, <1>8, <1>9, <1>10, <1>11, BarMoves
     DEF BarStep

\* Between batches only instances of the preset in use run, and none in idle
\* mode.
THEOREM OnlyConfigured == Spec => []LoadedIsConfigured
<1>1. Spec => []Configured
  BY InitConfigured, NextConfigured, PTL DEF Spec
<1>2. Configured => LoadedIsConfigured
  BY DEF Configured, Ready, Listed, IdleIsEmpty, LoadedIsConfigured, At
<1> QED BY <1>1, <1>2, PTL

-----------------------------------------------------------------------------
(* Module updates. *)

Wasm == Ready /\ AckedWasmRuns

LEMMA InitWasm == Init => Wasm
  BY InitReady DEF Wasm, Init, AckedWasmRuns, Acked

\* An instance that is loaded after a step runs the wasm on disk, or ran before
\* and is not forgotten.
LEMMA InstanceMoves ==
  ASSUME PlaneType, BarType, IdleIsEmpty, [Next]_vars, NEW i \in Instances, i \in Loaded',
         ~Boot, ~Crash
  PROVE  \/ bar'.inst[i] = disk.version["wasm"]
         \/ /\ i \in Loaded /\ bar'.inst[i] = bar.inst[i]
            /\ ~LoadInitial /\ ~ApplyIdle
            /\ ApplyWasm => i \in bar'.todo
            /\ i \in bar.todo \cup bar.kept => i \in bar'.todo \cup bar'.kept
<1> USE DEF At
<1>0. bar.idle /\ ~At("start") => Loaded = {}
  BY DEF IdleIsEmpty
<1>1. CASE bar' = bar /\ ~BarStep
  BY <1>1 DEF Loaded, BarStep
<1>2. CASE \E j \in Instances : StartInstance(j)
  <2>1. PICK j \in Instances : StartInstance(j)
    BY <1>2
  <2>2. /\ bar'.todo = bar.todo \ {j} /\ j \in bar.todo
        /\ \/ /\ bar'.inst = [bar.inst EXCEPT ![j] = disk.version["wasm"]]
              /\ bar'.kept = bar.kept \ {j}
           \/ /\ bar'.inst = bar.inst
              /\ bar'.kept = bar.kept \cup (Loaded \cap {j})
           \/ /\ bar'.inst = [bar.inst EXCEPT ![j] = 0]
              /\ bar'.kept = bar.kept \ {j}
    BY <2>1, InstanceStarted
  <2>3. ~LoadInitial /\ ~ApplyIdle /\ ~ApplyWasm
    BY <2>1 DEF StartInstance, LoadInitial, ApplyIdle, ApplyWasm
  <2> QED BY <2>2, <2>3 DEF BarType, Loaded
<1>3. CASE Started \/ Unlink \/ Bind \/ Ticked \/ Slice \/ TickAgain \/ Receive
  <2>1. bar'.inst = bar.inst /\ bar'.todo = bar.todo /\ bar'.kept = bar.kept
    <3>1. CASE Started
      BY <3>1 DEF Started, BarType
    <3>2. CASE Unlink
      BY <3>2 DEF Unlink, BarType
    <3>3. CASE Bind
      BY <3>3 DEF Bind, BarType
    <3>4. CASE Ticked
      BY <3>4 DEF Ticked, BarType
    <3>5. CASE Slice \/ TickAgain
      BY <3>5 DEF Slice, TickAgain, BarType
    <3>6. CASE Receive
      BY <3>6 DEF Receive, BarType
    <3> QED BY <1>3, <3>1, <3>2, <3>3, <3>4, <3>5, <3>6
  <2>2. bar.pc \in {"start", "unlink", "bind", "tick", "wait"}
    BY <1>3 DEF Started, Unlink, Bind, Ticked, Slice, TickAgain, Receive
  <2>3. ~LoadInitial /\ ~ApplyIdle /\ ~ApplyWasm
    BY <2>2 DEF LoadInitial, ApplyIdle, ApplyWasm
  <2> QED BY <2>1, <2>3 DEF Loaded
<1>4. CASE LoadInitial \/ ApplyIdle
  <2>1. Loaded = {} /\ bar'.inst = bar.inst
    BY <1>0, <1>4 DEF LoadInitial, ApplyIdle, LoadIdle, IdleIsEmpty, BarType
  <2> QED BY <2>1 DEF Loaded
<1>5. CASE ApplyConfig
  <2> DEFINE stay == Loaded \cap disk.preset
  <2>1. /\ bar'.inst = [k \in Instances |-> IF k \in stay THEN bar.inst[k] ELSE 0]
        /\ bar'.kept = bar.kept \cap stay
    BY <1>5, ConfigApplied
  <2>2. i \in stay /\ bar'.inst[i] = bar.inst[i]
    BY <2>1 DEF Loaded
  <2>3. ~LoadInitial /\ ~ApplyIdle /\ ~ApplyWasm /\ bar.todo = {}
    BY <1>5 DEF ApplyConfig, LoadInitial, ApplyIdle, ApplyWasm, BarType
  <2> QED BY <2>1, <2>2, <2>3
<1>6. CASE ApplyWasm
  <2>1. /\ bar'.inst = bar.inst /\ bar'.kept = bar.kept
        /\ bar'.todo = Loaded \cup bar.preset
        /\ ~LoadInitial /\ ~ApplyIdle
    BY <1>6 DEF ApplyWasm, LoadInitial, ApplyIdle, BarType
  <2> QED BY <2>1 DEF Loaded
<1>7. CASE ApplyRest
  <2>1. ~LoadInitial /\ ~ApplyIdle /\ ~ApplyWasm
    BY <1>7 DEF ApplyRest, LoadInitial, ApplyIdle, ApplyWasm
  <2>2. CASE bar.entering
    BY <1>7, <2>2 DEF ApplyRest, Off, Loaded
  <2>3. CASE ~bar.entering
    <3>1. bar'.inst = bar.inst /\ bar'.todo = bar.todo /\ bar'.kept = bar.kept
      BY <1>7, <2>3 DEF ApplyRest, BarType
    <3> QED BY <2>1, <3>1 DEF Loaded
  <2> QED BY <2>2, <2>3
<1> QED
  BY <1>1, <1>2, <1>3, <1>4, <1>5, <1>6, <1>7, BarMoves DEF BarStep

LEMMA NextWasm == Wasm /\ [Next]_vars => Wasm'
<1> SUFFICES ASSUME Ready, AckedWasmRuns, [Next]_vars,
                    NEW c \in Clients, NEW i \in Instances, Acked(c, "wasm")', i \in Loaded'
             PROVE  \/ bar'.inst[i] >= clients'[c].saw["wasm"]
                    \/ OnItsWay("wasm")' \/ i \in bar'.todo \cup bar'.kept
  BY NextReady DEF Wasm, AckedWasmRuns
<1>1. /\ PlaneType /\ BarType /\ HandHeld /\ PromisesOnDisk /\ IdleIsEmpty
      /\ "wasm" \in Parts
  BY TypeParts DEF Ready, Parts
<1>2. clients'[c].saw["wasm"] = clients[c].saw["wasm"]
  BY <1>1, ClientMoves
<1>3. CASE ~Acked(c, "wasm")
  BY <1>1, <1>3, ClientMoves, ServeCarries
<1>4. CASE Boot \/ Crash
  BY <1>4 DEF Boot, Crash, Off, OnItsWay
<1>5. CASE bar'.inst[i] = disk.version["wasm"]
  <2>1. /\ clients[c].saw["wasm"] <= disk.version["wasm"]
        /\ clients[c].saw["wasm"] \in Nat /\ disk.version["wasm"] \in Nat
    BY <1>1 DEF PromisesOnDisk, PlaneType, Versions
  <2> QED BY <1>2, <1>5, <2>1
<1>6. ASSUME Acked(c, "wasm"), ~Boot, ~Crash,
             i \in Loaded /\ bar'.inst[i] = bar.inst[i],
             ~LoadInitial /\ ~ApplyIdle,
             ApplyWasm => i \in bar'.todo,
             i \in bar.todo \cup bar.kept => i \in bar'.todo \cup bar'.kept
      PROVE  \/ bar'.inst[i] >= clients'[c].saw["wasm"]
             \/ OnItsWay("wasm")' \/ i \in bar'.todo \cup bar'.kept
  <2>1. OnItsWay("wasm") /\ ~ApplyWasm => OnItsWay("wasm")'
    BY <1>1, <1>6, Carried
  <2> QED BY <1>2, <1>6, <2>1 DEF AckedWasmRuns
<1> QED BY <1>1, <1>3, <1>4, <1>5, <1>6, InstanceMoves

\* "reload delivered" is kept for modules: after an acknowledged update every
\* instance runs the new wasm, waits for its restart or for the batch that
\* brings it, or failed to restart.
THEOREM WasmNotLost == Spec => []AckedWasmRuns
<1>1. Spec => []Wasm
  BY InitWasm, NextWasm, PTL DEF Spec
<1>2. Wasm => AckedWasmRuns
  BY DEF Wasm
<1> QED BY <1>1, <1>2, PTL

-----------------------------------------------------------------------------
(* Extension reloads. *)

\* No extension runs before the first configuration is read, and no reload of
\* a version to come was ignored.
SpawnedFromDisk ==
    /\ bar.pc \in {"off", "load"} => process = 0
    /\ ignored <= disk.version["extension"]

Extension == Ready /\ SpawnedFromDisk /\ AckedExtensionRuns

LEMMA InitExtension == Init => Extension
<1> SUFFICES ASSUME Init PROVE SpawnedFromDisk /\ AckedExtensionRuns
  BY InitReady DEF Extension
<1>1. "extension" \in Parts
  BY DEF Parts
<1>2. ignored = 0 /\ process = 0 /\ disk.version["extension"] = 1
  BY <1>1 DEF Init
<1> QED
  BY <1>2 DEF Init, SpawnedFromDisk, AckedExtensionRuns, Acked

\* The process changes by being killed, or by being spawned from the package
\* on disk; the newest ignored reload only becomes the version on disk.
LEMMA ProcessMoves ==
  ASSUME PlaneType, BarType, SpawnedFromDisk, [Next]_vars, ~Crash
  PROVE  /\ SpawnedFromDisk'
         /\ \/ process' \in {process, 0}
            \/ process' = disk.version["extension"] /\ bar' = bar
         /\ ignored' >= ignored
         /\ ApplyIdle /\ "extension" \in bar.hand
              => ignored' = disk.version["extension"]
         /\ ApplyRest /\ "extension" \in bar.hand => process' = 0
<1> USE DEF SpawnedFromDisk, At
<1>1. /\ "extension" \in Parts /\ disk.version["extension"] \in Nat \ {0}
      /\ ignored \in Nat /\ process \in Nat
  BY DEF PlaneType, Parts
<1>2. ASSUME NEW c \in Clients, Edit(c)
      PROVE  disk'.version["extension"] >= disk.version["extension"]
  <2>1. PICK req \in SUBSET Editable :
          disk'.version = [x \in Parts |-> disk.version[x]
                                             + (IF x \in req THEN 1 ELSE 0)]
    BY <1>2 DEF Edit
  <2> QED BY <1>1, <2>1
<1>3. ASSUME NEW c \in Clients, Edit(c) PROVE disk'.version["extension"] \in Nat
  <2>1. PICK req \in SUBSET Editable :
          disk'.version = [x \in Parts |-> disk.version[x]
                                             + (IF x \in req THEN 1 ELSE 0)]
    BY <1>3 DEF Edit
  <2> QED BY <1>1, <2>1
<1>4. CASE \E c \in Clients : Edit(c)
  <2>1. /\ disk'.version["extension"] \in Nat
        /\ disk'.version["extension"] >= disk.version["extension"]
    BY <1>2, <1>3, <1>4
  <2> QED
    BY <1>1, <1>4, <2>1 DEF Edit, ApplyIdle, ApplyRest
<1>5. CASE ApplyIdle
  <2>1. bar'.pc \notin {"off", "load"}
    BY <1>5, ZenonT(30) DEF ApplyIdle, LoadIdle, BarType
  <2>2. ~ApplyRest
    BY <1>5 DEF ApplyIdle, ApplyRest
  <2> QED BY <1>1, <1>5, <2>1, <2>2 DEF ApplyIdle
<1>6. CASE ApplyRest
  <2>1. bar'.pc \notin {"off", "load"}
    BY <1>6 DEF ApplyRest, BarType
  <2>2. ~ApplyIdle
    BY <1>6 DEF ApplyIdle, ApplyRest
  <2> QED BY <1>1, <1>6, <2>1, <2>2 DEF ApplyRest
<1>7. CASE CallExtension
  BY <1>1, <1>7 DEF CallExtension, ApplyIdle, ApplyRest
<1>8. CASE Boot
  BY <1>1, <1>8 DEF Boot, Off, ApplyIdle, ApplyRest
<1>9. ASSUME UNCHANGED <<disk, process, ignored>>, ~ApplyIdle, ~ApplyRest, ~Boot
      PROVE  bar'.pc \in {"off", "load"} => bar.pc \in {"off", "load"}
  <2>1. CASE bar' = bar
    BY <2>1
  <2>2. CASE ApplyConfig
    BY <2>2, ConfigApplied
  <2>3. CASE \E i \in Instances : StartInstance(i)
    BY <2>3, InstanceStarted
  <2>4. CASE LoadInitial \/ Started \/ Unlink \/ Bind
    BY <1>9, <2>4 DEF LoadInitial, LoadIdle, Started, Unlink, Bind, BarType
  <2>5. CASE Ticked \/ Slice \/ TickAgain \/ Receive \/ ApplyWasm
    BY <1>9, <2>5 DEF Ticked, Slice, TickAgain, Receive, ApplyWasm, BarType
  <2> QED BY <1>9, <2>1, <2>2, <2>3, <2>4, <2>5, BarMoves DEF BarStep
<1>10. \/ (\E c \in Clients : Edit(c)) \/ ApplyIdle \/ ApplyRest
       \/ CallExtension \/ Boot \/ UNCHANGED <<disk, process, ignored>>
  BY DEF Next, ControlStep, BarStep, vars, Connect, GiveUp, Serve, Send,
     LoadInitial, StartInstance, Started, Unlink, Bind, Ticked, Slice, TickAgain,
     Receive, ApplyConfig, ApplyWasm
<1> QED
  BY <1>1, <1>4, <1>5, <1>6, <1>7, <1>8, <1>9, <1>10

LEMMA NextExtension == Extension /\ [Next]_vars => Extension'
<1> SUFFICES ASSUME Extension, [Next]_vars
             PROVE  SpawnedFromDisk' /\ AckedExtensionRuns'
  BY NextReady DEF Extension
<1>1. /\ PlaneType /\ BarType /\ HandHeld /\ PromisesOnDisk /\ SpawnedFromDisk
      /\ AckedExtensionRuns /\ "extension" \in Parts
  BY TypeParts DEF Extension, Ready, Parts
<1>2. CASE Crash
  <2>1. process' = 0 /\ ignored' = 0 /\ disk' = disk
    BY <1>2 DEF Crash
  <2>2. disk.version["extension"] \in Nat
    BY <1>1 DEF PlaneType
  <2> QED BY <2>1, <2>2 DEF SpawnedFromDisk, AckedExtensionRuns
<1>3. ASSUME ~Crash, NEW c \in Clients, Acked(c, "extension")', process' > 0
      PROVE  \/ process' >= clients'[c].saw["extension"]
             \/ OnItsWay("extension")' \/ clients'[c].saw["extension"] <= ignored'
  <2>1. /\ clients'[c].saw["extension"] = clients[c].saw["extension"]
        /\ clients[c].saw["extension"] <= disk.version["extension"]
        /\ clients[c].saw["extension"] \in Nat /\ process \in Nat /\ ignored \in Nat
        /\ disk.version["extension"] \in Nat
    BY <1>1, <1>3, ClientMoves DEF PromisesOnDisk, PlaneType, Versions
  <2>2. /\ \/ process' \in {process, 0}
           \/ process' = disk.version["extension"] /\ bar' = bar
        /\ ignored' >= ignored /\ ignored' \in Nat
        /\ ApplyIdle /\ "extension" \in bar.hand
             => ignored' = disk.version["extension"]
        /\ ApplyRest /\ "extension" \in bar.hand => process' = 0
    BY <1>1, <1>3, <2>1, ProcessMoves, NextType DEF Extension, Ready, TypeOK
  <2>3. CASE ~Acked(c, "extension")
    BY <1>1, <1>3, <2>3, ClientMoves, ServeCarries
  <2>4. CASE process' = disk.version["extension"]
    BY <2>1, <2>4
  <2>5. CASE process' = process /\ Acked(c, "extension")
    <3>1. process > 0
      BY <1>3, <2>5
    <3>2. \/ process >= clients[c].saw["extension"] \/ OnItsWay("extension")
          \/ clients[c].saw["extension"] <= ignored
      BY <1>1, <2>5, <3>1 DEF AckedExtensionRuns
    <3>3. CASE ~OnItsWay("extension")
      BY <2>1, <2>2, <2>5, <3>2, <3>3
    <3>4. CASE OnItsWay("extension")
      <4>1. ~LoadInitial
        BY <1>1, <3>1 DEF LoadInitial, At, SpawnedFromDisk
      <4>2. CASE ApplyIdle /\ "extension" \in bar.hand
        BY <2>1, <2>2, <4>2
      <4>3. CASE ApplyRest
        <5>1. "extension" \notin bar.hand
          BY <2>2, <2>5, <3>1, <4>3
        <5>2. /\ bar.pc \notin {"off", "load"}
              /\ UNCHANGED <<batch, channel>>
          BY <4>3 DEF ApplyRest, At
        <5> QED BY <3>4, <5>1, <5>2 DEF OnItsWay
      <4>4. CASE ~ApplyRest /\ ~(ApplyIdle /\ "extension" \in bar.hand)
        BY <1>1, <3>4, <4>1, <4>4, Carried
      <4> QED BY <4>2, <4>3, <4>4
    <3> QED BY <3>3, <3>4
  <2> QED BY <1>3, <2>2, <2>3, <2>4, <2>5
<1>4. ASSUME ~Crash PROVE SpawnedFromDisk'
  BY <1>1, <1>4, ProcessMoves
<1> QED
  BY <1>2, <1>3, <1>4 DEF AckedExtensionRuns

\* "reload delivered" is kept for extensions: after an acknowledged reload no
\* process of an older binary runs, unless the batch that will stop it is on
\* its way or idle mode ignored the reload.
THEOREM ExtensionNotLost == Spec => []AckedExtensionRuns
<1>1. Spec => []Extension
  BY InitExtension, NextExtension, PTL DEF Spec
<1>2. Extension => AckedExtensionRuns
  BY DEF Extension
<1> QED BY <1>1, <1>2, PTL

=============================================================================
