---------------------- MODULE ExtensionRegistry_proofs ----------------------
(***************************************************************************)
(* Theorems about ExtensionRegistry, for any number of processes, calls,   *)
(* package versions and events: type correctness; process ownership; what  *)
(* a reload takes effect on; and the matching of answers to calls.  Each   *)
(* rests on the invariant of the one before it.                            *)
(*                                                                         *)
(* The type invariant has four parts; a step disturbs one or two of them,  *)
(* and the frame lemmas carry the others.                                  *)
(***************************************************************************)
EXTENDS ExtensionRegistry, SequenceTheorems, TLAPS

LEMMA InitType == Init => TypeOK
<1> SUFFICES ASSUME Init PROVE TypeOK
  OBVIOUS
<1>1. ProcessTypes
  BY DEF Init, ProcessTypes
<1>2. HostTypes
  BY DEF Init, HostTypes
<1>3. ConnectionTypes
  BY EmptySeq DEF Init, ConnectionTypes, NoAnswer
<1>4. StatusTypes
  BY DEF Init, StatusTypes
<1> QED BY <1>1, <1>2, <1>3, <1>4 DEF TypeOK

LEMMA ProcessFrame ==
  ASSUME TypeOK, UNCHANGED <<disk, floor, proc, version, socket, child>>
  PROVE  ProcessTypes'
  BY DEF TypeOK, ProcessTypes

LEMMA HostFrame ==
  ASSUME TypeOK, UNCHANGED <<conn, connHeld, backing, host, result>>
  PROVE  HostTypes'
  BY DEF TypeOK, HostTypes

LEMMA ConnectionFrame ==
  ASSUME TypeOK, UNCHANGED <<pending, reader, answer, inbox, outbox, shut>>
  PROVE  ConnectionTypes'
  BY DEF TypeOK, ConnectionTypes

LEMMA StatusFrame == ASSUME TypeOK, UNCHANGED status PROVE StatusTypes'
  BY DEF TypeOK, StatusTypes

LEMMA KilledType ==
  ASSUME TypeOK
  PROVE  Killed(proc) \in
           [Procs -> {"unborn", "starting", "bound", "serving", "dead"}]
  BY DEF TypeOK, ProcessTypes, Killed

\* A frame read leaves the answer channel and the pending slots well typed.
LEMMA ResolveType ==
  ASSUME TypeOK, NEW p \in Procs, NEW echo \in Requests \cup {None},
         NEW ok \in BOOLEAN, Resolve(p, echo, ok)
  PROVE  /\ pending' \in [Procs -> Requests \cup {None}]
         /\ answer' \in [to : Requests \cup {None},
                         echo : Requests \cup {None}, ok : BOOLEAN]
  BY DEF TypeOK, ConnectionTypes, Resolve

LEMMA NextType == TypeOK /\ [Next]_vars => TypeOK'
<1> SUFFICES ASSUME TypeOK, [Next]_vars PROVE TypeOK'
  OBVIOUS
<1> USE DEF procVars, netVars
<1>1. ASSUME BeginCall PROVE TypeOK'
  <2>1. HostTypes'
    <3>1. host.req + 1 \in Requests
      BY <1>1, BoundsAssumption DEF BeginCall, TypeOK, HostTypes, Requests, None
    <3> QED
      BY <1>1, <3>1 DEF BeginCall, TypeOK, HostTypes
  <2> QED
    BY <1>1, <2>1, ProcessFrame, ConnectionFrame, StatusFrame
       DEF BeginCall, TypeOK
<1>2. ASSUME BeginReload PROVE TypeOK'
  <2>1. HostTypes'
    BY <1>2 DEF BeginReload, TypeOK, HostTypes
  <2> QED
    BY <1>2, <2>1, ProcessFrame, ConnectionFrame, StatusFrame
       DEF BeginReload, TypeOK
<1>3. ASSUME Lookup PROVE TypeOK'
  <2>1. HostTypes'
    BY <1>3 DEF Lookup, TypeOK, HostTypes
  <2> QED
    BY <1>3, <2>1, ProcessFrame, ConnectionFrame, StatusFrame
       DEF Lookup, TypeOK
<1>4. ASSUME WriteRequest PROVE TypeOK'
  <2>1. HostTypes'
    BY <1>4 DEF WriteRequest, TypeOK, HostTypes, Goto
  <2>2. ConnectionTypes'
    <3>1. host.req \in Requests \cup {None}
      BY DEF TypeOK, HostTypes
    <3>2. host.to \in Procs => Append(inbox[host.to], host.req)
                                  \in Seq(Requests \cup {None})
      BY <3>1, AppendProperties DEF TypeOK, ConnectionTypes
    <3> QED
      BY <1>4, <3>1, <3>2 DEF WriteRequest, TypeOK, ConnectionTypes, NoAnswer
  <2> QED
    BY <1>4, <2>1, <2>2, ProcessFrame, StatusFrame
       DEF WriteRequest, TypeOK
<1>5. ASSUME WriteFails PROVE TypeOK'
  <2>1. HostTypes'
    BY <1>5 DEF WriteFails, TypeOK, HostTypes, Goto
  <2>2. ConnectionTypes'
    BY <1>5 DEF WriteFails, TypeOK, ConnectionTypes
  <2> QED
    BY <1>5, <2>1, <2>2, ProcessFrame, StatusFrame
       DEF WriteFails, TypeOK
<1>6. ASSUME ReceiveAnswer PROVE TypeOK'
  <2>1. HostTypes'
    <3>1. CASE answer.ok
      <4>1. answer.echo \in Requests \cup {None}
        BY DEF TypeOK, ConnectionTypes
      <4>2. host' = [host EXCEPT !.pc = "idle"] /\ backing' = FALSE
            /\ connHeld' = FALSE /\ conn' = conn
        BY <1>6, <3>1 DEF ReceiveAnswer, Goto, Return
      <4>3. result' = [req |-> host.req, ok |-> TRUE, echo |-> answer.echo,
                       from |-> host.to]
        BY <1>6, <3>1 DEF ReceiveAnswer, Return
      <4> QED BY <4>1, <4>2, <4>3 DEF TypeOK, HostTypes
    <3>2. CASE ~answer.ok
      BY <1>6, <3>2 DEF ReceiveAnswer, Goto, TypeOK, HostTypes
    <3> QED BY <3>1, <3>2
  <2>2. ConnectionTypes'
    BY <1>6 DEF ReceiveAnswer, TypeOK, ConnectionTypes, NoAnswer
  <2> QED
    BY <1>6, <2>1, <2>2, ProcessFrame, StatusFrame
       DEF ReceiveAnswer, TypeOK
<1>7. ASSUME RpcTimeout PROVE TypeOK'
  <2>1. HostTypes'
    BY <1>7 DEF RpcTimeout, TypeOK, HostTypes, Goto
  <2>2. ConnectionTypes'
    BY <1>7 DEF RpcTimeout, TypeOK, ConnectionTypes
  <2> QED
    BY <1>7, <2>1, <2>2, ProcessFrame, StatusFrame
       DEF RpcTimeout, TypeOK
<1>8. ASSUME Unroute PROVE TypeOK'
  <2>1. HostTypes'
    <3>1. CASE host.why = "fresh"
      <4>1. /\ host' = [host EXCEPT !.pc = "idle"]
            /\ backing' = TRUE /\ connHeld' = connHeld /\ conn' = None
        BY <1>8, <3>1 DEF Unroute, Goto, Fail, Return
      <4>2. result' = [req |-> host.req, ok |-> FALSE, echo |-> None,
                       from |-> None]
        BY <1>8, <3>1 DEF Unroute, Fail, Return
      <4> QED BY <4>1, <4>2 DEF TypeOK, HostTypes
    <3>2. CASE host.why # "fresh"
      <4>1. /\ host' \in {[host EXCEPT !.pc = "spawn"], [host EXCEPT !.pc = "kill"]}
            /\ conn' = None
            /\ UNCHANGED <<backing, result, connHeld>>
        BY <1>8, <3>2 DEF Unroute, Goto
      <4> QED BY <4>1 DEF TypeOK, HostTypes
    <3> QED BY <3>1, <3>2
  <2>2. ConnectionTypes'
    BY <1>8 DEF Unroute, TypeOK, ConnectionTypes, HostTypes
  <2> QED
    BY <1>8, <2>1, <2>2, ProcessFrame, StatusFrame
       DEF Unroute, TypeOK
<1>9. ASSUME SpawnRefused PROVE TypeOK'
  <2>1. HostTypes'
    BY <1>9 DEF SpawnRefused, TypeOK, HostTypes, Goto, Fail, Return
  <2> QED
    BY <1>9, <2>1, ProcessFrame, ConnectionFrame, StatusFrame
       DEF SpawnRefused, TypeOK
<1>10. ASSUME Spawn PROVE TypeOK'
  <2>1. ProcessTypes'
    BY <1>10, KilledType DEF Spawn, TypeOK, ProcessTypes
  <2>2. HostTypes'
    BY <1>10 DEF Spawn, TypeOK, HostTypes, Goto
  <2> QED
    BY <1>10, <2>1, <2>2, ConnectionFrame, StatusFrame
       DEF Spawn, TypeOK
<1>11. ASSUME SpawnFails PROVE TypeOK'
  <2>1. ProcessTypes'
    BY <1>11, KilledType DEF SpawnFails, TypeOK, ProcessTypes
  <2>2. HostTypes'
    BY <1>11 DEF SpawnFails, TypeOK, HostTypes, Goto, Fail, Return
  <2> QED
    BY <1>11, <2>1, <2>2, ConnectionFrame, StatusFrame
       DEF SpawnFails, TypeOK
<1>12. ASSUME PollGivesUp PROVE TypeOK'
  <2>1. ProcessTypes'
    BY <1>12, KilledType DEF PollGivesUp, TypeOK, ProcessTypes
  <2>2. HostTypes'
    BY <1>12 DEF PollGivesUp, TypeOK, HostTypes, Goto, Fail, Return
  <2> QED
    BY <1>12, <2>1, <2>2, ConnectionFrame, StatusFrame
       DEF PollGivesUp, TypeOK
<1>13. ASSUME Handshake PROVE TypeOK'
  <2>1. ProcessTypes'
    BY <1>13 DEF Handshake, TypeOK, ProcessTypes
  <2>2. HostTypes'
    BY <1>13 DEF Handshake, TypeOK, HostTypes, Goto
  <2> QED
    BY <1>13, <2>1, <2>2, ConnectionFrame, StatusFrame
       DEF Handshake, TypeOK
<1>14. ASSUME HandshakeFails PROVE TypeOK'
  <2>1. HostTypes'
    BY <1>14 DEF HandshakeFails, TypeOK, HostTypes, Goto, Fail, Return
  <2> QED
    BY <1>14, <2>1, ProcessFrame, ConnectionFrame, StatusFrame
       DEF HandshakeFails, TypeOK
<1>15. ASSUME Attach PROVE TypeOK'
  <2>1. HostTypes'
    BY <1>15 DEF Attach, TypeOK, HostTypes, ProcessTypes
  <2>2. ConnectionTypes'
    BY <1>15 DEF Attach, TypeOK, ConnectionTypes
  <2> QED
    BY <1>15, <2>1, <2>2, ProcessFrame, StatusFrame
       DEF Attach, TypeOK
<1>16. ASSUME ReloadKills PROVE TypeOK'
  <2>1. ProcessTypes'
    BY <1>16, KilledType DEF ReloadKills, TypeOK, ProcessTypes
  <2>2. HostTypes'
    BY <1>16 DEF ReloadKills, TypeOK, HostTypes, Goto
  <2> QED
    BY <1>16, <2>1, <2>2, ConnectionFrame, StatusFrame
       DEF ReloadKills, TypeOK
<1>17. ASSUME NEW p \in Procs, ReadFrame(p) PROVE TypeOK'
  <2>1. ConnectionTypes'
    <3>1. outbox[p] \in Seq(Frames) /\ outbox[p] # <<>>
      BY <1>17 DEF ReadFrame, TypeOK, ConnectionTypes
    <3>2. Tail(outbox[p]) \in Seq(Frames) /\ Head(outbox[p]) \in Frames
      BY <3>1, HeadTailProperties
    <3>3. /\ pending' \in [Procs -> Requests \cup {None}]
          /\ answer' \in [to : Requests \cup {None},
                          echo : Requests \cup {None}, ok : BOOLEAN]
      <4>1. CASE Head(outbox[p]).kind = "response"
        BY <1>17, <3>2, <4>1, ResolveType DEF ReadFrame, Frames
      <4>2. CASE Head(outbox[p]).kind # "response"
        BY <1>17, <4>2 DEF ReadFrame, TypeOK, ConnectionTypes
      <4> QED BY <4>1, <4>2
    <3> QED
      BY <1>17, <3>2, <3>3 DEF ReadFrame, TypeOK, ConnectionTypes
  <2> QED
    BY <1>17, <2>1, ProcessFrame, HostFrame, StatusFrame
       DEF ReadFrame, TypeOK
<1>18. ASSUME NEW p \in Procs, ReaderEof(p) \/ ReaderIdleTimeout(p) PROVE TypeOK'
  <2>1. ConnectionTypes'
    <3>1. Resolve(p, None, FALSE)
      BY <1>18 DEF ReaderEof, ReaderIdleTimeout
    <3>2. /\ pending' \in [Procs -> Requests \cup {None}]
          /\ answer' \in [to : Requests \cup {None},
                          echo : Requests \cup {None}, ok : BOOLEAN]
      BY <3>1, ResolveType
    <3> QED
      BY <1>18, <3>2 DEF ReaderEof, ReaderIdleTimeout, TypeOK, ConnectionTypes
  <2> QED
    BY <1>18, <2>1, ProcessFrame, HostFrame, StatusFrame
       DEF ReaderEof, ReaderIdleTimeout, TypeOK
<1>19. ASSUME NEW p \in Procs, Bind(p) PROVE TypeOK'
  <2>1. ProcessTypes'
    BY <1>19 DEF Bind, TypeOK, ProcessTypes
  <2> QED
    BY <1>19, <2>1, HostFrame, ConnectionFrame, StatusFrame
       DEF Bind, TypeOK
<1>20. ASSUME NEW p \in Procs, Serve(p) PROVE TypeOK'
  <2>1. ConnectionTypes'
    <3>1. inbox[p] \in Seq(Requests \cup {None}) /\ inbox[p] # <<>>
      BY <1>20 DEF Serve, TypeOK, ConnectionTypes
    <3>2. /\ Tail(inbox[p]) \in Seq(Requests \cup {None})
          /\ Head(inbox[p]) \in Requests \cup {None}
      BY <3>1, HeadTailProperties
    <3>3. PICK ok \in BOOLEAN :
             outbox' = [outbox EXCEPT ![p] = Append(@, Reply(Head(inbox[p]), ok))]
      BY <1>20 DEF Serve
    <3>4. Reply(Head(inbox[p]), ok) \in Frames
      BY <3>2 DEF Reply, Frames
    <3>5. Append(outbox[p], Reply(Head(inbox[p]), ok)) \in Seq(Frames)
      BY <3>4, AppendProperties DEF TypeOK, ConnectionTypes
    <3> QED
      BY <1>20, <3>2, <3>3, <3>5 DEF Serve, TypeOK, ConnectionTypes
  <2> QED
    BY <1>20, <2>1, ProcessFrame, HostFrame, StatusFrame
       DEF Serve, TypeOK
<1>21. ASSUME NEW p \in Procs, EmitEvent(p) PROVE TypeOK'
  <2>1. ConnectionTypes'
    <3>1. Event \in Frames
      BY DEF Event, Frames
    <3>2. Append(outbox[p], Event) \in Seq(Frames)
      BY <3>1, AppendProperties DEF TypeOK, ConnectionTypes
    <3> QED
      BY <1>21, <3>2 DEF EmitEvent, TypeOK, ConnectionTypes
  <2> QED
    BY <1>21, <2>1, ProcessFrame, HostFrame, StatusFrame
       DEF EmitEvent, TypeOK
<1>22. ASSUME NEW p \in Procs, Exit(p) PROVE TypeOK'
  <2>1. ProcessTypes'
    BY <1>22 DEF Exit, TypeOK, ProcessTypes
  <2> QED
    BY <1>22, <2>1, HostFrame, ConnectionFrame, StatusFrame
       DEF Exit, TypeOK
<1>23. ASSUME Install PROVE TypeOK'
  <2>1. ProcessTypes'
    BY <1>23 DEF Install, TypeOK, ProcessTypes
  <2> QED
    BY <1>23, <2>1, HostFrame, ConnectionFrame, StatusFrame
       DEF Install, TypeOK
<1>24. ASSUME BackoffExpires PROVE TypeOK'
  <2>1. HostTypes'
    BY <1>24, ZenonT(30) DEF BackoffExpires, TypeOK, HostTypes
  <2> QED
    BY <1>24, <2>1, ProcessFrame, ConnectionFrame, StatusFrame
       DEF BackoffExpires, TypeOK
<1>25. ASSUME StatusFailures \/ StatusConnections \/ StatusChildren PROVE TypeOK'
  <2>1. StatusTypes'
    BY <1>25 DEF StatusFailures, StatusConnections, StatusChildren, TypeOK, StatusTypes, Say
  <2> QED
    BY <1>25, <2>1, ProcessFrame, HostFrame, ConnectionFrame
       DEF StatusFailures, StatusConnections, StatusChildren, TypeOK
<1>26. CASE UNCHANGED vars
  BY <1>26, ProcessFrame, HostFrame, ConnectionFrame, StatusFrame
     DEF vars, TypeOK
<1> QED
  BY <1>1, <1>2, <1>3, <1>4, <1>5, <1>6, <1>7, <1>8, <1>9, <1>10, <1>11,
     <1>12, <1>13, <1>14, <1>15, <1>16, <1>17, <1>18, <1>19, <1>20, <1>21,
     <1>22, <1>23, <1>24, <1>25, <1>26 DEF Next, HostStep, ReaderStep,
     StatusStep

\* Every reachable state of the registry, its connections and its processes
\* is well typed, for any number of processes, calls and versions.
THEOREM TypeCorrect == Spec => []TypeOK
<1>1. Init => TypeOK
  BY InitType
<1>2. TypeOK /\ [Next]_vars => TypeOK'
  BY NextType
<1> QED
  BY <1>1, <1>2, PTL DEF Spec

-----------------------------------------------------------------------------
\* While the main thread is replacing or killing the process nothing is
\* routed: every path to those steps goes through a removal of the
\* connection, or through a lookup that found none.
UnroutedWhileReplacing ==
    host.pc \in {"spawn", "poll", "attach", "kill"} => conn = None

Ownership ==
    /\ TypeOK
    /\ UnroutedWhileReplacing
    /\ NoStrayProcess
    /\ RoutedIsChild

LEMMA ProcNotNone == ASSUME NEW p \in Procs PROVE p # None
  BY BoundsAssumption DEF Procs, None

LEMMA InitOwnership == Init => Ownership
  BY InitType DEF Init, Ownership, UnroutedWhileReplacing, NoStrayProcess,
     RoutedIsChild, Alive

\* Steps that leave the processes, the maps and the program counter's side of
\* UnroutedWhileReplacing alone.
LEMMA QuietStep ==
  ASSUME Ownership, TypeOK', UNCHANGED <<proc, child, conn>>,
         host'.pc \in {"spawn", "poll", "attach", "kill"} => conn = None
  PROVE  Ownership'
  BY DEF Ownership, UnroutedWhileReplacing, NoStrayProcess, RoutedIsChild,
         Alive

\* kill_child leaves no process running, so a step that kills the child and
\* forgets it, with nothing routed, keeps the ownership invariant.
LEMMA KillStep ==
  ASSUME Ownership, TypeOK', proc' = Killed(proc), child' = None,
         conn = None, conn' = conn
  PROVE  Ownership'
<1>1. \A p \in Procs : proc'[p] \notin {"starting", "bound", "serving"}
  <2> SUFFICES ASSUME NEW p \in Procs
               PROVE  proc'[p] \notin {"starting", "bound", "serving"}
    OBVIOUS
  <2>1. CASE child = None
    BY <2>1, ProcNotNone DEF Ownership, TypeOK, ProcessTypes, NoStrayProcess, Alive, Killed
  <2>2. CASE child # None
    BY <2>2 DEF Ownership, TypeOK, ProcessTypes, NoStrayProcess, Alive, Killed
  <2> QED BY <2>1, <2>2
<1> QED
  BY <1>1 DEF Ownership, UnroutedWhileReplacing, NoStrayProcess, RoutedIsChild,
     Alive

LEMMA NextOwnership == Ownership /\ [Next]_vars => Ownership'
<1> SUFFICES ASSUME Ownership, [Next]_vars PROVE Ownership'
  OBVIOUS
<1> USE DEF At, Goto, Return, Fail, procVars, netVars
<1>0. TypeOK'
  BY NextType DEF Ownership
<1>h. /\ "pc" \in DOMAIN host
      /\ \A x : [host EXCEPT !.pc = x].pc = x
  BY DEF Ownership, TypeOK, HostTypes
<1>1. ASSUME BeginCall PROVE Ownership'
  BY <1>1, QuietStep, <1>0, <1>h DEF BeginCall
<1>2. ASSUME BeginReload PROVE Ownership'
  BY <1>2, QuietStep, <1>0, <1>h DEF BeginReload
<1>3. ASSUME Lookup PROVE Ownership'
  BY <1>3, QuietStep, <1>0, <1>h DEF Lookup
<1>4. ASSUME WriteRequest \/ WriteFails \/ RpcTimeout PROVE Ownership'
  BY <1>4, QuietStep, <1>0, <1>h DEF WriteRequest, WriteFails, RpcTimeout
<1>5. ASSUME ReceiveAnswer PROVE Ownership'
  BY <1>5, QuietStep, <1>0, <1>h DEF ReceiveAnswer
<1>6. ASSUME Unroute PROVE Ownership'
  BY <1>6, <1>0, <1>h DEF Unroute, Ownership, TypeOK, ProcessTypes, UnroutedWhileReplacing,
     NoStrayProcess, RoutedIsChild, Alive
<1>7. ASSUME SpawnRefused \/ HandshakeFails PROVE Ownership'
  BY <1>7, QuietStep, <1>0, <1>h DEF SpawnRefused, HandshakeFails
<1>8. ASSUME Spawn PROVE Ownership'
  <2>1. conn = None
    BY <1>8 DEF Spawn, Ownership, UnroutedWhileReplacing
  <2>2. PICK p \in Procs : /\ proc' = [Killed(proc) EXCEPT ![p] = "starting"]
                           /\ child' = p
    BY <1>8 DEF Spawn
  <2>3. Killed(proc) \in
           [Procs -> {"unborn", "starting", "bound", "serving", "dead"}]
    BY DEF Killed, Ownership, TypeOK, ProcessTypes
  <2>4. \A q \in Procs : q # p =>
           proc'[q] \notin {"starting", "bound", "serving"}
    <3> SUFFICES ASSUME NEW q \in Procs, q # p
                 PROVE  proc'[q] \notin {"starting", "bound", "serving"}
      OBVIOUS
    <3>1. proc'[q] = Killed(proc)[q]
      BY <2>2, <2>3
    <3>2. CASE child = None
      BY <3>1, <3>2, ProcNotNone DEF Killed, Ownership, NoStrayProcess, Alive
    <3>3. CASE child # None
      BY <3>1, <3>3 DEF Killed, Ownership, TypeOK, ProcessTypes, NoStrayProcess, Alive
    <3> QED BY <3>2, <3>3
  <2> QED
    BY <1>8, <1>0, <1>h, <2>1, <2>2, <2>3, <2>4 DEF Spawn, Ownership, TypeOK, ProcessTypes,
       UnroutedWhileReplacing, NoStrayProcess, RoutedIsChild, Alive
<1>9. ASSUME SpawnFails PROVE Ownership'
  <2>1. conn = None
    BY <1>9 DEF SpawnFails, Ownership, UnroutedWhileReplacing
  <2> QED
    BY <1>9, <2>1, KillStep, <1>0 DEF SpawnFails
<1>10. ASSUME PollGivesUp \/ ReloadKills PROVE Ownership'
  <2>1. conn = None
    BY <1>10 DEF PollGivesUp, ReloadKills, Ownership, UnroutedWhileReplacing
  <2>2. socket' \in Procs \cup {None}
    BY <1>10 DEF PollGivesUp, ReloadKills, Ownership, TypeOK, ProcessTypes
  <2> QED
    BY <1>10, <2>1, <2>2, KillStep, <1>0 DEF PollGivesUp, ReloadKills
<1>11. ASSUME Handshake PROVE Ownership'
  BY <1>11, <1>0, <1>h DEF Handshake, Ownership, TypeOK, ProcessTypes, UnroutedWhileReplacing,
     NoStrayProcess, RoutedIsChild, Alive
<1>12. ASSUME Attach PROVE Ownership'
  BY <1>12, <1>0, <1>h DEF Attach, Ownership, TypeOK, ProcessTypes, UnroutedWhileReplacing,
     NoStrayProcess, RoutedIsChild, Alive
<1>13. ASSUME NEW p \in Procs, ReaderStep(p) \/ Serve(p) \/ EmitEvent(p)
       PROVE  Ownership'
  BY <1>13, QuietStep, <1>0, <1>h DEF ReaderStep, ReadFrame, ReaderEof, ReaderIdleTimeout,
     Serve, EmitEvent, Ownership, UnroutedWhileReplacing
<1>14. ASSUME NEW p \in Procs, Bind(p) \/ Exit(p) PROVE Ownership'
  BY <1>14, <1>0, <1>h DEF Bind, Exit, Ownership, TypeOK, ProcessTypes, UnroutedWhileReplacing,
     NoStrayProcess, RoutedIsChild, Alive
<1>15. ASSUME Install \/ BackoffExpires \/ StatusFailures \/ StatusStep
       PROVE  Ownership'
  BY <1>15, QuietStep, <1>0, <1>h DEF Install, BackoffExpires, StatusFailures, StatusStep,
     StatusConnections, StatusChildren, Say, Ownership, UnroutedWhileReplacing
<1>16. CASE UNCHANGED vars
  BY <1>16, QuietStep, <1>0, <1>h DEF vars, Ownership, UnroutedWhileReplacing
<1> QED
  BY <1>1, <1>2, <1>3, <1>4, <1>5, <1>6, <1>7, <1>8, <1>9, <1>10, <1>11,
     <1>12, <1>13, <1>14, <1>15, <1>16 DEF Next, HostStep

\* The registry loses track of no process: whatever fails, in whatever order,
\* a running process is the one in `children`, and calls are routed to no
\* other.
THEOREM ProcessOwnership == Spec => [](NoStrayProcess /\ RoutedIsChild)
<1>1. Spec => []Ownership
  BY InitOwnership, NextOwnership, PTL DEF Spec
<1>2. Ownership => NoStrayProcess /\ RoutedIsChild
  BY DEF Ownership
<1> QED
  BY <1>1, <1>2, PTL

-----------------------------------------------------------------------------
\* The main thread calls through the connection in the map, and attaches the
\* connection of the child it spawned.
CallsThroughMap ==
    /\ host.pc \in {"send", "wait"} => conn # None /\ host.to = conn
    /\ host.pc \in {"poll", "attach"} => child # None

\* What is routed, or about to be, was started no earlier than the last
\* drop_running returned.
Fresh ==
    /\ floor <= disk
    /\ conn # None => version[conn] >= floor
    /\ host.pc \in {"poll", "attach"} => version[child] >= floor

Routing == Ownership /\ CallsThroughMap /\ Fresh

LEMMA InitRouting == Init => Routing
  BY InitOwnership DEF Init, Routing, CallsThroughMap, Fresh

\* Steps that leave the maps and versions alone and do not move the main
\* thread into a step that calls or attaches.
LEMMA RoutingFrame ==
  ASSUME Routing, Ownership', UNCHANGED <<disk, floor, version, conn, child>>,
         \/ UNCHANGED host
         \/ host'.pc \notin {"send", "wait", "poll", "attach"}
  PROVE  Routing'
  BY DEF Routing, CallsThroughMap, Fresh

LEMMA NextRouting == Routing /\ [Next]_vars => Routing'
<1> SUFFICES ASSUME Routing, [Next]_vars PROVE Routing'
  OBVIOUS
<1> USE DEF At, Goto, Return, Fail, procVars, netVars
<1>0. Ownership'
  BY NextOwnership DEF Routing
<1>t. Ownership /\ TypeOK
  BY DEF Routing, Ownership
<1>h. /\ "pc" \in DOMAIN host
      /\ \A x : [host EXCEPT !.pc = x].pc = x
  BY <1>t DEF TypeOK, HostTypes
<1>1. ASSUME BeginCall PROVE Routing'
  BY <1>1, <1>0, <1>h, <1>t, RoutingFrame DEF BeginCall, TypeOK, HostTypes
<1>2. ASSUME BeginReload PROVE Routing'
  BY <1>2, <1>0, <1>h, <1>t, RoutingFrame DEF BeginReload, TypeOK, HostTypes
<1>3. ASSUME Lookup PROVE Routing'
  BY <1>3, <1>0, <1>t DEF Lookup, Routing, CallsThroughMap, Fresh, TypeOK,
     HostTypes
<1>4. ASSUME WriteRequest PROVE Routing'
  BY <1>4, <1>0, <1>t DEF WriteRequest, Routing, CallsThroughMap, Fresh,
     TypeOK, HostTypes
<1>5. ASSUME WriteFails \/ RpcTimeout \/ ReceiveAnswer PROVE Routing'
  BY <1>5, <1>0, <1>h, RoutingFrame DEF WriteFails, RpcTimeout, ReceiveAnswer
<1>6. ASSUME Unroute PROVE Routing'
  BY <1>6, <1>0, <1>t DEF Unroute, Routing, CallsThroughMap, Fresh, TypeOK,
     HostTypes
<1>7. ASSUME SpawnRefused \/ HandshakeFails PROVE Routing'
  BY <1>7, <1>0, <1>h, RoutingFrame DEF SpawnRefused, HandshakeFails
<1>8. ASSUME Spawn PROVE Routing'
  <2>1. conn = None
    BY <1>8, <1>t DEF Spawn, Ownership, UnroutedWhileReplacing
  <2>2. PICK p \in Procs : /\ version' = [version EXCEPT ![p] = disk]
                           /\ child' = p
    BY <1>8 DEF Spawn
  <2>3. version'[child'] = disk /\ child' # None
    BY <2>2, <1>t, ProcNotNone DEF TypeOK, ProcessTypes
  <2>4. disk >= floor
    BY <1>t DEF Routing, Fresh, TypeOK, ProcessTypes
  <2> QED
    BY <1>8, <1>0, <1>t, <2>1, <2>3, <2>4 DEF Spawn, Routing,
       CallsThroughMap, Fresh, TypeOK, HostTypes
<1>9. ASSUME SpawnFails \/ PollGivesUp PROVE Routing'
  <2>1. conn = None
    BY <1>9, <1>t DEF SpawnFails, PollGivesUp, Ownership,
       UnroutedWhileReplacing
  <2> QED
    BY <1>9, <1>0, <1>t, <2>1 DEF SpawnFails, PollGivesUp, Routing,
       CallsThroughMap, Fresh, TypeOK, HostTypes
<1>10. ASSUME Handshake PROVE Routing'
  BY <1>10, <1>0, <1>t DEF Handshake, Routing, CallsThroughMap, Fresh, TypeOK,
     HostTypes
<1>11. ASSUME Attach PROVE Routing'
  BY <1>11, <1>0, <1>t DEF Attach, Routing, CallsThroughMap, Fresh, TypeOK,
     HostTypes
<1>12. ASSUME ReloadKills PROVE Routing'
  <2>1. conn = None
    BY <1>12, <1>t DEF ReloadKills, Ownership, UnroutedWhileReplacing
  <2> QED
    BY <1>12, <1>0, <1>t, <2>1 DEF ReloadKills, Routing, CallsThroughMap,
       Fresh, TypeOK, HostTypes, ProcessTypes
<1>13. ASSUME NEW p \in Procs,
              ReaderStep(p) \/ Bind(p) \/ Serve(p) \/ EmitEvent(p) \/ Exit(p)
       PROVE  Routing'
  BY <1>13, <1>0, RoutingFrame DEF ReaderStep, ReadFrame, ReaderEof,
     ReaderIdleTimeout, Bind, Serve, EmitEvent, Exit
<1>14. ASSUME Install PROVE Routing'
  BY <1>14, <1>0, <1>t DEF Install, Routing, CallsThroughMap, Fresh, TypeOK,
     ProcessTypes
<1>15. ASSUME BackoffExpires \/ StatusFailures \/ StatusStep PROVE Routing'
  BY <1>15, <1>0, RoutingFrame DEF BackoffExpires, StatusFailures,
     StatusStep, StatusConnections, StatusChildren
<1>16. CASE UNCHANGED vars
  BY <1>16, <1>0, RoutingFrame DEF vars
<1> QED
  BY <1>1, <1>2, <1>3, <1>4, <1>5, <1>6, <1>7, <1>8, <1>9, <1>10, <1>11,
     <1>12, <1>13, <1>14, <1>15, <1>16 DEF Next, HostStep

\* After `drop_running` returned, a call that succeeds was answered by a
\* process started from the package that was on disk then, or a later one.
THEOREM ReloadTakesEffect == Spec => ReloadServesNewBinary
<1>1. Spec => []Routing
  BY InitRouting, NextRouting, PTL DEF Spec
<1>2. ASSUME Routing, [Next]_vars
      PROVE  [result' # result /\ result'.ok
                => version[result'.from] >= floor]_vars
  <2> SUFFICES ASSUME Next, result' # result, result'.ok
               PROVE  version[result'.from] >= floor
    BY <1>2
  <2>0. /\ ~(Fail /\ result'.ok)
        /\ result' = [req |-> host.req + 1, ok |-> FALSE, echo |-> None,
                      from |-> None] => ~result'.ok
    BY DEF Fail, Return
  <2> USE DEF procVars, netVars
  <2>1. ReceiveAnswer
    BY <2>0 DEF Next, HostStep, ReaderStep, StatusStep, BeginCall, BeginReload,
       Lookup, WriteRequest, WriteFails, RpcTimeout, Unroute, SpawnRefused,
       Spawn, SpawnFails, PollGivesUp, Handshake, HandshakeFails, Attach,
       ReloadKills, ReadFrame, ReaderEof, ReaderIdleTimeout, Bind, Serve,
       EmitEvent, Exit, Install, BackoffExpires, StatusFailures,
       StatusConnections, StatusChildren
  <2>2. result'.from = host.to /\ host.to = conn /\ conn # None
    BY <1>2, <2>1 DEF ReceiveAnswer, Return, At, Routing, CallsThroughMap
  <2> QED
    BY <1>2, <2>2 DEF Routing, Fresh
<1> QED
  BY <1>1, <1>2, PTL DEF Spec, ReloadServesNewBinary

-----------------------------------------------------------------------------
\* What a process has written that nobody read yet: events only, or one
\* answer, to request r, among events.
NoAnswerIn(s) == \A i \in 1 .. Len(s) : s[i].kind # "response"
OneAnswerIn(s, r) ==
    \E i \in 1 .. Len(s) :
        /\ s[i].kind = "response" /\ s[i].req = r
        /\ \A j \in 1 .. Len(s) : j # i => s[j].kind # "response"

LEMMA NothingWritten == NoAnswerIn(<<>>)
  BY DEF NoAnswerIn

LEMMA EventTaken ==
  ASSUME NEW s \in Seq(Frames), s # <<>>, NEW r,
         Head(s).kind # "response"
  PROVE  /\ NoAnswerIn(s) => NoAnswerIn(Tail(s))
         /\ OneAnswerIn(s, r) => OneAnswerIn(Tail(s), r)
<1> DEFINE t == Tail(s)
<1>1. /\ Len(t) = Len(s) - 1 /\ Len(s) \in Nat \ {0}
      /\ \A i \in 1 .. Len(t) : t[i] = s[i + 1]
      /\ Head(s) = s[1]
  BY HeadTailProperties, EmptySeq
<1>2. NoAnswerIn(s) => NoAnswerIn(t)
  BY <1>1 DEF NoAnswerIn
<1>3. ASSUME OneAnswerIn(s, r) PROVE OneAnswerIn(t, r)
  <2>1. PICK i \in 1 .. Len(s) :
           /\ s[i].kind = "response" /\ s[i].req = r
           /\ \A j \in 1 .. Len(s) : j # i => s[j].kind # "response"
    BY <1>3 DEF OneAnswerIn
  <2>2. i # 1
    BY <2>1, <1>1
  <2>3. i - 1 \in 1 .. Len(t) /\ t[i - 1] = s[i]
    BY <2>2, <1>1
  <2>4. \A j \in 1 .. Len(t) : j # i - 1 => t[j].kind # "response"
    BY <2>1, <1>1
  <2> QED
    BY <2>1, <2>3, <2>4 DEF OneAnswerIn
<1> QED BY <1>2, <1>3

LEMMA AnswerTaken ==
  ASSUME NEW s \in Seq(Frames), s # <<>>, NEW r,
         Head(s).kind = "response", OneAnswerIn(s, r)
  PROVE  Head(s).req = r /\ NoAnswerIn(Tail(s))
<1> DEFINE t == Tail(s)
<1>1. /\ Len(t) = Len(s) - 1 /\ Len(s) \in Nat \ {0}
      /\ \A i \in 1 .. Len(t) : t[i] = s[i + 1]
      /\ Head(s) = s[1]
  BY HeadTailProperties, EmptySeq
<1>2. PICK i \in 1 .. Len(s) :
         /\ s[i].kind = "response" /\ s[i].req = r
         /\ \A j \in 1 .. Len(s) : j # i => s[j].kind # "response"
  BY DEF OneAnswerIn
<1>3. 1 \in 1 .. Len(s)
  BY <1>1
<1>4. i = 1
  BY <1>1, <1>2, <1>3
<1>5. \A j \in 1 .. Len(t) : j + 1 \in 1 .. Len(s) /\ j + 1 # 1
  BY <1>1
<1> QED
  BY <1>1, <1>2, <1>4, <1>5 DEF NoAnswerIn

LEMMA FrameWritten ==
  ASSUME NEW s \in Seq(Frames), NEW r \in Requests \cup {None},
         NEW ok \in BOOLEAN
  PROVE  /\ NoAnswerIn(s) => /\ NoAnswerIn(Append(s, Event))
                             /\ OneAnswerIn(Append(s, Reply(r, ok)), r)
         /\ OneAnswerIn(s, r) => OneAnswerIn(Append(s, Event), r)
<1>1. Event.kind = "event" /\ Event \in Frames
  BY DEF Event, Frames
<1>2. /\ Reply(r, ok).kind = "response" /\ Reply(r, ok).req = r
      /\ Reply(r, ok) \in Frames
  BY DEF Reply, Frames
<1>3. ASSUME NEW f \in Frames
      PROVE  /\ Len(Append(s, f)) = Len(s) + 1 /\ Len(s) \in Nat
             /\ \A i \in 1 .. Len(s) : Append(s, f)[i] = s[i]
             /\ Append(s, f)[Len(s) + 1] = f
  BY AppendProperties, LenProperties
<1>4. NoAnswerIn(s) => NoAnswerIn(Append(s, Event))
  <2> DEFINE t == Append(s, Event)
  <2>1. /\ Len(t) = Len(s) + 1 /\ Len(s) \in Nat
        /\ \A i \in 1 .. Len(s) : t[i] = s[i]
        /\ t[Len(s) + 1] = Event
    BY <1>1, <1>3
  <2> HIDE DEF t
  <2>2. \A i \in 1 .. Len(t) : i \in 1 .. Len(s) \/ i = Len(s) + 1
    BY <2>1
  <2> QED
    BY <1>1, <2>1, <2>2 DEF NoAnswerIn
<1>5. NoAnswerIn(s) => OneAnswerIn(Append(s, Reply(r, ok)), r)
  <2> DEFINE t == Append(s, Reply(r, ok))
  <2>1. /\ Len(t) = Len(s) + 1 /\ Len(s) \in Nat
        /\ \A i \in 1 .. Len(s) : t[i] = s[i]
        /\ t[Len(s) + 1] = Reply(r, ok)
    BY <1>2, <1>3
  <2> HIDE DEF t
  <2>2. \A i \in 1 .. Len(t) : i # Len(s) + 1 => i \in 1 .. Len(s)
    BY <2>1
  <2>3. Len(s) + 1 \in 1 .. Len(t)
    BY <2>1
  <2>4. NoAnswerIn(s) => OneAnswerIn(t, r)
    BY <1>2, <2>1, <2>2, <2>3 DEF NoAnswerIn, OneAnswerIn
  <2> QED BY <2>4 DEF t
<1>6. OneAnswerIn(s, r) => OneAnswerIn(Append(s, Event), r)
  <2> DEFINE t == Append(s, Event)
  <2>1. /\ Len(t) = Len(s) + 1 /\ Len(s) \in Nat
        /\ \A i \in 1 .. Len(s) : t[i] = s[i]
        /\ t[Len(s) + 1] = Event
    BY <1>1, <1>3
  <2> HIDE DEF t
  <2>2. \A i \in 1 .. Len(t) : i \in 1 .. Len(s) \/ i = Len(s) + 1
    BY <2>1
  <2>3. \A i \in 1 .. Len(s) : i \in 1 .. Len(t)
    BY <2>1
  <2>4. OneAnswerIn(s, r) => OneAnswerIn(t, r)
    BY <1>1, <2>1, <2>2, <2>3 DEF OneAnswerIn
  <2> QED BY <2>4 DEF t
<1> QED BY <1>4, <1>5, <1>6

\* Nothing that could answer a call is on its way on connection p; or exactly
\* one thing is: request r, unread, or the answer to it.
Quiet(p) == inbox[p] = <<>> /\ NoAnswerIn(outbox[p])
InFlight(p, r) ==
    \/ inbox[p] = <<r>> /\ NoAnswerIn(outbox[p])
    \/ inbox[p] = <<>> /\ OneAnswerIn(outbox[p], r)

\* A slot of `pending` is filled only while the call it belongs to waits, and
\* that call's request is all there is on its connection.
OneInFlight ==
    \A p \in Procs : pending[p] # None =>
        /\ At("wait") /\ p = host.to /\ pending[p] = host.req
        /\ InFlight(p, host.req)

\* The result channel is filled only for the call that waits, and then no
\* slot of `pending` is.
AnswerInFlight ==
    answer.to # None =>
        /\ At("wait") /\ answer.to = host.req
        /\ \A p \in Procs : pending[p] = None
        /\ answer.ok => answer.echo = host.req /\ Quiet(host.to)

\* A connection that failed a call was given up, so whatever is late on it is
\* never taken for a later call's answer: the one that is routed between
\* calls, and the one about to be, carry nothing.
QuietBetweenCalls ==
    /\ conn # None /\ host.pc \in {"idle", "lookup", "send"} => Quiet(conn)
    /\ At("attach") => Quiet(child)
    /\ \A p \in Procs :
         proc[p] \in {"unborn", "starting", "bound"} => Quiet(p)

\* Whoever looks up, writes or waits does so for a request.
Numbered ==
    host.req = None => /\ host.pc \in {"idle", "unroute", "kill"}
                       /\ host.why # "reuse"

Matching ==
    /\ Routing /\ Numbered /\ OneInFlight /\ AnswerInFlight /\ QuietBetweenCalls
    /\ AnswerBelongsToCall

LEMMA InitMatching == Init => Matching
<1> SUFFICES ASSUME Init PROVE Matching
  OBVIOUS
<1>1. \A p \in Procs : Quiet(p)
  BY NothingWritten DEF Init, Quiet
<1> QED
  BY <1>1, InitRouting DEF Init, Matching, OneInFlight, AnswerInFlight,
     QuietBetweenCalls, AnswerBelongsToCall, NoAnswer, At, Numbered

LEMMA NextNumbered == TypeOK /\ Numbered /\ [Next]_vars => Numbered'
<1> SUFFICES ASSUME TypeOK, Numbered, [Next]_vars PROVE Numbered'
  OBVIOUS
<1>t. /\ host \in [pc : {"idle", "lookup", "send", "wait", "unroute", "spawn",
                        "poll", "attach", "kill"},
                  req : Requests \cup {None}, to : Procs \cup {None},
                  why : {"call", "reuse", "fresh", "reload"}]
      /\ \A r \in Requests \cup {None} : r + 1 # None
  BY BoundsAssumption DEF TypeOK, HostTypes, Requests, None
<1> USE DEF At, Goto, Return, Fail, Numbered
<1>1. ASSUME BeginCall \/ BeginReload PROVE Numbered'
  BY <1>1, <1>t DEF BeginCall, BeginReload
<1>2. ASSUME HostStep PROVE Numbered'
  BY <1>2, <1>t DEF HostStep, Lookup, WriteRequest, WriteFails, ReceiveAnswer,
     RpcTimeout, Unroute, SpawnRefused, Spawn, SpawnFails, PollGivesUp,
     Handshake, HandshakeFails, Attach, ReloadKills
<1>3. CASE UNCHANGED host
  BY <1>3
<1> QED
  BY <1>1, <1>2, <1>3 DEF Next, ReaderStep, ReadFrame, ReaderEof,
     ReaderIdleTimeout, Bind, Serve, EmitEvent, Exit, Install, BackoffExpires,
     StatusFailures, StatusStep, StatusConnections, StatusChildren, vars

\* What an answer read or a failed read does to the connection it is on and
\* to the result channel.
LEMMA ResolveMatches ==
  ASSUME Matching, NEW p \in Procs, NEW echo, NEW ok \in BOOLEAN,
         Resolve(p, echo, ok), UNCHANGED <<host, inbox>>,
         ok /\ pending[p] # None => echo = host.req /\ Quiet(p)',
         \A q \in Procs : q # p => outbox'[q] = outbox[q],
         Quiet(p) => Quiet(p)'
  PROVE  OneInFlight' /\ AnswerInFlight'
<1>t. /\ pending \in [Procs -> Requests \cup {None}]
      /\ host.to \in Procs \cup {None}
  BY DEF Matching, Routing, Ownership, TypeOK, ConnectionTypes, HostTypes
<1>1. /\ pending' = [pending EXCEPT ![p] = None]
      /\ answer' = IF pending[p] = None THEN answer
                   ELSE [to |-> pending[p], echo |-> echo, ok |-> ok]
  BY DEF Resolve
<1>2. OneInFlight'
  <2> SUFFICES ASSUME NEW q \in Procs, pending'[q] # None
               PROVE  /\ At("wait")' /\ q = host.to' /\ pending'[q] = host.req'
                      /\ InFlight(q, host.req)'
    BY DEF OneInFlight
  <2>1. q # p /\ pending[q] = pending'[q]
    BY <1>1, <1>t
  <2> QED
    BY <2>1 DEF Matching, OneInFlight, InFlight, At
<1>3. AnswerInFlight'
  <2>1. CASE pending[p] = None
    <3>1. answer' = answer /\ \A q \in Procs : pending'[q] = pending[q]
      BY <1>1, <1>t, <2>1
    <3>2. answer.to # None /\ answer.ok => Quiet(host.to)'
      <4> SUFFICES ASSUME answer.to # None, answer.ok PROVE Quiet(host.to)'
        OBVIOUS
      <4>1. Quiet(host.to) /\ At("wait")
        BY DEF Matching, AnswerInFlight
      <4>2. host.to \in Procs
        BY <4>1, <1>t DEF Matching, Routing, CallsThroughMap, At
      <4>3. CASE host.to = p
        BY <4>1, <4>3
      <4>4. CASE host.to # p
        BY <4>1, <4>2, <4>4 DEF Quiet
      <4> QED BY <4>3, <4>4
    <3> QED
      BY <3>1, <3>2 DEF Matching, AnswerInFlight, At
  <2>2. CASE pending[p] # None
    <3>1. /\ At("wait") /\ p = host.to /\ pending[p] = host.req
          /\ \A q \in Procs : q # p => pending[q] = None
      BY <2>2 DEF Matching, OneInFlight
    <3>2. \A q \in Procs : pending'[q] = None
      BY <1>1, <1>t, <3>1
    <3>3. answer' = [to |-> host.req, echo |-> echo, ok |-> ok]
      BY <1>1, <2>2, <3>1
    <3>4. ok => echo = host.req /\ Quiet(host.to)'
      BY <2>2, <3>1
    <3> QED
      BY <3>1, <3>2, <3>3, <3>4 DEF AnswerInFlight, At
  <2> QED BY <2>1, <2>2
<1> QED BY <1>2, <1>3

\* A step that touches no connection, of a main thread that does not wait.
LEMMA OffTheWire ==
  ASSUME Matching, UNCHANGED <<pending, answer, inbox, outbox>>,
         UNCHANGED host \/ (host.pc # "wait" /\ host'.pc # "wait")
  PROVE  /\ OneInFlight' /\ AnswerInFlight'
         /\ \A p : Quiet(p)' = Quiet(p)
<1>1. \A p : Quiet(p)' = Quiet(p)
  BY DEF Quiet
<1>2. OneInFlight'
  BY DEF Matching, OneInFlight, InFlight, At
<1>3. AnswerInFlight'
  BY <1>1 DEF Matching, AnswerInFlight, At
<1> QED BY <1>1, <1>2, <1>3

\* A step after which no call can succeed differently than before.
LEMMA NoSuccess ==
  ASSUME Matching, result' = result \/ ~result'.ok
  PROVE  AnswerBelongsToCall'
  BY DEF Matching, AnswerBelongsToCall

LEMMA NextMatching == Matching /\ [Next]_vars => Matching'
<1> SUFFICES ASSUME Matching, [Next]_vars PROVE Matching'
  OBVIOUS
<1>0. Routing' /\ Numbered'
  BY NextRouting, NextNumbered DEF Matching, Routing, Ownership
<1>t. /\ Routing /\ Ownership /\ TypeOK
      /\ "pc" \in DOMAIN host /\ \A x : [host EXCEPT !.pc = x].pc = x
      /\ host.to \in Procs \cup {None} /\ conn \in Procs \cup {None}
      /\ host.req \in Requests \cup {None}
  BY DEF Matching, Routing, Ownership, TypeOK, HostTypes
<1>p. /\ pending \in [Procs -> Requests \cup {None}]
      /\ inbox \in [Procs -> Seq(Requests \cup {None})]
      /\ outbox \in [Procs -> Seq(Frames)]
      /\ reader \in [Procs -> {"none", "running", "exited"}]
      /\ proc \in [Procs -> {"unborn", "starting", "bound", "serving", "dead"}]
  BY <1>t DEF TypeOK, ConnectionTypes, ProcessTypes
<1>f. Fail => host' = [host EXCEPT !.pc = "idle"] /\ ~result'.ok
  BY DEF Fail, Return, Goto
<1> USE DEF At, Goto, procVars, netVars
<1>1. ASSUME BeginCall PROVE Matching'
  <2>1. host'.pc \in {"idle", "lookup"} /\ (result' = result \/ ~result'.ok)
    BY <1>1, <1>t DEF BeginCall, TypeOK, HostTypes
  <2>2. OneInFlight' /\ AnswerInFlight' /\ \A p : Quiet(p)' = Quiet(p)
    BY <1>1, <2>1, OffTheWire DEF BeginCall
  <2>3. QuietBetweenCalls'
    BY <1>1, <2>1, <2>2 DEF BeginCall, Matching, QuietBetweenCalls
  <2> QED
    BY <1>0, <2>1, <2>2, <2>3, NoSuccess DEF Matching
<1>2. ASSUME BeginReload \/ Lookup PROVE Matching'
  <2>1. host.pc \in {"idle", "lookup"} /\ host'.pc \in {"unroute", "spawn", "send"}
    BY <1>2, <1>t DEF BeginReload, Lookup, TypeOK, HostTypes
  <2>2. OneInFlight' /\ AnswerInFlight' /\ \A p : Quiet(p)' = Quiet(p)
    BY <1>2, <2>1, OffTheWire DEF BeginReload, Lookup
  <2>3. QuietBetweenCalls'
    BY <1>2, <2>1, <2>2 DEF BeginReload, Lookup, Matching, QuietBetweenCalls
  <2> QED
    BY <1>0, <1>2, <2>2, <2>3, NoSuccess DEF Matching, BeginReload, Lookup
<1>3. ASSUME WriteRequest PROVE Matching'
  <2> DEFINE p == host.to
  <2>1. p \in Procs /\ p = conn /\ Quiet(p) /\ host.pc = "send"
    BY <1>3, <1>t DEF WriteRequest, Matching, Routing, CallsThroughMap,
       QuietBetweenCalls
  <2>2. /\ pending' = [pending EXCEPT ![p] = host.req]
        /\ inbox' = [inbox EXCEPT ![p] = Append(@, host.req)]
        /\ answer' = NoAnswer /\ outbox' = outbox
        /\ host' = [host EXCEPT !.pc = "wait"]
        /\ UNCHANGED <<proc, conn, child, result>>
    BY <1>3 DEF WriteRequest
  <2>3. inbox'[p] = <<host.req>>
    BY <2>1, <2>2, <1>p, <1>t, EmptySeq, AppendProperties DEF Quiet
  <2>4. \A q \in Procs : q # p => inbox'[q] = inbox[q] /\ pending'[q] = None
    BY <2>2, <1>p DEF Matching, OneInFlight, WriteRequest
  <2>5. OneInFlight'
    <3> SUFFICES ASSUME NEW q \in Procs, pending'[q] # None
                 PROVE  /\ At("wait")' /\ q = host.to' /\ pending'[q] = host.req'
                        /\ InFlight(q, host.req)'
      BY DEF OneInFlight
    <3>1. q = p
      BY <2>4
    <3>2. InFlight(p, host.req)'
      BY <2>1, <2>2, <2>3, <1>t DEF InFlight, Quiet, TypeOK, HostTypes
    <3> QED
      BY <1>t, <1>p, <2>1, <2>2, <3>1, <3>2 DEF TypeOK, HostTypes
  <2>6. AnswerInFlight'
    BY <2>2 DEF AnswerInFlight, NoAnswer
  <2>7. QuietBetweenCalls'
    <3>1. proc[p] = "serving" /\ host'.pc = "wait"
      BY <1>3, <1>t, <2>2 DEF WriteRequest
    <3> QED
      BY <2>2, <2>4, <3>1 DEF Matching, QuietBetweenCalls, Quiet
  <2> QED
    BY <1>0, <2>2, <2>5, <2>6, <2>7, NoSuccess DEF Matching
<1>4. ASSUME WriteFails \/ RpcTimeout PROVE Matching'
  <2>1. /\ pending' = [pending EXCEPT ![host.to] = None]
        /\ host' = [host EXCEPT !.pc = "unroute"]
        /\ UNCHANGED <<answer, inbox, outbox, proc, conn, child, result>>
    BY <1>4 DEF WriteFails, RpcTimeout
  <2>2. \A q \in Procs : pending'[q] = None
    BY <2>1, <1>p DEF Matching, OneInFlight
  <2>3. answer'.to = None
    BY <1>4, <2>1 DEF WriteFails, RpcTimeout, Matching, AnswerInFlight
  <2>4. OneInFlight' /\ AnswerInFlight'
    BY <2>2, <2>3 DEF OneInFlight, AnswerInFlight
  <2>5. QuietBetweenCalls'
    BY <2>1, <1>t DEF Matching, QuietBetweenCalls, Quiet
  <2> QED
    BY <1>0, <2>1, <2>4, <2>5, NoSuccess DEF Matching
<1>5. ASSUME ReceiveAnswer PROVE Matching'
  <2>1. /\ answer' = NoAnswer /\ answer.to = host.req /\ host.pc = "wait"
        /\ UNCHANGED <<pending, inbox, outbox, proc, conn, child>>
    BY <1>5 DEF ReceiveAnswer
  <2>2. host.to = conn /\ conn # None
    BY <2>1, <1>t DEF Routing, CallsThroughMap
  <2>3. host.req # None
    BY <2>1 DEF Matching, Numbered
  <2>4. OneInFlight' /\ AnswerInFlight'
    BY <2>1, <2>3 DEF Matching, OneInFlight, AnswerInFlight, NoAnswer
  <2>5. CASE answer.ok
    <3>1. /\ host' = [host EXCEPT !.pc = "idle"]
          /\ result' = [req |-> host.req, ok |-> TRUE, echo |-> answer.echo,
                        from |-> host.to]
      BY <1>5, <2>5 DEF ReceiveAnswer, Return
    <3>2. answer.echo = host.req /\ Quiet(conn)
      BY <2>1, <2>2, <2>3, <2>5 DEF Matching, AnswerInFlight
    <3>3. AnswerBelongsToCall'
      BY <3>1, <3>2 DEF AnswerBelongsToCall
    <3>4. QuietBetweenCalls'
      BY <2>1, <3>1, <3>2, <1>t DEF Matching, QuietBetweenCalls, Quiet
    <3> QED
      BY <1>0, <2>4, <3>3, <3>4 DEF Matching
  <2>6. CASE ~answer.ok
    <3>1. host' = [host EXCEPT !.pc = "unroute"] /\ result' = result
      BY <1>5, <2>6 DEF ReceiveAnswer
    <3>2. QuietBetweenCalls'
      BY <2>1, <3>1, <1>t DEF Matching, QuietBetweenCalls, Quiet
    <3> QED
      BY <1>0, <2>4, <3>1, <3>2, NoSuccess DEF Matching
  <2> QED BY <2>5, <2>6
<1>6. ASSUME Unroute PROVE Matching'
  <2>1. /\ conn' = None /\ host.pc = "unroute"
        /\ host'.pc \in {"idle", "spawn", "kill"}
        /\ result' = result \/ ~result'.ok
        /\ UNCHANGED <<pending, answer, inbox, outbox, proc, child>>
    BY <1>6, <1>t, <1>f DEF Unroute
  <2>2. OneInFlight' /\ AnswerInFlight' /\ \A p : Quiet(p)' = Quiet(p)
    BY <2>1, OffTheWire
  <2>3. QuietBetweenCalls'
    BY <2>1, <2>2 DEF Matching, QuietBetweenCalls
  <2> QED
    BY <1>0, <2>1, <2>2, <2>3, NoSuccess DEF Matching
<1>7. ASSUME SpawnRefused \/ HandshakeFails PROVE Matching'
  <2>1. /\ host.pc \in {"spawn", "poll"} /\ host'.pc = "idle" /\ ~result'.ok
        /\ UNCHANGED <<pending, answer, inbox, outbox, proc, child, conn>>
    BY <1>7, <1>t, <1>f DEF SpawnRefused, HandshakeFails
  <2>2. conn = None
    BY <2>1, <1>t DEF Ownership, UnroutedWhileReplacing
  <2>3. OneInFlight' /\ AnswerInFlight' /\ \A p : Quiet(p)' = Quiet(p)
    BY <2>1, OffTheWire
  <2>4. QuietBetweenCalls'
    BY <2>1, <2>2, <2>3 DEF Matching, QuietBetweenCalls
  <2> QED
    BY <1>0, <2>1, <2>3, <2>4, NoSuccess DEF Matching
<1>8. ASSUME Spawn \/ SpawnFails \/ PollGivesUp \/ ReloadKills PROVE Matching'
  <2>1. /\ host.pc \in {"spawn", "poll", "kill"} /\ host'.pc \in {"poll", "idle"}
        /\ result' = result \/ ~result'.ok
        /\ UNCHANGED <<pending, answer, inbox, outbox, conn>>
    BY <1>8, <1>t, <1>f DEF Spawn, SpawnFails, PollGivesUp, ReloadKills
  <2>2. conn = None
    BY <2>1, <1>t DEF Ownership, UnroutedWhileReplacing
  <2>3. OneInFlight' /\ AnswerInFlight' /\ \A p : Quiet(p)' = Quiet(p)
    BY <2>1, OffTheWire
  <2>4. \A p \in Procs : proc'[p] \in {"unborn", "starting", "bound"}
                           => proc[p] \in {"unborn", "starting", "bound"}
    BY <1>8, <1>p DEF Spawn, SpawnFails, PollGivesUp, ReloadKills, Killed
  <2>5. QuietBetweenCalls'
    BY <2>1, <2>2, <2>3, <2>4 DEF Matching, QuietBetweenCalls
  <2> QED
    BY <1>0, <2>1, <2>3, <2>5, NoSuccess DEF Matching
<1>9. ASSUME Handshake PROVE Matching'
  <2>1. /\ host.pc = "poll" /\ host'.pc = "attach"
        /\ proc' = [proc EXCEPT ![socket] = "serving"]
        /\ socket \in Procs /\ proc[socket] = "bound"
        /\ UNCHANGED <<pending, answer, inbox, outbox, conn, child, result>>
    BY <1>9, <1>t DEF Handshake, TypeOK, ProcessTypes
  <2>2. socket = child /\ Quiet(child) /\ conn = None
    BY <2>1, <1>t DEF Matching, Ownership, UnroutedWhileReplacing,
       NoStrayProcess, Alive, QuietBetweenCalls
  <2>3. OneInFlight' /\ AnswerInFlight' /\ \A p : Quiet(p)' = Quiet(p)
    BY <2>1, OffTheWire
  <2>4. \A p \in Procs : proc'[p] \in {"unborn", "starting", "bound"}
                           => proc[p] \in {"unborn", "starting", "bound"}
    BY <2>1, <1>p
  <2>5. QuietBetweenCalls'
    BY <2>1, <2>2, <2>3, <2>4 DEF Matching, QuietBetweenCalls
  <2> QED
    BY <1>0, <2>1, <2>3, <2>5, NoSuccess DEF Matching
<1>10. ASSUME Attach PROVE Matching'
  <2>1. /\ host.pc = "attach" /\ host'.pc = "send" /\ conn' = child
        /\ UNCHANGED <<pending, answer, inbox, outbox, proc, child, result>>
    BY <1>10, <1>t DEF Attach, TypeOK, HostTypes
  <2>2. OneInFlight' /\ AnswerInFlight' /\ \A p : Quiet(p)' = Quiet(p)
    BY <2>1, OffTheWire
  <2>3. QuietBetweenCalls'
    BY <2>1, <2>2 DEF Matching, QuietBetweenCalls
  <2> QED
    BY <1>0, <2>1, <2>2, <2>3, NoSuccess DEF Matching
<1>11. ASSUME NEW p \in Procs, ReadFrame(p) PROVE Matching'
  <2> DEFINE frame == Head(outbox[p])
  <2>1. /\ outbox[p] \in Seq(Frames) /\ outbox[p] # <<>>
        /\ outbox' = [outbox EXCEPT ![p] = Tail(outbox[p])]
        /\ UNCHANGED <<host, inbox, proc, conn, child, result>>
    BY <1>11, <1>p DEF ReadFrame
  <2>2. frame \in Frames /\ outbox'[p] = Tail(outbox[p])
    BY <2>1, <1>p, HeadTailProperties
  <2>3. \A q \in Procs : q # p => outbox'[q] = outbox[q]
    BY <2>1, <1>p
  <2>4. ASSUME NEW q \in Procs, Quiet(q) PROVE Quiet(q)'
    <3>1. CASE q # p
      BY <2>1, <2>3, <2>4, <3>1 DEF Quiet
    <3>2. CASE q = p
      <4>1. frame.kind # "response"
        <5>1. Len(outbox[p]) \in Nat \ {0} /\ frame = outbox[p][1]
          BY <2>1, HeadTailProperties, EmptySeq
        <5> QED
          BY <2>4, <3>2, <5>1 DEF Quiet, NoAnswerIn
      <4>2. NoAnswerIn(Tail(outbox[p]))
        BY <2>1, <2>4, <3>2, <4>1, EventTaken DEF Quiet
      <4> QED
        BY <2>1, <2>2, <2>4, <3>2, <4>2 DEF Quiet
    <3> QED BY <3>1, <3>2
  <2>5. OneInFlight' /\ AnswerInFlight'
    <3>1. CASE frame.kind = "response"
      <4>1. ASSUME pending[p] # None
            PROVE  frame.req = host.req /\ Quiet(p)'
        <5>1. InFlight(p, host.req)
          BY <4>1 DEF Matching, OneInFlight
        <5>2. ~NoAnswerIn(outbox[p])
          <6>1. Len(outbox[p]) \in Nat \ {0} /\ frame = outbox[p][1]
            BY <2>1, HeadTailProperties, EmptySeq
          <6> QED
            BY <3>1, <6>1 DEF NoAnswerIn
        <5>3. inbox[p] = <<>> /\ OneAnswerIn(outbox[p], host.req)
          BY <5>1, <5>2 DEF InFlight
        <5> QED
          BY <2>1, <2>2, <3>1, <5>3, AnswerTaken DEF Quiet
      <4>2. Resolve(p, frame.req, frame.ok) /\ frame.ok \in BOOLEAN
        BY <1>11, <2>2, <3>1 DEF ReadFrame, Frames
      <4> QED
        BY <2>1, <2>3, <2>4, <4>1, <4>2, ResolveMatches
    <3>2. CASE frame.kind # "response"
      <4>1. UNCHANGED <<pending, answer>>
        BY <1>11, <3>2 DEF ReadFrame
      <4>2. ASSUME NEW q \in Procs, InFlight(q, host.req)
            PROVE  InFlight(q, host.req)'
        <5>1. CASE q # p
          BY <2>1, <2>3, <4>2, <5>1 DEF InFlight
        <5>2. CASE q = p
          <6>1. /\ NoAnswerIn(outbox[p]) => NoAnswerIn(Tail(outbox[p]))
                /\ OneAnswerIn(outbox[p], host.req)
                     => OneAnswerIn(Tail(outbox[p]), host.req)
            BY <2>1, <3>2, EventTaken
          <6> QED
            BY <2>1, <2>2, <4>2, <5>2, <6>1 DEF InFlight
        <5> QED BY <5>1, <5>2
      <4> QED
        BY <2>1, <2>4, <4>1, <4>2, <1>t DEF Matching, OneInFlight,
           AnswerInFlight, Routing, CallsThroughMap
    <3> QED BY <3>1, <3>2
  <2>6. QuietBetweenCalls'
    BY <2>1, <2>4, <1>t DEF Matching, QuietBetweenCalls, Routing,
       CallsThroughMap, Ownership, TypeOK, ProcessTypes
  <2> QED
    BY <1>0, <2>1, <2>5, <2>6, NoSuccess DEF Matching
<1>12. ASSUME NEW p \in Procs, ReaderEof(p) \/ ReaderIdleTimeout(p)
       PROVE  Matching'
  <2>1. /\ Resolve(p, None, FALSE)
        /\ UNCHANGED <<host, inbox, outbox, proc, conn, child, result>>
    BY <1>12 DEF ReaderEof, ReaderIdleTimeout
  <2>2. \A q : Quiet(q)' = Quiet(q)
    BY <2>1 DEF Quiet
  <2>3. OneInFlight' /\ AnswerInFlight'
    BY <2>1, <2>2, ResolveMatches
  <2>4. QuietBetweenCalls'
    BY <2>1, <2>2 DEF Matching, QuietBetweenCalls
  <2> QED
    BY <1>0, <2>1, <2>3, <2>4, NoSuccess DEF Matching
<1>13. ASSUME NEW p \in Procs, Serve(p) PROVE Matching'
  <2>1. PICK ok \in BOOLEAN :
           outbox' = [outbox EXCEPT ![p] = Append(@, Reply(Head(inbox[p]), ok))]
    BY <1>13 DEF Serve
  <2>2. /\ proc[p] = "serving" /\ inbox[p] # <<>>
        /\ inbox' = [inbox EXCEPT ![p] = Tail(inbox[p])]
        /\ UNCHANGED <<host, pending, answer, proc, conn, child, result>>
    BY <1>13 DEF Serve
  <2>3. \A q \in Procs : q # p => inbox'[q] = inbox[q] /\ outbox'[q] = outbox[q]
    BY <2>1, <2>2, <1>p
  <2>4. \A q \in Procs : Quiet(q) => Quiet(q)'
    BY <2>2, <2>3 DEF Quiet
  <2>5. ASSUME NEW q \in Procs, InFlight(q, host.req)
        PROVE  InFlight(q, host.req)'
    <3>1. CASE q # p
      BY <2>2, <2>3, <2>5, <3>1 DEF InFlight
    <3>2. CASE q = p
      <4>1. inbox[p] = <<host.req>> /\ NoAnswerIn(outbox[p])
        BY <2>2, <2>5, <3>2 DEF InFlight
      <4>2. Head(inbox[p]) = host.req /\ Tail(inbox[p]) = <<>>
        BY <4>1, <1>t
      <4>3. OneAnswerIn(Append(outbox[p], Reply(host.req, ok)), host.req)
        BY <1>p, <1>t, <4>1, FrameWritten
      <4>4. inbox'[p] = <<>>
            /\ outbox'[p] = Append(outbox[p], Reply(host.req, ok))
        BY <1>p, <2>1, <2>2, <4>2
      <4> QED
        BY <2>2, <3>2, <4>3, <4>4 DEF InFlight
    <3> QED BY <3>1, <3>2
  <2>6. OneInFlight' /\ AnswerInFlight'
    BY <2>2, <2>4, <2>5, <1>t DEF Matching, OneInFlight, AnswerInFlight,
       Routing, CallsThroughMap
  <2>7. QuietBetweenCalls'
    BY <2>2, <2>4, <1>t DEF Matching, QuietBetweenCalls, Routing,
       CallsThroughMap, Ownership, TypeOK, ProcessTypes
  <2> QED
    BY <1>0, <2>2, <2>6, <2>7, NoSuccess DEF Matching
<1>14. ASSUME NEW p \in Procs, EmitEvent(p) PROVE Matching'
  <2>1. /\ outbox' = [outbox EXCEPT ![p] = Append(@, Event)]
        /\ UNCHANGED <<host, inbox, pending, answer, proc, conn, child, result>>
    BY <1>14 DEF EmitEvent
  <2>2. /\ \A q \in Procs : q # p => outbox'[q] = outbox[q]
        /\ outbox'[p] = Append(outbox[p], Event)
    BY <2>1, <1>p
  <2>3. /\ NoAnswerIn(outbox[p]) => NoAnswerIn(Append(outbox[p], Event))
        /\ OneAnswerIn(outbox[p], host.req)
             => OneAnswerIn(Append(outbox[p], Event), host.req)
    BY <1>p, <1>t, FrameWritten
  <2>4. \A q \in Procs : /\ Quiet(q) => Quiet(q)'
                         /\ InFlight(q, host.req) => InFlight(q, host.req)'
    BY <2>1, <2>2, <2>3 DEF Quiet, InFlight
  <2>5. OneInFlight' /\ AnswerInFlight'
    BY <2>1, <2>4, <1>t DEF Matching, OneInFlight, AnswerInFlight,
       Routing, CallsThroughMap
  <2>6. QuietBetweenCalls'
    BY <2>1, <2>4, <1>t DEF Matching, QuietBetweenCalls, Routing,
       CallsThroughMap, Ownership, TypeOK, ProcessTypes
  <2> QED
    BY <1>0, <2>1, <2>5, <2>6, NoSuccess DEF Matching
<1>15. ASSUME \/ \E p \in Procs : Bind(p) \/ Exit(p)
              \/ Install \/ BackoffExpires \/ StatusFailures \/ StatusStep
              \/ UNCHANGED vars
       PROVE  Matching'
  <2>1. UNCHANGED <<host, pending, answer, inbox, outbox, conn, child, result>>
    BY <1>15 DEF Bind, Exit, Install, BackoffExpires, StatusFailures,
       StatusStep, StatusConnections, StatusChildren, vars
  <2>2. OneInFlight' /\ AnswerInFlight' /\ \A p : Quiet(p)' = Quiet(p)
    BY <2>1, OffTheWire
  <2>3. \A p \in Procs : proc'[p] \in {"unborn", "starting", "bound"}
                           => proc[p] \in {"unborn", "starting", "bound"}
    BY <1>15, <1>p DEF Bind, Exit, Install, BackoffExpires, StatusFailures,
       StatusStep, StatusConnections, StatusChildren, vars
  <2>4. QuietBetweenCalls'
    BY <2>1, <2>2, <2>3 DEF Matching, QuietBetweenCalls
  <2> QED
    BY <1>0, <2>1, <2>2, <2>4, NoSuccess DEF Matching
<1> QED
  BY <1>1, <1>2, <1>3, <1>4, <1>5, <1>6, <1>7, <1>8, <1>9, <1>10, <1>11,
     <1>12, <1>13, <1>14, <1>15 DEF Next, HostStep, ReaderStep

\* No call returns the answer to another call, although requests time out,
\* their answers arrive late, processes die and connections are replaced.
THEOREM AnswersMatch == Spec => []AnswerBelongsToCall
<1>1. Spec => []Matching
  BY InitMatching, NextMatching, PTL DEF Spec
<1>2. Matching => AnswerBelongsToCall
  BY DEF Matching
<1> QED
  BY <1>1, <1>2, PTL

=============================================================================
