--------------------------- MODULE EventHub_proofs ---------------------------
(***************************************************************************)
(* Theorems about EventHub, for any set of instances, any queue length and *)
(* any number of events: type correctness, the bound on the queues, the    *)
(* order of events, and that no wake-up is lost.                           *)
(***************************************************************************)
EXTENDS EventHub, SequenceTheorems, TLAPS

LEMMA PushCappedProperties ==
  ASSUME NEW q \in Seq(Nat), NEW e \in Nat
  PROVE  /\ PushCapped(q, e) \in Seq(Nat)
         /\ PushCapped(q, e) # <<>>
         /\ Len(PushCapped(q, e)) <= MaxQueueLen
         /\ PushCapped(q, e)[Len(PushCapped(q, e))] = e
<1> DEFINE n == Len(q)
           m == n - MaxQueueLen + 2
           kept == IF n >= MaxQueueLen THEN SubSeq(q, m, n) ELSE q
<1>1. n \in Nat /\ q \in [1 .. n -> Nat]
  BY LenProperties
<1>2. kept \in Seq(Nat) /\ Len(kept) < MaxQueueLen
  <2>1. CASE n >= MaxQueueLen
    <3>1. m \in Int /\ n \in Int /\ m >= 2
      BY <1>1, <2>1, HubAssumption
    <3>2. \A k \in m .. n : q[k] \in Nat
      BY <1>1, <3>1
    <3>3. /\ SubSeq(q, m, n) \in Seq(Nat)
          /\ Len(SubSeq(q, m, n)) = IF m <= n THEN n - m + 1 ELSE 0
      BY <3>1, <3>2, SubSeqProperties
    <3> QED BY <1>1, <2>1, <3>3, HubAssumption
  <2>2. CASE ~(n >= MaxQueueLen)
    BY <1>1, <2>2, HubAssumption
  <2> QED BY <2>1, <2>2
<1>3. PushCapped(q, e) = Append(kept, e)
  BY DEF PushCapped
<1>4. /\ Append(kept, e) \in Seq(Nat)
      /\ Append(kept, e) # <<>>
      /\ Len(Append(kept, e)) = Len(kept) + 1
      /\ Append(kept, e)[Len(kept) + 1] = e
  BY <1>2, AppendProperties, ZenonT(30)
<1>5. Len(kept) \in Nat
  BY <1>2, LenProperties
<1> QED BY <1>2, <1>3, <1>4, <1>5, HubAssumption

-----------------------------------------------------------------------------
(* Type correctness. *)

LEMMA InitType == Init => TypeOK
<1> SUFFICES ASSUME Init PROVE TypeOK
  OBVIOUS
<1>1. HubTypes
  BY EmptySeq DEF Init, HubTypes
<1>2. LoopTypes
  BY EmptySeq DEF Init, LoopTypes, At
<1> QED BY <1>1, <1>2 DEF TypeOK

LEMMA HubFrame ==
  ASSUME HubTypes,
         UNCHANGED <<bus, pump, interests, queues, published, owed, taken>>
  PROVE  HubTypes'
  BY DEF HubTypes

LEMMA LoopFrame ==
  ASSUME LoopTypes, UNCHANGED <<wakes, loaded, due, retry, host, traps>>
  PROVE  LoopTypes'
  BY DEF LoopTypes, At

LEMMA NextType == TypeOK /\ [Next]_vars => TypeOK'
<1> SUFFICES ASSUME HubTypes, LoopTypes, [Next]_vars PROVE TypeOK'
  BY DEF TypeOK
<1> USE DEF hubVars, loopVars
<1>1. ASSUME Publish PROVE TypeOK'
  <2>1. HubTypes'
    <3>1. published + 1 \in Nat
      BY DEF HubTypes
    <3>2. Append(bus, published + 1) \in Seq(Nat)
      BY <3>1, AppendProperties DEF HubTypes
    <3> QED BY <1>1, <3>1, <3>2 DEF Publish, HubTypes
  <2> QED
    BY <1>1, <2>1, LoopFrame DEF Publish, TypeOK
<1>2. ASSUME PumpReceive PROVE TypeOK'
  <2>1. HubTypes'
    <3>1. Tail(bus) \in Seq(Nat) /\ Head(bus) \in Nat
      BY <1>2, HeadTailProperties DEF PumpReceive, HubTypes
    <3> QED BY <1>2, <3>1 DEF PumpReceive, HubTypes
  <2> QED
    BY <1>2, <2>1, LoopFrame DEF PumpReceive, TypeOK
<1>3. ASSUME PumpPush PROVE TypeOK'
  <2>1. HubTypes'
    <3>1. \A i \in Instances : PushCapped(queues[i], pump.event) \in Seq(Nat)
      BY PushCappedProperties DEF HubTypes
    <3>2. queues' \in [Instances -> Seq(Nat)]
      BY <1>3, <3>1 DEF PumpPush, HubTypes
    <3> QED BY <1>3, <3>2 DEF PumpPush, HubTypes
  <2> QED
    BY <1>3, <2>1, LoopFrame DEF PumpPush, TypeOK
<1>4. ASSUME PumpWake PROVE TypeOK'
  <2>1. HubTypes'
    BY <1>4 DEF PumpWake, HubTypes
  <2>2. LoopTypes'
    <3>1. Append(wakes, pump.to) \in Seq(SUBSET Instances)
      BY AppendProperties DEF HubTypes, LoopTypes
    <3> QED BY <1>4, <3>1 DEF PumpWake, LoopTypes, At
  <2> QED
    BY <1>4, <2>1, <2>2 DEF PumpWake, TypeOK
<1>5. ASSUME NEW i \in Instances, BeginUpdate(i) PROVE TypeOK'
  <2>1. LoopTypes'
    BY <1>5, HubAssumption DEF BeginUpdate, LoopTypes, At
  <2> QED
    BY <1>5, <2>1, HubFrame DEF BeginUpdate, TypeOK
<1>6. ASSUME TakeEvent PROVE TypeOK'
  <2>1. HubTypes'
    <3>1. host.cur \in Instances
      BY <1>6 DEF TakeEvent, LoopTypes, At
    <3>2. Head(queues[host.cur]) \in Nat /\ Tail(queues[host.cur]) \in Seq(Nat)
      BY <1>6, <3>1, HeadTailProperties DEF TakeEvent, HubTypes
    <3> QED BY <1>6, <3>1, <3>2 DEF TakeEvent, HubTypes
  <2> QED
    BY <1>6, <2>1, LoopFrame DEF TakeEvent, TypeOK
<1>7. ASSUME UpdateReturns PROVE TypeOK'
  <2>1. LoopTypes'
    BY <1>7, HubAssumption DEF UpdateReturns, LoopTypes, At
  <2> QED
    BY <1>7, <2>1, HubFrame DEF UpdateReturns, TypeOK
<1>8. ASSUME UpdateTraps PROVE TypeOK'
  <2>1. HubTypes'
    <3>1. host.cur \in Instances
      BY <1>8 DEF UpdateTraps, LoopTypes, At
    <3> QED BY <1>8, <3>1 DEF UpdateTraps, HubTypes
  <2>2. LoopTypes'
    <3>1. host.cur \in due
      BY <1>8 DEF UpdateTraps, LoopTypes, At
    <3>2. /\ loaded' \subseteq Instances /\ due' \subseteq loaded'
          /\ retry' \subseteq loaded' \ due'
      BY <1>8, <3>1 DEF UpdateTraps, LoopTypes
    <3>3. traps' \in Nat /\ wakes' \in Seq(SUBSET Instances)
      BY <1>8 DEF UpdateTraps, LoopTypes
    <3> QED
      BY <1>8, <3>2, <3>3, HubAssumption DEF UpdateTraps, LoopTypes, At
  <2> QED
    BY <1>8, <2>1, <2>2 DEF UpdateTraps, TypeOK
<1>9. ASSUME AllTicked PROVE TypeOK'
  <2>1. LoopTypes'
    BY <1>9 DEF AllTicked, LoopTypes, At, Goto
  <2> QED
    BY <1>9, <2>1, HubFrame DEF AllTicked, TypeOK
<1>10. ASSUME WakeUp PROVE TypeOK'
  <2>1. LoopTypes'
    BY <1>10, EmptySeq DEF WakeUp, LoopTypes, At, Goto
  <2> QED
    BY <1>10, <2>1, HubFrame DEF WakeUp, TypeOK
<1>11. ASSUME NEW S \in SUBSET Instances, TimesUp(S) PROVE TypeOK'
  <2>1. LoopTypes'
    BY <1>11 DEF TimesUp, LoopTypes, At, Goto
  <2> QED
    BY <1>11, <2>1, HubFrame DEF TimesUp, TypeOK
<1>12. ASSUME Block \/ SliceOver PROVE TypeOK'
  <2>1. LoopTypes'
    BY <1>12 DEF Block, SliceOver, LoopTypes, At, Goto
  <2> QED
    BY <1>12, <2>1, HubFrame DEF Block, SliceOver, TypeOK
<1>13. ASSUME NEW keep \in SUBSET Instances,
              NEW starting \in SUBSET Instances, NEW wasm \in BOOLEAN,
              ~At("update"), Rebuild(keep, starting, wasm)
       PROVE  TypeOK'
  <2>1. LoopTypes'
    BY <1>13 DEF Rebuild, LoopTypes, At
  <2> QED
    BY <1>13, <2>1, HubFrame DEF Rebuild, TypeOK
<1>14. ASSUME EnterIdle PROVE TypeOK'
  <2>1. LoopTypes'
    BY <1>14 DEF EnterIdle, LoopTypes, At
  <2> QED
    BY <1>14, <2>1, HubFrame DEF EnterIdle, TypeOK
<1>15. ASSUME NEW i \in Instances, StartInstance(i) PROVE TypeOK'
  <2>1. HubTypes'
    BY <1>15 DEF StartInstance, HubTypes
  <2>2. LoopTypes'
    BY <1>15 DEF StartInstance, LoopTypes, At
  <2> QED
    BY <1>15, <2>1, <2>2 DEF StartInstance, TypeOK
<1>16. ASSUME ModulesStarted PROVE TypeOK'
  <2>1. LoopTypes'
    BY <1>16 DEF ModulesStarted, LoopTypes, At
  <2> QED
    BY <1>16, <2>1, HubFrame DEF ModulesStarted, TypeOK
<1>17. ASSUME Reloaded PROVE TypeOK'
  <2>1. LoopTypes'
    BY <1>17 DEF Reloaded, LoopTypes, At, Goto
  <2> QED
    BY <1>17, <2>1, HubFrame DEF Reloaded, TypeOK
<1>18. ASSUME ForgetInterests PROVE TypeOK'
  <2>1. HubTypes'
    BY <1>18 DEF ForgetInterests, HubTypes
  <2>2. LoopTypes'
    BY <1>18 DEF ForgetInterests, LoopTypes, At, Goto
  <2> QED
    BY <1>18, <2>1, <2>2 DEF ForgetInterests, TypeOK
<1>19. ASSUME ForgetQueues PROVE TypeOK'
  <2>1. HubTypes'
    <3>1. <<>> \in Seq(Nat)
      BY EmptySeq
    <3> QED BY <1>19, <3>1 DEF ForgetQueues, HubTypes
  <2>2. LoopTypes'
    BY <1>19 DEF ForgetQueues, LoopTypes, At, Goto
  <2> QED
    BY <1>19, <2>1, <2>2 DEF ForgetQueues, TypeOK
<1>20. CASE UNCHANGED vars
  BY <1>20, HubFrame, LoopFrame DEF vars, TypeOK
<1>21. ASSUME \E keep, starting \in SUBSET Instances :
                BeginReload(keep, starting) \/ ReloadWasm(keep, starting)
       PROVE  TypeOK'
  BY <1>13, <1>21 DEF BeginReload, ReloadWasm, At
<1>22. ASSUME \E starting \in SUBSET Instances : LeaveIdle(starting)
       PROVE  TypeOK'
  BY <1>13, <1>22 DEF LeaveIdle, At
<1> QED
  BY <1>1, <1>2, <1>3, <1>4, <1>5, <1>6, <1>7, <1>8, <1>9, <1>10, <1>11,
     <1>12, <1>14, <1>15, <1>16, <1>17, <1>18, <1>19, <1>20, <1>21, <1>22
     DEF Next, LoopStep, PumpStep

\* Every reachable state of the hub and the main loop is well typed.
THEOREM TypeCorrect == Spec => []TypeOK
<1>1. Init => TypeOK
  BY InitType
<1>2. TypeOK /\ [Next]_vars => TypeOK'
  BY NextType
<1> QED
  BY <1>1, <1>2, PTL DEF Spec

-----------------------------------------------------------------------------
(* The queues. Three actions touch one. *)

\* Taking the head leaves the last event last, or nothing.
LEMMA TailLast ==
  ASSUME NEW q \in Seq(Nat), q # <<>>
  PROVE  /\ Tail(q) \in Seq(Nat) /\ Len(Tail(q)) = Len(q) - 1
         /\ \A k \in 1 .. Len(q) - 1 : Tail(q)[k] = q[k + 1]
         /\ Tail(q) = <<>> => Head(q) = q[Len(q)]
         /\ Tail(q) # <<>> => Tail(q)[Len(Tail(q))] = q[Len(q)]
<1>1. /\ Tail(q) \in Seq(Nat) /\ Len(Tail(q)) = Len(q) - 1
      /\ \A k \in 1 .. Len(Tail(q)) : Tail(q)[k] = q[k + 1]
  BY HeadTailProperties
<1>2. Len(q) \in Nat \ {0}
  BY EmptySeq
<1>3. Head(q) = q[1]
  OBVIOUS
<1>4. ASSUME Tail(q) = <<>> PROVE Head(q) = q[Len(q)]
  <2>1. Len(Tail(q)) = 0
    BY <1>4, EmptySeq
  <2>2. Len(q) - 1 = 0
    BY <1>1, <2>1
  <2>3. Len(q) = 1
    BY <1>2, <2>2
  <2> QED BY <1>3, <2>3
<1>5. ASSUME Tail(q) # <<>> PROVE Tail(q)[Len(Tail(q))] = q[Len(q)]
  <2>1. Len(Tail(q)) \in Nat \ {0}
    BY <1>1, <1>5, EmptySeq
  <2>2. Len(q) - 1 \in 1 .. Len(Tail(q)) /\ (Len(q) - 1) + 1 = Len(q)
    BY <1>1, <1>2, <2>1
  <2>3. Tail(q)[Len(q) - 1] = q[(Len(q) - 1) + 1]
    BY <1>1, <2>2
  <2> QED BY <1>1, <2>2, <2>3
<1> QED BY <1>1, <1>4, <1>5

LEMMA QueuesAlone ==
  ASSUME [Next]_vars, ~PumpPush, ~TakeEvent, ~ForgetQueues
  PROVE  UNCHANGED <<queues, owed, taken>>
BY DEF Next, PumpStep, LoopStep, vars, hubVars, loopVars, Publish, PumpReceive,
   PumpWake, BeginUpdate, UpdateReturns, UpdateTraps, AllTicked, WakeUp,
   TimesUp, Block, SliceOver, Rebuild, BeginReload, ReloadWasm, LeaveIdle,
   EnterIdle, StartInstance, ModulesStarted, Reloaded, ForgetInterests

Queues == TypeOK /\ QueueBounded /\ NewestKept

LEMMA InitQueues == Init => Queues
<1> SUFFICES ASSUME Init PROVE QueueBounded /\ NewestKept
  BY InitType DEF Queues
<1>1. \A i \in Instances : queues[i] = <<>> /\ owed[i] = taken[i]
  BY DEF Init
<1>2. Len(<<>>) = 0 /\ 0 <= MaxQueueLen
  BY EmptySeq, HubAssumption
<1> QED BY <1>1, <1>2 DEF QueueBounded, NewestKept

LEMMA NextQueues == Queues /\ [Next]_vars => Queues'
<1> SUFFICES ASSUME TypeOK, QueueBounded, NewestKept, [Next]_vars, TypeOK',
                    NEW i \in Instances
             PROVE  /\ Len(queues[i]') <= MaxQueueLen
                    /\ IF queues[i]' = <<>>
                       THEN owed[i]' = taken[i]'
                       ELSE queues[i]'[Len(queues[i]')] = owed[i]'
  BY NextType DEF Queues, QueueBounded, NewestKept
<1>1. /\ queues[i] \in Seq(Nat) /\ Len(queues[i]) <= MaxQueueLen
      /\ IF queues[i] = <<>> THEN owed[i] = taken[i]
                             ELSE queues[i][Len(queues[i])] = owed[i]
  BY DEF TypeOK, HubTypes, QueueBounded, NewestKept
<1>2. CASE PumpPush
  <2>1. CASE i \in pump.to
    <3>1. pump.event \in Nat
      BY DEF TypeOK, HubTypes
    <3>2. queues[i]' = PushCapped(queues[i], pump.event) /\ owed[i]' = pump.event
      BY <1>2, <2>1 DEF PumpPush
    <3> QED BY <1>1, <3>1, <3>2, PushCappedProperties
  <2>2. CASE i \notin pump.to
    BY <1>1, <1>2, <2>2 DEF PumpPush
  <2> QED BY <2>1, <2>2
<1>3. CASE TakeEvent
  <2>1. CASE host.cur = i
    <3> DEFINE q == queues[i]
    <3>1. q # <<>> /\ queues[i]' = Tail(q) /\ taken[i]' = Head(q)
          /\ owed[i]' = owed[i]
      BY <1>3, <2>1 DEF TakeEvent, TypeOK, HubTypes
    <3>2. Len(q) \in Nat
      BY <1>1, LenProperties
    <3>3. /\ Len(Tail(q)) = Len(q) - 1
          /\ Tail(q) = <<>> => Head(q) = q[Len(q)]
          /\ Tail(q) # <<>> => Tail(q)[Len(Tail(q))] = q[Len(q)]
      BY <1>1, <3>1, TailLast
    <3>4. q[Len(q)] = owed[i] /\ Len(q) <= MaxQueueLen
      BY <1>1, <3>1
    <3>5. Len(queues[i]') <= MaxQueueLen
      <4>1. Len(q) - 1 <= MaxQueueLen
        BY <3>2, <3>4, HubAssumption
      <4> QED BY <3>1, <3>3, <4>1
    <3> QED BY <3>1, <3>3, <3>4, <3>5
  <2>2. CASE host.cur # i
    BY <1>1, <1>3, <2>2 DEF TakeEvent, TypeOK, HubTypes
  <2> QED BY <2>1, <2>2
<1>4. CASE ForgetQueues
  <2>1. CASE i \in loaded
    BY <1>1, <1>4, <2>1 DEF ForgetQueues
  <2>2. CASE i \notin loaded
    <3>1. queues[i]' = <<>> /\ owed[i]' = taken[i] /\ taken[i]' = taken[i]
      BY <1>4, <2>2 DEF ForgetQueues
    <3> QED BY <3>1, EmptySeq, HubAssumption
  <2> QED BY <2>1, <2>2
<1>5. CASE ~PumpPush /\ ~TakeEvent /\ ~ForgetQueues
  BY <1>1, <1>5, QueuesAlone
<1> QED BY <1>2, <1>3, <1>4, <1>5

\* The queue of an instance never holds more than MAX_QUEUE_LEN events, and
\* an overflow never costs the newest.
THEOREM QueuesSafe == Spec => [](QueueBounded /\ NewestKept)
<1>1. Spec => []Queues
  BY InitQueues, NextQueues, PTL DEF Spec
<1>2. Queues => QueueBounded /\ NewestKept
  BY DEF Queues
<1> QED BY <1>1, <1>2, PTL

-----------------------------------------------------------------------------
(* The order of events, from the bus through the pump into the queues. *)

Increasing(s) == \A k, l \in 1 .. Len(s) : k < l => s[k] < s[l]

\* Every element of s is above low and not above high.
Between(s, low, high) == \A k \in 1 .. Len(s) : low < s[k] /\ s[k] <= high

\* What waits on the bus is newer than what the pump has in hand,
Upcoming ==
    /\ Increasing(bus) /\ Between(bus, pump.event, published)
    /\ pump.event <= published

\* and what is queued or taken is older than what the pump has yet to push.
Latest == IF pump.pc = "push" THEN pump.event - 1 ELSE pump.event

Delivered ==
    \A i \in Instances :
      /\ Increasing(queues[i]) /\ Between(queues[i], taken[i], Latest)
      /\ taken[i] <= Latest

Ordered == TypeOK /\ Upcoming /\ Delivered

\* An overflow and the new event keep the order.
LEMMA PushCappedOrder ==
  ASSUME NEW q \in Seq(Nat), NEW e \in Nat, NEW low \in Nat,
         Increasing(q), Between(q, low, e - 1), low < e
  PROVE  Increasing(PushCapped(q, e)) /\ Between(PushCapped(q, e), low, e)
<1> DEFINE n == Len(q)
           m == n - MaxQueueLen + 2
           kept == IF n >= MaxQueueLen THEN SubSeq(q, m, n) ELSE q
<1>1. n \in Nat /\ q \in [1 .. n -> Nat]
  BY LenProperties
<1>2. /\ kept \in Seq(Nat)
      /\ Increasing(kept) /\ Between(kept, low, e - 1)
  <2>1. CASE n >= MaxQueueLen
    <3>1. m \in Int /\ n \in Int /\ m >= 2
      BY <1>1, <2>1, HubAssumption
    <3>2. \A k \in m .. n : q[k] \in Nat
      BY <1>1, <3>1
    <3>3. /\ SubSeq(q, m, n) \in Seq(Nat)
          /\ Len(SubSeq(q, m, n)) = IF m <= n THEN n - m + 1 ELSE 0
          /\ \A k \in 1 .. n - m + 1 : SubSeq(q, m, n)[k] = q[m + k - 1]
      <4> HIDE DEF m, n
      <4> QED BY <3>1, <3>2, SubSeqProperties
    <3>4. kept = SubSeq(q, m, n)
      BY <2>1
    <3>5. \A k \in 1 .. Len(kept) :
            /\ m + k - 1 \in 1 .. n
            /\ kept[k] = q[m + k - 1]
      <4> HIDE DEF m
      <4> QED BY <1>1, <3>1, <3>3, <3>4
    <3>6. \A k, l \in 1 .. Len(kept) : k < l => m + k - 1 < m + l - 1
      <4> HIDE DEF m, kept
      <4>1. Len(kept) \in Nat
        BY <3>3, <3>4, LenProperties
      <4> QED BY <3>1, <4>1
    <3>7. Increasing(kept)
      <4> HIDE DEF m, kept, n
      <4> QED BY <3>5, <3>6 DEF Increasing, n
    <3>8. Between(kept, low, e - 1)
      <4> HIDE DEF m, kept
      <4> QED BY <3>5 DEF Between
    <3> QED BY <3>3, <3>4, <3>7, <3>8
  <2>2. CASE ~(n >= MaxQueueLen)
    BY <2>2
  <2> QED BY <2>1, <2>2
<1> DEFINE r == Append(kept, e)
<1>3. PushCapped(q, e) = r
  BY DEF PushCapped
<1> HIDE DEF kept
<1>4. /\ Len(kept) \in Nat /\ Len(r) = Len(kept) + 1
      /\ \A k \in 1 .. Len(kept) : r[k] = kept[k] /\ kept[k] \in Nat
      /\ r[Len(kept) + 1] = e
  BY <1>2, AppendProperties, LenProperties
<1>5. \A k \in 1 .. Len(kept) : low < r[k] /\ r[k] <= e - 1 /\ r[k] \in Nat
  BY <1>2, <1>4 DEF Between
<1> HIDE DEF r
<1>6. Increasing(r)
  <2> SUFFICES ASSUME NEW k \in 1 .. Len(r), NEW l \in 1 .. Len(r), k < l
               PROVE  r[k] < r[l]
    BY DEF Increasing
  <2>1. k \in 1 .. Len(kept)
    BY <1>4
  <2>2. CASE l = Len(kept) + 1
    BY <1>4, <1>5, <2>1, <2>2
  <2>3. CASE l # Len(kept) + 1
    <3>1. l \in 1 .. Len(kept)
      BY <1>4, <2>3
    <3>2. kept[k] < kept[l]
      BY <1>2, <2>1, <3>1 DEF Increasing
    <3> QED BY <1>4, <2>1, <3>1, <3>2
  <2> QED BY <2>2, <2>3
<1>7. Between(r, low, e)
  <2> SUFFICES ASSUME NEW k \in 1 .. Len(r) PROVE low < r[k] /\ r[k] <= e
    BY DEF Between
  <2>1. k \in 1 .. Len(kept) \/ k = Len(kept) + 1
    BY <1>4
  <2> QED BY <1>4, <1>5, <2>1
<1> QED BY <1>3, <1>6, <1>7

\* The first of an increasing sequence comes off, and stays below the rest.
LEMMA TailOrder ==
  ASSUME NEW q \in Seq(Nat), q # <<>>, NEW low \in Nat, NEW high \in Int,
         Increasing(q), Between(q, low, high)
  PROVE  /\ Tail(q) \in Seq(Nat) /\ Head(q) \in Nat
         /\ Increasing(Tail(q)) /\ Between(Tail(q), Head(q), high)
         /\ low < Head(q) /\ Head(q) <= high
<1>1. Len(q) \in Nat \ {0} /\ q \in [1 .. Len(q) -> Nat]
  BY EmptySeq, LenProperties
<1>2. /\ Tail(q) \in Seq(Nat) /\ Len(Tail(q)) = Len(q) - 1
      /\ \A k \in 1 .. Len(q) - 1 : Tail(q)[k] = q[k + 1]
  BY TailLast
<1>3. Head(q) = q[1] /\ 1 \in 1 .. Len(q)
  BY <1>1
<1>4. \A k \in 1 .. Len(Tail(q)) : k + 1 \in 1 .. Len(q) /\ 1 < k + 1 /\ Tail(q)[k] = q[k + 1]
  BY <1>1, <1>2
<1>5. \A k, l \in 1 .. Len(Tail(q)) : k < l => k + 1 < l + 1
  BY <1>1, <1>2
<1>6. Increasing(Tail(q))
  BY <1>4, <1>5 DEF Increasing
<1>7. Between(Tail(q), Head(q), high)
  BY <1>3, <1>4 DEF Increasing, Between
<1>8. low < Head(q) /\ Head(q) <= high /\ Head(q) \in Nat
  BY <1>1, <1>3 DEF Between
<1> QED BY <1>2, <1>6, <1>7, <1>8

LEMMA Widen ==
  ASSUME NEW q \in Seq(Nat), NEW low \in Nat, NEW high \in Int, NEW higher \in Int,
         high <= higher, Between(q, low, high)
  PROVE  Between(q, low, higher)
<1>1. \A k \in 1 .. Len(q) : q[k] \in Nat
  BY LenProperties
<1> QED BY <1>1 DEF Between

LEMMA InitOrdered == Init => Ordered
<1> SUFFICES ASSUME Init PROVE Upcoming /\ Delivered
  BY InitType DEF Ordered
<1>1. Increasing(<<>>) /\ Between(<<>>, 0, 0)
  BY EmptySeq DEF Increasing, Between
<1>2. Upcoming
  BY <1>1 DEF Init, Upcoming
<1>3. Delivered
  <2>1. Latest = 0
    BY DEF Init, Latest
  <2>2. ASSUME NEW i \in Instances
        PROVE  queues[i] = <<>> /\ taken[i] = 0
    BY DEF Init
  <2>3. ASSUME NEW i \in Instances
        PROVE  Increasing(queues[i]) /\ Between(queues[i], taken[i], Latest)
    BY <1>1, <2>1, <2>2, Zenon
  <2>4. ASSUME NEW i \in Instances PROVE taken[i] <= Latest
    BY <2>1, <2>2
  <2> QED BY <2>3, <2>4, Zenon DEF Delivered
<1> QED BY <1>2, <1>3

LEMMA OrderFrame ==
  ASSUME Ordered, TypeOK', UNCHANGED <<bus, pump, published, queues, taken>>
  PROVE  Ordered'
  BY DEF Ordered, Upcoming, Delivered, Latest, Increasing, Between

LEMMA NextOrdered == Ordered /\ [Next]_vars => Ordered'
<1> SUFFICES ASSUME Ordered, [Next]_vars, TypeOK' PROVE Ordered'
  BY NextType DEF Ordered
<1> USE DEF hubVars, loopVars
<1>0. /\ bus \in Seq(Nat) /\ published \in Nat
      /\ pump.event \in Nat /\ pump.pc \in {"recv", "push", "wake"}
      /\ Latest \in Int
      /\ \A i \in Instances : queues[i] \in Seq(Nat) /\ taken[i] \in Nat
  BY DEF Ordered, TypeOK, HubTypes, Latest
<1>1. CASE Publish
  <2>1. Delivered'
    BY <1>1 DEF Publish, Ordered, Delivered, Latest, Increasing, Between
  <2>2. /\ bus' = Append(bus, published + 1) /\ published' = published + 1
        /\ pump' = pump
    BY <1>1 DEF Publish
  <2>3. /\ Len(bus) \in Nat /\ Len(bus') = Len(bus) + 1
        /\ \A k \in 1 .. Len(bus) : bus'[k] = bus[k] /\ bus[k] \in Nat
        /\ bus'[Len(bus) + 1] = published + 1
    BY <1>0, <2>2, AppendProperties, LenProperties
  <2>4. \A k \in 1 .. Len(bus) : pump.event < bus[k] /\ bus[k] <= published
    BY DEF Ordered, Upcoming, Between
  <2>5. pump.event <= published
    BY DEF Ordered, Upcoming
  <2>6. Increasing(bus')
    <3> SUFFICES ASSUME NEW k \in 1 .. Len(bus'), NEW l \in 1 .. Len(bus'), k < l
                 PROVE  bus'[k] < bus'[l]
      BY DEF Increasing
    <3>1. k \in 1 .. Len(bus)
      BY <2>3
    <3>2. CASE l = Len(bus) + 1
      BY <1>0, <2>3, <2>4, <3>1, <3>2
    <3>3. CASE l # Len(bus) + 1
      <4>1. l \in 1 .. Len(bus)
        BY <2>3, <3>3
      <4>2. bus[k] < bus[l]
        BY <3>1, <4>1 DEF Ordered, Upcoming, Increasing
      <4> QED BY <2>3, <3>1, <4>1, <4>2
    <3> QED BY <3>2, <3>3
  <2>7. Between(bus', pump'.event, published')
    <3> SUFFICES ASSUME NEW k \in 1 .. Len(bus')
                 PROVE  pump.event < bus'[k] /\ bus'[k] <= published + 1
      BY <2>2 DEF Between
    <3>1. k \in 1 .. Len(bus) \/ k = Len(bus) + 1
      BY <2>3
    <3> QED BY <1>0, <2>3, <2>4, <2>5, <3>1
  <2>8. pump'.event <= published'
    BY <1>0, <2>2, <2>5
  <2>9. Upcoming'
    BY <2>6, <2>7, <2>8 DEF Upcoming, Increasing, Between
  <2> QED BY <2>1, <2>9 DEF Ordered
<1>2. CASE PumpReceive
  <2>1. /\ bus # <<>> /\ bus' = Tail(bus) /\ published' = published
        /\ queues' = queues /\ taken' = taken /\ pump.pc = "recv"
        /\ \/ pump' = pump
           \/ pump' = [pc |-> "push", event |-> Head(bus), to |-> interests]
    BY <1>2 DEF PumpReceive
  <2>2. /\ Head(bus) \in Nat /\ Tail(bus) \in Seq(Nat) /\ Increasing(Tail(bus))
        /\ Between(Tail(bus), Head(bus), published)
        /\ pump.event < Head(bus) /\ Head(bus) <= published
    BY <1>0, <2>1, TailOrder DEF Ordered, Upcoming
  <2>3. Between(Tail(bus), pump.event, published)
    <3> SUFFICES ASSUME NEW k \in 1 .. Len(Tail(bus))
                 PROVE  pump.event < Tail(bus)[k] /\ Tail(bus)[k] <= published
      BY DEF Between
    <3>1. Tail(bus)[k] \in Nat
      BY <2>2, LenProperties
    <3>2. Head(bus) < Tail(bus)[k] /\ Tail(bus)[k] <= published
      BY <2>2 DEF Between
    <3> QED BY <1>0, <2>2, <3>1, <3>2
  <2>4. Upcoming'
    BY <2>1, <2>2, <2>3 DEF Ordered, Upcoming, Increasing, Between
  <2>5. Latest = pump.event
    BY <2>1 DEF Latest
  <2>6. Latest' \in Int /\ Latest <= Latest'
    BY <1>0, <2>1, <2>2, <2>5 DEF Latest
  <2>7. \A i \in Instances :
          /\ Increasing(queues[i]) /\ Between(queues[i], taken[i], Latest')
          /\ taken[i] <= Latest'
    BY <1>0, <2>6, Widen DEF Ordered, Delivered
  <2>8. Delivered'
    BY <2>1, <2>7 DEF Delivered, Increasing, Between
  <2> QED BY <2>4, <2>8 DEF Ordered
<1>3. CASE PumpPush
  <2>1. /\ pump.pc = "push" /\ pump' = [pump EXCEPT !.pc = "wake"]
        /\ bus' = bus /\ published' = published /\ taken' = taken
        /\ \A i \in Instances :
             queues'[i] = IF i \in pump.to THEN PushCapped(queues[i], pump.event)
                                           ELSE queues[i]
    BY <1>3 DEF PumpPush
  <2>2. pump'.event = pump.event /\ pump'.pc = "wake"
    BY <2>1 DEF Ordered, TypeOK, HubTypes
  <2>3. Latest = pump.event - 1 /\ Latest' = pump.event
    BY <2>1, <2>2 DEF Latest
  <2>4. Upcoming'
    BY <2>1, <2>2 DEF Ordered, Upcoming, Increasing, Between
  <2>5. ASSUME NEW i \in Instances
        PROVE  /\ Increasing(queues'[i]) /\ Between(queues'[i], taken[i], pump.event)
               /\ taken[i] <= pump.event
    <3>1. /\ Increasing(queues[i]) /\ Between(queues[i], taken[i], pump.event - 1)
          /\ taken[i] <= pump.event - 1
      BY <2>3 DEF Ordered, Delivered
    <3>2. taken[i] < pump.event /\ taken[i] <= pump.event
      BY <1>0, <3>1
    <3>3. CASE i \in pump.to
      BY <1>0, <2>1, <3>1, <3>2, <3>3, PushCappedOrder
    <3>4. CASE i \notin pump.to
      <4>1. Between(queues[i], taken[i], pump.event)
        <5>1. pump.event - 1 \in Int /\ pump.event \in Int /\ pump.event - 1 <= pump.event
          BY <1>0
        <5> QED BY <1>0, <3>1, <5>1, Widen
      <4> QED BY <2>1, <3>1, <3>2, <3>4, <4>1
    <3> QED BY <3>3, <3>4
  <2>6. Delivered'
    BY <2>1, <2>3, <2>5 DEF Delivered, Increasing, Between
  <2> QED BY <2>4, <2>6 DEF Ordered
<1>4. CASE PumpWake
  <2>1. /\ pump.pc = "wake" /\ pump' = [pump EXCEPT !.pc = "recv"]
        /\ UNCHANGED <<bus, published, queues, taken>>
    BY <1>4 DEF PumpWake
  <2>2. pump'.event = pump.event /\ pump'.pc = "recv"
    BY <2>1 DEF Ordered, TypeOK, HubTypes
  <2>3. Latest' = Latest
    BY <2>1, <2>2 DEF Latest
  <2> QED BY <2>1, <2>2, <2>3 DEF Ordered, Upcoming, Delivered, Increasing, Between
<1>5. CASE TakeEvent
  <2> DEFINE c == host.cur
  <2>1. /\ c \in Instances /\ queues[c] # <<>>
        /\ UNCHANGED <<bus, pump, published>>
        /\ queues' = [queues EXCEPT ![c] = Tail(queues[c])]
        /\ taken' = [taken EXCEPT ![c] = Head(queues[c])]
    BY <1>5 DEF TakeEvent, Ordered, TypeOK, LoopTypes, At
  <2>2. Latest' = Latest
    BY <2>1 DEF Latest
  <2>3. Upcoming'
    BY <2>1 DEF Ordered, Upcoming, Increasing, Between
  <2>4. /\ Increasing(Tail(queues[c])) /\ Between(Tail(queues[c]), Head(queues[c]), Latest)
        /\ Head(queues[c]) <= Latest
    BY <1>0, <2>1, TailOrder DEF Ordered, Delivered
  <2>5. ASSUME NEW i \in Instances
        PROVE  /\ Increasing(queues'[i]) /\ Between(queues'[i], taken'[i], Latest)
               /\ taken'[i] <= Latest
    <3>1. CASE i = c
      BY <2>1, <2>4, <3>1 DEF Ordered, TypeOK, HubTypes
    <3>2. CASE i # c
      <4>1. queues'[i] = queues[i] /\ taken'[i] = taken[i]
        BY <2>1, <3>2 DEF Ordered, TypeOK, HubTypes
      <4> QED BY <4>1 DEF Ordered, Delivered
    <3> QED BY <3>1, <3>2
  <2>6. Delivered'
    BY <2>2, <2>5 DEF Delivered, Increasing, Between
  <2> QED BY <2>3, <2>6 DEF Ordered
<1>6. CASE ForgetQueues
  <2>1. /\ UNCHANGED <<bus, pump, published, taken>>
        /\ \A i \in Instances : queues'[i] = queues[i] \/ queues'[i] = <<>>
    BY <1>6 DEF ForgetQueues
  <2>2. Latest' = Latest /\ Upcoming'
    BY <2>1 DEF Latest, Ordered, Upcoming, Increasing, Between
  <2>3. \A low, high : Increasing(<<>>) /\ Between(<<>>, low, high)
    BY EmptySeq DEF Increasing, Between
  <2>4. \A i \in Instances :
          /\ Increasing(queues'[i]) /\ Between(queues'[i], taken[i], Latest)
          /\ taken[i] <= Latest
    BY <2>1, <2>3 DEF Ordered, Delivered
  <2>5. Delivered'
    BY <2>1, <2>2, <2>4 DEF Delivered, Increasing, Between
  <2> QED BY <2>2, <2>5 DEF Ordered
<1>7. CASE ~Publish /\ ~PumpStep /\ ~TakeEvent /\ ~ForgetQueues
  <2>1. UNCHANGED <<bus, pump, published, queues, taken>>
    BY <1>7 DEF Next, LoopStep, vars, BeginUpdate, UpdateReturns, UpdateTraps,
       AllTicked, WakeUp, TimesUp, Block, SliceOver, Rebuild, BeginReload,
       ReloadWasm, LeaveIdle, EnterIdle, StartInstance, ModulesStarted,
       Reloaded, ForgetInterests
  <2> QED BY <2>1, OrderFrame
<1> QED BY <1>1, <1>2, <1>3, <1>4, <1>5, <1>6, <1>7 DEF PumpStep

\* Events reach an instance in the order of their publication and at most
\* once, and an overflow never costs the newest.
THEOREM EventsInOrder == Spec => []DeliveredInOrder
<1>1. Spec => []Ordered
  BY InitOrdered, NextOrdered, PTL DEF Spec
<1>2. Ordered => InOrder
  BY DEF Ordered, Delivered, InOrder, Increasing, Between
<1>3. Spec => []NewestKept
  BY QueuesSafe, PTL
<1>4. InOrder /\ NewestKept => DeliveredInOrder
  BY DEF DeliveredInOrder
<1> QED BY <1>1, <1>2, <1>3, <1>4, PTL

-----------------------------------------------------------------------------
(* Wake-ups. *)

Wakes == TypeOK /\ NoLostWake

LEMMA InitWakes == Init => Wakes
  BY InitType DEF Init, Wakes, NoLostWake

LEMMA NextWakes == Wakes /\ [Next]_vars => Wakes'
<1> SUFFICES ASSUME TypeOK, NoLostWake, [Next]_vars, TypeOK',
                    NEW i \in loaded', queues[i]' # <<>>
             PROVE  WakeComing(i)'
  BY NextType DEF Wakes, NoLostWake
<1> USE DEF hubVars, loopVars, At, Goto
<1>0. i \in Instances
  BY DEF TypeOK, LoopTypes
<1>a. ASSUME i \in loaded, queues[i] # <<>> PROVE WakeComing(i)
  BY <1>a DEF NoLostWake
<1>1. CASE Publish
  BY <1>1, <1>a DEF Publish, WakeComing
<1>2. CASE PumpReceive
  BY <1>2, <1>a DEF PumpReceive, WakeComing
<1>3. CASE PumpPush
  <2>1. CASE i \in pump.to
    BY <1>3, <2>1 DEF PumpPush, WakeComing, TypeOK, HubTypes
  <2>2. CASE i \notin pump.to
    BY <1>0, <1>3, <2>2, <1>a DEF PumpPush, WakeComing
  <2> QED BY <2>1, <2>2
<1>4. CASE PumpWake
  <2>1. /\ wakes \in Seq(SUBSET Instances) /\ pump.to \in SUBSET Instances
    BY DEF TypeOK, HubTypes, LoopTypes
  <2>2. /\ wakes' = Append(wakes, pump.to) /\ Len(wakes') = Len(wakes) + 1
        /\ \A k \in 1 .. Len(wakes) : wakes'[k] = wakes[k]
        /\ wakes'[Len(wakes) + 1] = pump.to
        /\ Len(wakes) \in Nat
    BY <1>4, <2>1, AppendProperties, LenProperties DEF PumpWake
  <2>3. WakeComing(i)
    BY <1>4, <1>a DEF PumpWake
  <2>4. CASE i \in due \cup retry
    BY <1>4, <2>4 DEF PumpWake, WakeComing
  <2>5. CASE \E k \in 1 .. Len(wakes) : i \in wakes[k]
    BY <2>2, <2>5 DEF WakeComing
  <2>6. CASE pump.pc = "wake" /\ i \in pump.to
    BY <2>2, <2>6 DEF WakeComing
  <2> QED BY <2>3, <2>4, <2>5, <2>6 DEF WakeComing
<1>5. CASE \E j \in Instances : BeginUpdate(j)
  BY <1>5, <1>a DEF BeginUpdate, WakeComing
<1>6. CASE TakeEvent
  <2>1. host.cur \in due
    BY <1>6 DEF TakeEvent, TypeOK, LoopTypes
  <2>2. CASE host.cur = i
    BY <1>6, <2>1, <2>2 DEF TakeEvent, WakeComing
  <2>3. CASE host.cur # i
    BY <1>0, <1>6, <2>3, <1>a DEF TakeEvent, WakeComing, TypeOK, HubTypes
  <2> QED BY <2>2, <2>3
<1>7. CASE UpdateReturns
  BY <1>7, <1>a DEF UpdateReturns, WakeComing
<1>8. CASE UpdateTraps
  BY <1>8, <1>a DEF UpdateTraps, WakeComing
<1>9. CASE AllTicked \/ Block \/ SliceOver
  BY <1>9, <1>a DEF AllTicked, Block, SliceOver, WakeComing
<1>10. CASE WakeUp
  <2>1. i \in loaded /\ queues[i] # <<>>
    BY <1>10 DEF WakeUp
  <2>2. WakeComing(i)
    BY <2>1, <1>a
  <2>3. CASE i \in due \cup retry
    BY <1>10, <2>3 DEF WakeUp, WakeComing
  <2>4. CASE \E k \in 1 .. Len(wakes) : i \in wakes[k]
    BY <1>10, <2>1, <2>4 DEF WakeUp, WakeComing
  <2>5. CASE pump.pc = "wake" /\ i \in pump.to
    BY <1>10, <2>5 DEF WakeUp, WakeComing
  <2> QED BY <2>2, <2>3, <2>4, <2>5 DEF WakeComing
<1>11. CASE \E S \in SUBSET Instances : TimesUp(S)
  BY <1>11, <1>a DEF TimesUp, WakeComing
<1>12. CASE \E keep, starting \in SUBSET Instances :
                 \/ BeginReload(keep, starting) \/ ReloadWasm(keep, starting)
                 \/ LeaveIdle(starting)
  <2>1. PICK keep, starting \in SUBSET Instances, wasm \in BOOLEAN :
          Rebuild(keep, starting, wasm)
    BY <1>12 DEF BeginReload, ReloadWasm, LeaveIdle
  <2> QED BY <2>1, <1>a DEF Rebuild, WakeComing
<1>13. CASE EnterIdle
  BY <1>13 DEF EnterIdle
<1>14. CASE \E j \in Instances : StartInstance(j)
  BY <1>14, <1>a DEF StartInstance, WakeComing
<1>15. CASE ModulesStarted \/ Reloaded
  BY <1>15, <1>a DEF ModulesStarted, Reloaded, WakeComing
<1>16. CASE ForgetInterests
  BY <1>16, <1>a DEF ForgetInterests, WakeComing
<1>17. CASE ForgetQueues
  BY <1>0, <1>17, <1>a DEF ForgetQueues, WakeComing
<1>18. CASE UNCHANGED vars
  BY <1>18, <1>a DEF vars, WakeComing
<1> QED
  BY <1>1, <1>2, <1>3, <1>4, <1>5, <1>6, <1>7, <1>8, <1>9, <1>10, <1>11,
     <1>12, <1>13, <1>14, <1>15, <1>16, <1>17, <1>18
     DEF Next, LoopStep, PumpStep

\* An event queued for a loaded instance always has a look into its queue on
\* the way.
THEOREM WakesArrive == Spec => []NoLostWake
<1>1. Spec => []Wakes
  BY InitWakes, NextWakes, PTL DEF Spec
<1>2. Wakes => NoLostWake
  BY DEF Wakes
<1> QED BY <1>1, <1>2, PTL

=============================================================================
