------------------------------ MODULE EventHub ------------------------------
(***************************************************************************)
(* Delivery of extension events to module instances: the bus               *)
(* (src/extension/bus.rs), the hub with its pump thread                    *)
(* (src/extension/event_hub.rs), and the part of the bar's main loop       *)
(* (src/bar.rs, src/control.rs, src/module.rs) that wakes, ticks, starts   *)
(* and forgets instances.                                                  *)
(*                                                                         *)
(* Threads: the readers that publish, the pump, and the main thread. The   *)
(* hub's two maps have a lock each, so the pump's delivery and the main    *)
(* thread's clean-up are two steps each and interleave.                    *)
(*                                                                         *)
(* One (extension, event) pair; an event is the number of its publication. *)
(* A queue that is absent from the map is an empty one.                    *)
(***************************************************************************)
EXTENDS Naturals, Sequences

CONSTANTS
    Instances,     \* module instance names
    MaxQueueLen,   \* MAX_QUEUE_LEN, 64 in the code
    MaxEvents,     \* events published in one behaviour
    MaxTraps,      \* traps of module updates in one behaviour
    NoInstance     \* no instance is being updated

ASSUME HubAssumption ==
    /\ MaxQueueLen \in Nat \ {0}
    /\ MaxEvents \in Nat /\ MaxTraps \in Nat
    /\ NoInstance \notin Instances

VARIABLES
    bus,        \* channel from the bus to the pump
    pump,       \* pump thread: pc, event, the subscribers it was read for
    interests,  \* instances subscribed
    queues,     \* events queued for each instance
    wakes,      \* channel from the pump to the main loop: sets of names
    loaded,     \* instances in the main loop's `modules`
    due,        \* loaded instances whose next_due has passed
    retry,      \* loaded instances due one second after a trap
    host,       \* main thread: pc, instance being updated, idle mode, the
                \* instances a reload still has to start, and whether its
                \* batch goes on to reload_wasm
    published,  \* history: events published
    owed,       \* history: newest event queued and not forgotten, per instance
    taken,      \* history: last event taken, per instance
    traps       \* history: traps so far

hubVars  == <<interests, queues>>
loopVars == <<loaded, due, retry, host>>
vars == <<bus, pump, hubVars, wakes, loopVars, published, owed, taken, traps>>

Init ==
    /\ bus = <<>> /\ wakes = <<>>
    /\ pump = [pc |-> "recv", event |-> 0, to |-> {}]
    /\ interests = {} /\ queues = [i \in Instances |-> <<>>]
    /\ loaded = {} /\ due = {} /\ retry = {}
    /\ \E starting \in SUBSET Instances :
         host = [pc |-> "start", cur |-> NoInstance, idle |-> TRUE,
                 starting |-> starting, wasm |-> FALSE]
    /\ published = 0 /\ traps = 0
    /\ owed = [i \in Instances |-> 0] /\ taken = [i \in Instances |-> 0]

At(pc)   == host.pc = pc
Goto(pc) == host' = [host EXCEPT !.pc = pc]

-----------------------------------------------------------------------------
(* Publication and the pump thread. *)

\* A reader thread publishes an event.
Publish ==
    /\ published < MaxEvents
    /\ published' = published + 1
    /\ bus' = Append(bus, published')
    /\ UNCHANGED <<pump, hubVars, wakes, loopVars, owed, taken, traps>>

\* deliver, under the lock of `interests`: the subscribers are copied.
PumpReceive ==
    /\ pump.pc = "recv" /\ bus # <<>>
    /\ bus' = Tail(bus)
    /\ pump' = IF interests = {}
               THEN pump
               ELSE [pc |-> "push", event |-> Head(bus), to |-> interests]
    /\ UNCHANGED <<hubVars, wakes, loopVars, published, owed, taken, traps>>

\* Mutants of PushCapped: one event too many is kept; a full queue refuses
\* the new event.
PushOneTooMany(q, e) ==
    Append(IF Len(q) > MaxQueueLen THEN Tail(q) ELSE q, e)

PushDropsNewest(q, e) ==
    IF Len(q) >= MaxQueueLen THEN q ELSE Append(q, e)

\* push_capped: the oldest events make room.
PushCapped(q, e) ==
    Append(IF Len(q) >= MaxQueueLen
           THEN SubSeq(q, Len(q) - MaxQueueLen + 2, Len(q))
           ELSE q, e)

\* deliver, under the lock of `queues`.
PumpPush ==
    /\ pump.pc = "push"
    /\ queues' = [i \in Instances |->
                    IF i \in pump.to THEN PushCapped(queues[i], pump.event)
                                     ELSE queues[i]]
    /\ owed' = [i \in Instances |->
                    IF i \in pump.to THEN pump.event ELSE owed[i]]
    /\ pump' = [pump EXCEPT !.pc = "wake"]
    /\ UNCHANGED <<bus, interests, wakes, loopVars, published, taken, traps>>

\* The names are sent after the events are queued.
PumpWake ==
    /\ pump.pc = "wake"
    /\ wakes' = Append(wakes, pump.to)
    /\ pump' = [pump EXCEPT !.pc = "recv"]
    /\ UNCHANGED <<bus, hubVars, loopVars, published, owed, taken, traps>>

-----------------------------------------------------------------------------
(* The main loop: every due instance is updated once per pass. A module's  *)
(* update takes events until there is none (modules/keyboard, battery and  *)
(* process all do).                                                        *)

BeginUpdate(i) ==
    /\ At("tick") /\ i \in due
    /\ host' = [host EXCEPT !.pc = "update", !.cur = i]
    /\ UNCHANGED <<bus, pump, hubVars, wakes, loaded, due, retry, published,
                   owed, taken, traps>>

\* Mutant of TakeEvent: the newest event first.
TakeNewest ==
    LET q == queues[host.cur] IN
    /\ At("update") /\ q # <<>>
    /\ taken' = [taken EXCEPT ![host.cur] = q[Len(q)]]
    /\ queues' = [queues EXCEPT ![host.cur] = SubSeq(q, 1, Len(q) - 1)]
    /\ UNCHANGED <<bus, pump, interests, wakes, loopVars, published, owed,
                   traps>>

\* take_extension_event
TakeEvent ==
    /\ At("update") /\ queues[host.cur] # <<>>
    /\ taken' = [taken EXCEPT ![host.cur] = Head(queues[host.cur])]
    /\ queues' = [queues EXCEPT ![host.cur] = Tail(@)]
    /\ UNCHANGED <<bus, pump, interests, wakes, loopVars, published, owed,
                   traps>>

\* take returned None: the update returns and is scheduled an interval later.
UpdateReturns ==
    /\ At("update") /\ queues[host.cur] = <<>>
    /\ due' = due \ {host.cur}
    /\ host' = [host EXCEPT !.pc = "tick", !.cur = NoInstance]
    /\ UNCHANGED <<bus, pump, hubVars, wakes, loaded, retry, published, owed,
                   taken, traps>>

\* Mutant of UpdateTraps: the instance waits for its next event.
UpdateTrapsForGood ==
    /\ At("update") /\ traps < MaxTraps
    /\ traps' = traps + 1
    /\ due' = due \ {host.cur}
    /\ host' = [host EXCEPT !.pc = "tick", !.cur = NoInstance]
    /\ UNCHANGED <<bus, pump, interests, queues, wakes, loaded, retry,
                   published, owed, taken>>

\* The update traps anywhere, with events left in its queue. The instance is
\* built and initialised again, subscribing again or not, and is due in one
\* second.
UpdateTraps ==
    /\ At("update") /\ traps < MaxTraps
    /\ traps' = traps + 1
    /\ due' = due \ {host.cur}
    /\ retry' = retry \cup {host.cur}
    /\ \E subscribes \in BOOLEAN :
         interests' = IF subscribes THEN interests \cup {host.cur}
                                    ELSE interests
    /\ host' = [host EXCEPT !.pc = "tick", !.cur = NoInstance]
    /\ UNCHANGED <<bus, pump, queues, wakes, loaded, published, owed, taken>>

AllTicked ==
    /\ At("tick") /\ due = {}
    /\ Goto("poll")
    /\ UNCHANGED <<bus, pump, hubVars, wakes, loaded, due, retry, published,
                   owed, taken, traps>>

\* Mutants of WakeUp: the names are taken for instances; the names of the
\* first message only.
WakeUpAnyName ==
    /\ At("poll") /\ wakes # <<>>
    /\ due' = due \cup UNION {wakes[k] : k \in 1 .. Len(wakes)}
    /\ retry' = retry \ due'
    /\ wakes' = <<>>
    /\ Goto("tick")
    /\ UNCHANGED <<bus, pump, hubVars, loaded, published, owed, taken, traps>>

WakeUpFirstOnly ==
    /\ At("poll") /\ wakes # <<>>
    /\ due' = due \cup (loaded \cap Head(wakes))
    /\ retry' = retry \ due'
    /\ wakes' = <<>>
    /\ Goto("tick")
    /\ UNCHANGED <<bus, pump, hubVars, loaded, published, owed, taken, traps>>

\* wait_for_reload_or_event drains the channel, and mark_modules_due applies
\* the names, which it ignores in idle mode: nothing is loaded then.
WakeUp ==
    /\ At("poll") /\ wakes # <<>>
    /\ due' = due \cup {i \in loaded : \E k \in 1 .. Len(wakes) : i \in wakes[k]}
    /\ retry' = retry \ due'
    /\ wakes' = <<>>
    /\ Goto("tick")
    /\ UNCHANGED <<bus, pump, hubVars, loaded, published, owed, taken, traps>>

\* The deadline has passed: the instances of S are due.
TimesUp(S) ==
    /\ At("poll") /\ wakes = <<>> /\ S \subseteq loaded
    /\ due' = due \cup S
    /\ retry' = retry \ due'
    /\ Goto("tick")
    /\ UNCHANGED <<bus, pump, hubVars, wakes, loaded, published, owed, taken,
                   traps>>

\* It has not: block on the reload channel for at most 50 ms.
Block ==
    /\ At("poll") /\ wakes = <<>>
    /\ Goto("block")
    /\ UNCHANGED <<bus, pump, hubVars, wakes, loaded, due, retry, published,
                   owed, taken, traps>>

SliceOver ==
    /\ At("block")
    /\ Goto("poll")
    /\ UNCHANGED <<bus, pump, hubVars, wakes, loaded, due, retry, published,
                   owed, taken, traps>>

-----------------------------------------------------------------------------
(* Reloads. *)

\* The instances of `keep` stay, and those of `starting` are started or
\* initialised again.
Rebuild(keep, starting, wasm) ==
    /\ keep \subseteq loaded
    /\ loaded' = keep
    /\ due' = due \cap keep /\ retry' = retry \cap keep
    /\ host' = [host EXCEPT !.pc = "start", !.starting = starting, !.wasm = wasm]
    /\ UNCHANGED <<bus, pump, hubVars, wakes, published, owed, taken, traps>>

\* A batch with a configuration, wasm kinds, or both: ModuleRuntime::reload
\* or reload_wasm,
BeginReload(keep, starting) ==
    At("block") /\ ~host.idle /\ \E wasm \in BOOLEAN : Rebuild(keep, starting, wasm)

\* and reload_wasm after reload.
ReloadWasm(keep, starting) == At("wasm") /\ Rebuild(keep, starting, FALSE)

\* try_leave_idle
LeaveIdle(starting) == At("block") /\ host.idle /\ Rebuild({}, starting, FALSE)

\* load_bar_config answers Idle: every instance is dropped.
EnterIdle ==
    /\ At("block") /\ ~host.idle
    /\ loaded' = {} /\ due' = {} /\ retry' = {}
    /\ host' = [host EXCEPT !.pc = "forget", !.idle = TRUE]
    /\ UNCHANGED <<bus, pump, hubVars, wakes, published, owed, taken, traps>>

\* init runs, subscribing or not. If it fails a new instance is left out, but
\* stays subscribed; an old one is kept as it was.
StartInstance(i) ==
    /\ At("start") /\ i \in host.starting
    /\ \E subscribes \in BOOLEAN :
         interests' = IF subscribes THEN interests \cup {i} ELSE interests
    /\ \/ /\ loaded' = loaded \cup {i}
          /\ due' = due \cup {i} /\ retry' = retry \ {i}
       \/ UNCHANGED <<loaded, due, retry>>
    /\ host' = [host EXCEPT !.starting = @ \ {i}]
    /\ UNCHANGED <<bus, pump, queues, wakes, published, owed, taken, traps>>

\* start_modules: the bar stays idle if no instance started, and there is no
\* retain_instances.
ModulesStarted ==
    /\ At("start") /\ host.starting = {} /\ host.idle
    /\ host' = [host EXCEPT !.pc = IF loaded = {} THEN "poll" ELSE "tick",
                            !.idle = (loaded = {})]
    /\ UNCHANGED <<bus, pump, hubVars, wakes, loaded, due, retry, published,
                   owed, taken, traps>>

\* A reload goes on to retain_instances. (Its early return for a bad list of
\* modules is never taken: load_bar_config has answered Idle for such a list.)
Reloaded ==
    /\ At("start") /\ host.starting = {} /\ ~host.idle
    /\ Goto("forget")
    /\ UNCHANGED <<bus, pump, hubVars, wakes, loaded, due, retry, published,
                   owed, taken, traps>>

\* retain_instances and clear_all, under the lock of `interests`
ForgetInterests ==
    /\ At("forget")
    /\ interests' = interests \cap loaded
    /\ Goto("drop")
    /\ UNCHANGED <<bus, pump, queues, wakes, loaded, due, retry, published,
                   owed, taken, traps>>

\* Mutant of ForgetQueues: the queues are left behind.
ForgetNothing ==
    /\ At("drop")
    /\ Goto(IF host.wasm THEN "wasm" ELSE "tick")
    /\ UNCHANGED <<bus, pump, interests, queues, wakes, loaded, due, retry,
                   published, owed, taken, traps>>

\* and under the lock of `queues`.
ForgetQueues ==
    /\ At("drop")
    /\ queues' = [i \in Instances |-> IF i \in loaded THEN queues[i] ELSE <<>>]
    /\ owed' = [i \in Instances |-> IF i \in loaded THEN owed[i] ELSE taken[i]]
    /\ Goto(IF host.wasm THEN "wasm" ELSE "tick")
    /\ UNCHANGED <<bus, pump, interests, wakes, loaded, due, retry, published,
                   taken, traps>>

-----------------------------------------------------------------------------
PumpStep == PumpReceive \/ PumpPush \/ PumpWake

LoopStep ==
    \/ \E i \in Instances : BeginUpdate(i) \/ StartInstance(i)
    \/ TakeEvent \/ UpdateReturns \/ AllTicked \/ WakeUp \/ Block \/ SliceOver
    \/ ModulesStarted \/ Reloaded \/ ForgetInterests \/ ForgetQueues
    \/ \E keep, starting \in SUBSET Instances : ReloadWasm(keep, starting)

Next ==
    \/ Publish \/ PumpStep \/ LoopStep \/ UpdateTraps \/ EnterIdle
    \/ \E S \in SUBSET Instances : TimesUp(S)
    \/ \E keep, starting \in SUBSET Instances : BeginReload(keep, starting)
    \/ \E starting \in SUBSET Instances : LeaveIdle(starting)

Spec == Init /\ [][Next]_vars

\* The two threads are scheduled, and the second after a trap passes; events,
\* traps, intervals and reloads owe nothing.
Fairness ==
    /\ WF_vars(PumpStep) /\ WF_vars(LoopStep)
    /\ \A i \in Instances :
         SF_vars(i \in retry /\ \E S \in SUBSET Instances : i \in S /\ TimesUp(S))

FairSpec == Spec /\ Fairness

-----------------------------------------------------------------------------
(* Properties. *)

HubTypes ==
    /\ bus \in Seq(Nat) /\ published \in Nat
    /\ pump \in [pc : {"recv", "push", "wake"}, event : Nat,
                 to : SUBSET Instances]
    /\ interests \subseteq Instances
    /\ queues \in [Instances -> Seq(Nat)]
    /\ owed \in [Instances -> Nat] /\ taken \in [Instances -> Nat]

LoopTypes ==
    /\ wakes \in Seq(SUBSET Instances)
    /\ loaded \subseteq Instances /\ due \subseteq loaded
    /\ retry \subseteq loaded \ due
    /\ host \in [pc : {"tick", "update", "poll", "block", "start", "forget",
                       "drop", "wasm"},
                 cur : Instances \cup {NoInstance}, idle : BOOLEAN,
                 starting : SUBSET Instances, wasm : BOOLEAN]
    /\ (At("update") <=> host.cur # NoInstance)
    /\ (At("update") => host.cur \in due)
    /\ traps \in Nat

TypeOK == HubTypes /\ LoopTypes

\* A queue never holds more than MAX_QUEUE_LEN events, whatever the rate at
\* which an extension emits them and however long an update takes.
QueueBounded == \A i \in Instances : Len(queues[i]) <= MaxQueueLen

\* Events reach an instance in the order of their publication and at most
\* once, across overflows, reloads and new lives of the instance.
InOrder ==
    \A i \in Instances :
      /\ \A k \in 1 .. Len(queues[i]) : queues[i][k] > taken[i]
      /\ \A k, l \in 1 .. Len(queues[i]) : k < l => queues[i][k] < queues[i][l]

\* An overflow costs the oldest events only: the newest event queued for an
\* instance is still the last in its queue, until the instance takes it.
NewestKept ==
    \A i \in Instances :
      IF queues[i] = <<>> THEN owed[i] = taken[i]
                          ELSE queues[i][Len(queues[i])] = owed[i]

\* Events are delivered as they were published: in order, at most once, and the
\* newest is never the one an overflow gives up.
DeliveredInOrder == InOrder /\ NewestKept

\* The main loop is going to look into i's queue.
WakeComing(i) ==
    \/ i \in due \cup retry
    \/ \E k \in 1 .. Len(wakes) : i \in wakes[k]
    \/ pump.pc = "wake" /\ i \in pump.to

\* No wake-up is lost: an event queued for a loaded instance is never left
\* there with the main loop asleep until the instance's own interval (five
\* minutes for the keyboard module), even if the event arrives while the
\* instance is being updated, restarted or recovering from a trap.
NoLostWake == \A i \in loaded : queues[i] # <<>> => WakeComing(i)

\* The race between delivery and clean-up leaks one event at most: the queue
\* of an instance that is gone never grows.
OrphanHoldsOne ==
    \A i \in Instances \ (loaded \cup interests) :
      ~At("drop") => Len(queues[i]) <= 1

\* Every event queued for an instance is taken, or the instance unloaded.
EventsAreTaken ==
    \A i \in Instances :
      (i \in loaded /\ queues[i] # <<>>) ~> (queues[i] = <<>> \/ i \notin loaded)

=============================================================================
