---------------------------- MODULE ObserverSlots ----------------------------
(* Which observer an emit reaches: the global slot, the per-thread slot with  *)
(* its stack of guards, the per-task slot with its polls, and OVERRIDE_COUNT, *)
(* the flag that lets observer() skip the last two; and the in-memory sink    *)
(* behind each observer, which the test helpers read back.                    *)
EXTENDS Naturals, Sequences, FiniteSets, SequencesExt

CONSTANTS
    Threads,        \* OS threads that emit and poll tasks
    Tasks,          \* futures wrapped by with_observer_task
    Observers,      \* in-memory observers, one ring each
    RingCap,        \* InMemorySink capacity
    MaxGuards,      \* bound on nested guards per thread
    MaxEmits        \* bound on the emits

(* InMemoryObserver keeps the sink's DEFAULT_CAPACITY.                        *)
ASSUME SlotAssumption == RingCap \in Nat \ {0}

VARIABLES
    global,         \* OBSERVER_GLOBAL
    slot,           \* OBSERVER_THREAD of each thread, {} or {observer}
    guards,         \* the live ThreadObserverGuards of each thread: [obs, prev]
    task,           \* each task: [state, obs, on], on = the thread polling it
    overrides,      \* OVERRIDE_COUNT
    look,           \* where each thread is in observer()
    emits,          \* emits delivered so far
    ring,           \* the buffer behind each observer
    meant,          \* history: what was emitted for each observer
    since           \* history: how much of it has been drained

slotVars == <<global, slot, guards, task, overrides, look, emits, ring, meant, since>>

Running(t) == {k \in Tasks : task[k].on = {t}}

SlotInit ==
    /\ global \in Observers
    /\ slot = [t \in Threads |-> {}] /\ guards = [t \in Threads |-> <<>>]
    /\ task = [k \in Tasks |-> [state |-> "new", obs |-> {}, on |-> {}]]
    /\ overrides = 0 /\ emits = 0 /\ look = [t \in Threads |-> "out"]
    /\ ring = [o \in Observers |-> <<>>] /\ meant = ring /\ since = [o \in Observers |-> 0]

(* install_observer, install_observer_arc                                     *)
InstallObserver(o) ==
    /\ global' = o
    /\ UNCHANGED <<slot, guards, task, overrides, look, emits, ring, meant, since>>

(* with_observer_thread_local; the guard keeps what the slot held.            *)
WithObserverThreadLocal(t, o) ==
    /\ look[t] = "out" /\ Len(guards[t]) < MaxGuards
    /\ slot' = [slot EXCEPT ![t] = {o}]
    /\ guards' = [guards EXCEPT ![t] = Append(@, [obs |-> o, prev |-> slot[t]])]
    /\ overrides' = overrides + 1
    /\ UNCHANGED <<global, task, look, emits, ring, meant, since>>

(* ThreadObserverGuard::drop; guards are bound in nested blocks, so the       *)
(* youngest goes first.                                                       *)
DropGuardClears(t) ==
    /\ look[t] = "out" /\ guards[t] # <<>>
    /\ slot' = [slot EXCEPT ![t] = {}]
    /\ guards' = [guards EXCEPT ![t] = Front(@)]
    /\ overrides' = overrides - 1
    /\ UNCHANGED <<global, task, look, emits, ring, meant, since>>

DropGuard(t) ==
    /\ look[t] = "out" /\ guards[t] # <<>>
    /\ slot' = [slot EXCEPT ![t] = Last(guards[t]).prev]
    /\ guards' = [guards EXCEPT ![t] = Front(@)]
    /\ overrides' = overrides - 1
    /\ UNCHANGED <<global, task, look, emits, ring, meant, since>>

(* with_observer_task: the first poll counts and enters the scope, every poll *)
(* fills the task slot of the thread it runs on (the scheduler may move the   *)
(* task), and completion counts down.                                         *)
Poll(t, k, o) ==
    /\ look[t] = "out" /\ task[k].on = {} /\ Running(t) = {}
    /\ \/ task[k].state = "new" /\ overrides' = overrides + 1
          /\ task' = [task EXCEPT ![k] = [state |-> "scoped", obs |-> {o}, on |-> {t}]]
       \/ task[k].state = "scoped" /\ task[k].obs = {o} /\ overrides' = overrides
          /\ task' = [task EXCEPT ![k].on = {t}]
    /\ UNCHANGED <<global, slot, guards, look, emits, ring, meant, since>>

(* with_observer_task_sync, as Instrumented::poll uses it, is one Poll that   *)
(* ends Ready: both count down after the scope.                               *)
PollReady(t, k) ==
    /\ look[t] = "out" /\ k \in Running(t)
    /\ task' = [task EXCEPT ![k].state = "done", ![k].on = {}]
    /\ overrides' = overrides - 1
    /\ UNCHANGED <<global, slot, guards, look, emits, ring, meant, since>>

PollPending(t, k) ==
    /\ look[t] = "out" /\ k \in Running(t)
    /\ task' = [task EXCEPT ![k].on = {}]
    /\ UNCHANGED <<global, slot, guards, overrides, look, emits, ring, meant, since>>

(* A future dropped between polls never reaches the line that counts down.    *)
DropTask(k) ==
    /\ task[k].state = "scoped" /\ task[k].on = {}
    /\ task' = [task EXCEPT ![k].state = "done"]
    /\ UNCHANGED <<global, slot, guards, overrides, look, emits, ring, meant, since>>

(* observer(): the count decides whether the slots are looked at ...          *)
LoadCount(t) ==
    /\ look[t] = "out" /\ emits < MaxEmits
    /\ look' = [look EXCEPT ![t] = IF overrides = 0 THEN "global" ELSE "probe"]
    /\ UNCHANGED <<global, slot, guards, task, overrides, emits, ring, meant, since>>

(* The observer the nesting of scopes on this thread says.                    *)
Wanted(t) ==
    IF Running(t) # {} THEN UNION {task[k].obs : k \in Running(t)}
    ELSE IF guards[t] # <<>> THEN {Last(guards[t]).obs} ELSE {global}

(* InMemorySink::deliver drops the oldest of a full ring.                     *)
PushRing(buf, e) == IF Len(buf) >= RingCap THEN Append(Tail(buf), e) ELSE Append(buf, e)

(* InMemoryObserver::emit_envelope, of the observer found.                    *)
Deliver(t, o) ==
    /\ emits' = emits + 1
    /\ ring' = [ring EXCEPT ![o] = PushRing(@, emits + 1)]
    /\ meant' = [w \in Observers |-> IF w \in Wanted(t) THEN Append(meant[w], emits + 1) ELSE meant[w]]
    /\ look' = [look EXCEPT ![t] = "out"]
    /\ UNCHANGED <<global, slot, guards, task, overrides, since>>

(* ... the task slot comes before the thread slot ...                         *)
Probe(t) ==
    /\ look[t] = "probe"
    /\ LET found == IF Running(t) # {} THEN UNION {task[k].obs : k \in Running(t)} ELSE slot[t] IN
       IF found = {}
       THEN /\ look' = [look EXCEPT ![t] = "global"]
            /\ UNCHANGED <<global, slot, guards, task, overrides, emits, ring, meant, since>>
       ELSE \E o \in found : Deliver(t, o)

(* ... and the global slot is last.                                           *)
LoadGlobal(t) == look[t] = "global" /\ Deliver(t, global)

(* InMemoryHandle::drain, and wait_for once its count is there.               *)
Drain(o) ==
    /\ ring[o] # <<>>
    /\ ring' = [ring EXCEPT ![o] = <<>>]
    /\ since' = [since EXCEPT ![o] = Len(meant[o])]
    /\ UNCHANGED <<global, slot, guards, task, overrides, look, emits, meant>>

SlotNext ==
    \/ \E o \in Observers : InstallObserver(o) \/ Drain(o)
    \/ \E k \in Tasks : DropTask(k)
    \/ \E t \in Threads :
         \/ DropGuard(t) \/ LoadCount(t) \/ Probe(t) \/ LoadGlobal(t)
         \/ \E o \in Observers : WithObserverThreadLocal(t, o) \/ \E k \in Tasks : Poll(t, k, o)
         \/ \E k \in Tasks : PollReady(t, k) \/ PollPending(t, k)

SlotSpec == SlotInit /\ [][SlotNext]_slotVars

-----------------------------------------------------------------------------
(* OVERRIDE_COUNT is a shortcut that never hides an override, and guards      *)
(* restore what they replaced: whatever threads and tasks do meanwhile, the   *)
(* ring of an observer holds the youngest of exactly the emits made under it  *)
(* since it was drained.                                                      *)
OverrideSeen == \A o \in Observers :
    LET fresh == SubSeq(meant[o], since[o] + 1, Len(meant[o]))
        kept == IF Len(fresh) > RingCap THEN RingCap ELSE Len(fresh) IN
    ring[o] = SubSeq(fresh, Len(fresh) - kept + 1, Len(fresh))
=============================================================================
