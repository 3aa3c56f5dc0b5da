------------------------------ MODULE Timeline ------------------------------
(***************************************************************************)
(* The event timelines of lib/timeline.c and the listener container they   *)
(* share (lib/timeline_listener.c).                                        *)
(*                                                                         *)
(* Threads push events into timelines.  A timeline keeps the events in a   *)
(* bounded buffer, and hands the whole buffer to every listener of its     *)
(* container when the next event does not fit, on an explicit flush, and   *)
(* when it is destroyed.  An event larger than the buffer goes straight to *)
(* the listeners.  A timeline created with thread_safe has a mutex; one    *)
(* created without belongs to one thread.                                  *)
(*                                                                         *)
(* An event is an element of Events and Size gives the bytes it occupies   *)
(* (get_size for a serializing timeline, type_info->size otherwise: the    *)
(* two branches of ht_timeline_push_event differ in nothing else).         *)
(***************************************************************************)
EXTENDS Integers, Sequences, FiniteSets

CONSTANTS Timelines,    \* timelines created on one listener container
          Threads,
          Listeners,
          Events,       \* the events threads may push, each at most once
          Size,         \* bytes of each event
          Capacity,     \* buffer_capacity
          ThreadSafe,   \* the timelines were created with thread_safe
          MayUse,       \* which thread calls the functions of which timeline
          Named,        \* the container was created under a name
          MaxFlushes,   \* bound on explicit ht_timeline_flush calls
          NoThread, NoEvent, NoTimeline

ASSUME TimelineAssumption ==
  /\ IsFiniteSet(Timelines)
  /\ NoThread \notin Threads
  /\ NoEvent \notin Events
  /\ NoTimeline \notin Timelines
  /\ Size \in [Events -> Nat \ {0}]
  /\ Capacity \in Nat
  /\ ThreadSafe \in BOOLEAN
  /\ Named \in BOOLEAN
  /\ MaxFlushes \in Nat
  /\ MayUse \subseteq Threads \X Timelines
  \* The documented contract: without thread_safe, one thread per timeline.
  /\ ~ThreadSafe => \A tl \in Timelines, t, u \in Threads :
                      <<t, tl>> \in MayUse /\ <<u, tl>> \in MayUse => t = u

VARIABLES
  lock,      \* lock[tl]: the thread that holds locking_policy, or NoThread
  buffer,    \* buffer[tl]: the events stored in the buffer, oldest first
  usage,     \* usage[tl]: buffer_usage
  status,    \* status[tl]: "alive", "closing" (in destroy) or "dead"
  entries,   \* the container's bag of listeners, in registration order
  refcount,  \* the container's reference count
  registry,  \* references the registry holds to the container (0 or 1)
  pc,        \* where each thread is
  target,    \* target[t]: the timeline of the call thread t is in
  event,     \* event[t]: the event being pushed, NoEvent in flush and destroy
  idx,       \* idx[t]: loop variable of notify_listeners (1-based)
  created,   \* events that have been initialised
  flushes,   \* explicit flush calls so far
  \* history variables: no action reads them
  pushed,    \* pushed[tl]: events accepted by tl, in order
  flushed,   \* flushed[tl]: those whose notification loop has ended
  received,  \* received[l][tl]: events of tl passed to the callback of l
  missed,    \* missed[l][tl]: flushed[tl] when l was registered
  destroyed  \* listeners whose destroy callback ran

calls == <<pc, target, event, idx>>
history == <<pushed, flushed, received, missed, destroyed>>
vars == <<lock, buffer, usage, status, entries, refcount, registry,
          calls, created, flushes, history>>

PCs == {"idle", "lock", "flush", "place", "direct", "release", "teardown"}

TypeOK ==
  /\ lock \in [Timelines -> Threads \cup {NoThread}]
  /\ buffer \in [Timelines -> Seq(Events)]
  /\ usage \in [Timelines -> Nat]
  /\ status \in [Timelines -> {"alive", "closing", "dead"}]
  /\ entries \in Seq(Listeners)
  /\ refcount \in Nat
  /\ registry \in {0, 1}
  /\ pc \in [Threads -> PCs]
  /\ target \in [Threads -> Timelines \cup {NoTimeline}]
  /\ event \in [Threads -> Events \cup {NoEvent}]
  /\ idx \in [Threads -> Nat \ {0}]
  /\ created \subseteq Events
  /\ flushes \in Nat
  /\ pushed \in [Timelines -> Seq(Events)]
  /\ flushed \in [Timelines -> Seq(Events)]
  /\ received \in [Listeners -> [Timelines -> Seq(Events)]]
  /\ missed \in [Listeners -> [Timelines -> Seq(Events)]]
  /\ destroyed \subseteq Listeners

\* ht_timeline_create has returned for every timeline; the first one created
\* the container (refcount 1), a named container is also held by the registry,
\* and every further timeline found it and took a reference.
Init ==
  /\ lock = [tl \in Timelines |-> NoThread]
  /\ buffer = [tl \in Timelines |-> << >>]
  /\ usage = [tl \in Timelines |-> 0]
  /\ status = [tl \in Timelines |-> "alive"]
  /\ entries = << >>
  /\ registry = IF Named THEN 1 ELSE 0
  /\ refcount = Cardinality(Timelines) + registry
  /\ pc = [t \in Threads |-> "idle"]
  /\ target = [t \in Threads |-> NoTimeline]
  /\ event = [t \in Threads |-> NoEvent]
  /\ idx = [t \in Threads |-> 1]
  /\ created = {}
  /\ flushes = 0
  /\ pushed = [tl \in Timelines |-> << >>]
  /\ flushed = [tl \in Timelines |-> << >>]
  /\ received = [l \in Listeners |-> [tl \in Timelines |-> << >>]]
  /\ missed = [l \in Listeners |-> [tl \in Timelines |-> << >>]]
  /\ destroyed = {}

-----------------------------------------------------------------------------
\* Calls.

\* Thread t enters a function of timeline tl, up to its _TIMELINE_LOCK.
Call(t, tl, e) ==
  /\ pc[t] = "idle"
  /\ <<t, tl>> \in MayUse
  /\ status[tl] = "alive"
  /\ pc' = [pc EXCEPT ![t] = "lock"]
  /\ target' = [target EXCEPT ![t] = tl]
  /\ event' = [event EXCEPT ![t] = e]
  /\ UNCHANGED <<lock, buffer, usage, entries, refcount, registry, idx, history>>

\* ht_timeline_push_event, after the caller initialised a fresh event.
BeginPush(t, tl, e) ==
  /\ e \notin created
  /\ Call(t, tl, e)
  /\ created' = created \cup {e}
  /\ UNCHANGED <<status, flushes>>

BeginFlush(t, tl) ==
  /\ flushes < MaxFlushes
  /\ Call(t, tl, NoEvent)
  /\ flushes' = flushes + 1
  /\ UNCHANGED <<status, created>>

\* ht_timeline_destroy: the caller guarantees that no other thread is, or
\* will be, inside a function of this timeline.
BeginDestroy(t, tl) ==
  /\ \A u \in Threads : pc[u] # "idle" => target[u] # tl
  /\ Call(t, tl, NoEvent)
  /\ status' = [status EXCEPT ![tl] = "closing"]
  /\ UNCHANGED <<created, flushes>>

\* Faulty variants of MustFlush: one byte too late; not for an event that will
\* never fit; not for an explicit flush.
MustFlushLate(t) ==
  /\ usage[target[t]] > 0
  /\ event[t] # NoEvent => Capacity + 1 < usage[target[t]] + Size[event[t]]

MustFlushFitting(t) ==
  /\ usage[target[t]] > 0
  /\ event[t] # NoEvent =>
       /\ Capacity < usage[target[t]] + Size[event[t]]
       /\ Size[event[t]] <= Capacity

MustFlushOnPush(t) ==
  /\ event[t] # NoEvent
  /\ usage[target[t]] > 0
  /\ Capacity < usage[target[t]] + Size[event[t]]

\* Whether the call of thread t starts by handing the buffer to the
\* listeners: the explicit flushes always ask for it, a push only when its
\* event does not fit; _ht_timeline_flush does nothing for an empty buffer.
MustFlush(t) ==
  LET tl == target[t] IN
  /\ usage[tl] > 0
  /\ event[t] # NoEvent => Capacity < usage[tl] + Size[event[t]]

\* Where the call continues once the buffer has been dealt with.
AfterFlush(t) == IF event[t] = NoEvent THEN "release" ELSE "place"

\* _TIMELINE_LOCK(timeline, lock), and the decision whether to flush.
Acquire(t) ==
  LET tl == target[t] IN
  /\ pc[t] = "lock"
  /\ ThreadSafe => lock[tl] = NoThread
  /\ lock' = IF ThreadSafe THEN [lock EXCEPT ![tl] = t] ELSE lock
  /\ pc' = [pc EXCEPT ![t] = IF MustFlush(t) THEN "flush" ELSE AfterFlush(t)]
  /\ idx' = [idx EXCEPT ![t] = 1]
  /\ UNCHANGED <<buffer, usage, status, entries, refcount, registry, target,
                 event, created, flushes, history>>

\* Faulty variant of Notify: the loop variable is not advanced.
NotifyAgain(t, events) ==
  /\ idx[t] <= Len(entries)
  /\ \A l \in Listeners : Len(received[l][target[t]]) < 4
  /\ received' = [received EXCEPT ![entries[idx[t]]][target[t]] = @ \o events]
  /\ UNCHANGED <<lock, buffer, usage, status, entries, refcount, registry, pc,
                 target, event, idx, created, flushes, pushed, flushed, missed,
                 destroyed>>

\* One iteration of the loop in notify_listeners: the size of the bag is read
\* again before every callback, and the container's mutex is not taken.
Notify(t, events) ==
  /\ idx[t] <= Len(entries)
  /\ received' = [received EXCEPT ![entries[idx[t]]][target[t]] = @ \o events]
  /\ idx' = [idx EXCEPT ![t] = @ + 1]
  /\ UNCHANGED <<lock, buffer, usage, status, entries, refcount, registry, pc,
                 target, event, created, flushes, pushed, flushed, missed,
                 destroyed>>

FlushNotify(t) == pc[t] = "flush" /\ Notify(t, buffer[target[t]])

\* The loop has ended; buffer_usage = 0.
FlushDone(t) ==
  LET tl == target[t] IN
  /\ pc[t] = "flush"
  /\ idx[t] > Len(entries)
  /\ buffer' = [buffer EXCEPT ![tl] = << >>]
  /\ usage' = [usage EXCEPT ![tl] = 0]
  /\ flushed' = [flushed EXCEPT ![tl] = @ \o buffer[tl]]
  /\ pc' = [pc EXCEPT ![t] = AfterFlush(t)]
  /\ UNCHANGED <<lock, status, entries, refcount, registry, target, event, idx,
                 created, flushes, pushed, received, missed, destroyed>>

\* The event is serialized (or copied) behind the ones in the buffer.
PlaceInBuffer(t) ==
  LET tl == target[t]
      e == event[t] IN
  /\ pc[t] = "place"
  /\ Capacity >= Size[e]
  /\ buffer' = [buffer EXCEPT ![tl] = Append(@, e)]
  /\ usage' = [usage EXCEPT ![tl] = @ + Size[e]]
  /\ pushed' = [pushed EXCEPT ![tl] = Append(@, e)]
  /\ pc' = [pc EXCEPT ![t] = "release"]
  /\ UNCHANGED <<lock, status, entries, refcount, registry, target, event, idx,
                 created, flushes, flushed, received, missed, destroyed>>

\* An event larger than the whole buffer goes to the listeners at once.
PlaceDirect(t) ==
  LET tl == target[t]
      e == event[t] IN
  /\ pc[t] = "place"
  /\ Capacity < Size[e]
  /\ pushed' = [pushed EXCEPT ![tl] = Append(@, e)]
  /\ pc' = [pc EXCEPT ![t] = "direct"]
  /\ idx' = [idx EXCEPT ![t] = 1]
  /\ UNCHANGED <<lock, buffer, usage, status, entries, refcount, registry,
                 target, event, created, flushes, flushed, received, missed,
                 destroyed>>

DirectNotify(t) == pc[t] = "direct" /\ Notify(t, <<event[t]>>)

DirectDone(t) ==
  /\ pc[t] = "direct"
  /\ idx[t] > Len(entries)
  /\ flushed' = [flushed EXCEPT ![target[t]] = Append(@, event[t])]
  /\ pc' = [pc EXCEPT ![t] = "release"]
  /\ UNCHANGED <<lock, buffer, usage, status, entries, refcount, registry,
                 target, event, idx, created, flushes, pushed, received,
                 missed, destroyed>>

\* Faulty variant of Release: a push does not unlock.
ReleaseFlushOnly(t) ==
  LET tl == target[t] IN
  /\ pc[t] = "release"
  /\ lock' = IF ThreadSafe /\ event[t] = NoEvent
               THEN [lock EXCEPT ![tl] = NoThread] ELSE lock
  /\ pc' = [pc EXCEPT ![t] = IF status[tl] = "closing" THEN "teardown"
                                                       ELSE "idle"]
  /\ UNCHANGED <<buffer, usage, status, entries, refcount, registry, target,
                 event, idx, created, flushes, history>>

\* _TIMELINE_LOCK(timeline, unlock); ht_timeline_destroy goes on from here.
Release(t) ==
  LET tl == target[t] IN
  /\ pc[t] = "release"
  /\ lock' = IF ThreadSafe THEN [lock EXCEPT ![tl] = NoThread] ELSE lock
  /\ pc' = [pc EXCEPT ![t] = IF status[tl] = "closing" THEN "teardown"
                                                       ELSE "idle"]
  /\ UNCHANGED <<buffer, usage, status, entries, refcount, registry, target,
                 event, idx, created, flushes, history>>

\* Faulty variants of Unref: the last but one reference destroys the
\* listeners; nobody does.
UnrefEarly ==
  /\ refcount' = refcount - 1
  /\ IF refcount <= 2
       THEN /\ destroyed' = destroyed \cup {entries[i] : i \in DOMAIN entries}
            /\ entries' = << >>
       ELSE UNCHANGED <<destroyed, entries>>

UnrefTwice ==
  /\ refcount' = refcount - 2
  /\ UNCHANGED <<destroyed, entries>>

\* ht_timeline_listener_container_unref: the last reference destroys the
\* listeners.
Unref ==
  /\ refcount' = refcount - 1
  /\ IF refcount = 1
       THEN /\ destroyed' = destroyed \cup {entries[i] : i \in DOMAIN entries}
            /\ entries' = << >>
       ELSE UNCHANGED <<destroyed, entries>>

\* The rest of ht_timeline_destroy: free the buffer, drop the container.
Teardown(t) ==
  LET tl == target[t] IN
  /\ pc[t] = "teardown"
  /\ status' = [status EXCEPT ![tl] = "dead"]
  /\ Unref
  /\ pc' = [pc EXCEPT ![t] = "idle"]
  /\ UNCHANGED <<lock, buffer, usage, registry, target, event, idx, created,
                 flushes, pushed, flushed, received, missed>>

-----------------------------------------------------------------------------
\* The container.

\* ht_timeline_register_listener_full on a timeline that is still alive.  The
\* bag is changed under the container's mutex, which notify_listeners does not
\* take: registering while a loop reads the bag is a data race, so callers
\* register only while no timeline of the container is being flushed.
RegisterListener(l) ==
  /\ \A t \in Threads : pc[t] \notin {"flush", "direct"}
  /\ \E tl \in Timelines : status[tl] = "alive"
  /\ l \notin {entries[i] : i \in DOMAIN entries}
  /\ entries' = Append(entries, l)
  /\ missed' = [missed EXCEPT ![l] = flushed]
  /\ UNCHANGED <<lock, buffer, usage, status, refcount, registry, calls,
                 created, flushes, pushed, flushed, received, destroyed>>

\* ht_registry_deinit drops the registry's reference.
RegistryDeinit ==
  /\ registry = 1
  /\ registry' = 0
  /\ Unref
  /\ UNCHANGED <<lock, buffer, usage, status, calls, created, flushes, pushed,
                 flushed, received, missed>>

Step(t) ==
  \/ Acquire(t)
  \/ FlushNotify(t)
  \/ FlushDone(t)
  \/ PlaceInBuffer(t)
  \/ PlaceDirect(t)
  \/ DirectNotify(t)
  \/ DirectDone(t)
  \/ Release(t)
  \/ Teardown(t)

Next ==
  \/ \E t \in Threads, tl \in Timelines :
       \/ \E e \in Events : BeginPush(t, tl, e)
       \/ BeginFlush(t, tl)
       \/ BeginDestroy(t, tl)
  \/ \E t \in Threads : Step(t)
  \/ \E l \in Listeners : RegisterListener(l)
  \/ RegistryDeinit

Spec == Init /\ [][Next]_vars

\* A thread inside a call keeps running; nothing obliges it to start one.
FairSpec == Spec /\ \A t \in Threads : WF_vars(Step(t))

-----------------------------------------------------------------------------
\* Properties.

\* Thread t is inside the critical section of timeline tl.
Inside(t, tl) ==
  pc[t] \in {"flush", "place", "direct", "release"} /\ target[t] = tl

\* The notification loop running on tl has already served entry i.
Served(i, tl) ==
  \E t \in Threads :
    pc[t] \in {"flush", "direct"} /\ target[t] = tl /\ i < idx[t]

\* The accepted events of tl whose notification loop has not ended.
Pending(tl) ==
  IF \E t \in Threads : pc[t] = "direct" /\ target[t] = tl
    THEN <<event[CHOOSE t \in Threads : pc[t] = "direct" /\ target[t] = tl]>>
    ELSE buffer[tl]

\* At most one thread at a time works on a timeline's buffer: through
\* locking_policy, or because the caller keeps a timeline to one thread.
MutualExclusion ==
  \A tl \in Timelines, t, u \in Threads :
    Inside(t, tl) /\ Inside(u, tl) => t = u

\* ht_timeline_push_event never stores an event past the end of the buffer,
\* whichever thread pushed what before: buffer_usage <= buffer_capacity.
BufferBounded == \A tl \in Timelines : usage[tl] <= Capacity

\* Every registered listener has got, for every timeline, exactly the events
\* the timeline accepted after the last flush before the registration, in the
\* order of acceptance, up to the ones it is still owed: none lost, none
\* twice, none overtaken by an event too large for the buffer.
InOrderDelivery ==
  \A i \in DOMAIN entries, tl \in Timelines :
    LET l == entries[i]
        owed == IF Served(i, tl) THEN << >> ELSE Pending(tl)
    IN missed[l][tl] \o received[l][tl] \o owed = pushed[tl]

\* When ht_timeline_destroy has returned, every listener has got everything
\* the timeline ever accepted since it registered.
NothingLostAtDestroy ==
  \A tl \in Timelines : status[tl] = "dead" =>
    \A l \in destroyed \cup {entries[i] : i \in DOMAIN entries} :
      missed[l][tl] \o received[l][tl] = pushed[tl]

\* The shared container keeps its listeners until the last timeline that
\* notifies them is destroyed, and the registry has let go of it.
ListenersOutliveTimelines ==
  destroyed # {} => registry = 0 /\ \A tl \in Timelines : status[tl] = "dead"

\* Every call returns: no thread waits forever for a timeline's mutex, and
\* every notification loop comes to its end.
CallsReturn == \A t \in Threads : pc[t] # "idle" ~> pc[t] = "idle"

\* The timelines implement one ordered stream per timeline and listener.
Stream == INSTANCE EventStream
            WITH Streams <- Timelines, log <- pushed, got <- received
StreamSpec == Stream!Spec

-----------------------------------------------------------------------------
\* The inductive invariant behind the safety properties.

\* A thread inside a call works on a timeline it may use and that has not
\* been destroyed; inside the critical section it holds the mutex, if any.
CallInv ==
  \A t \in Threads : pc[t] # "idle" =>
    /\ <<t, target[t]>> \in MayUse
    /\ status[target[t]] # "dead"
    /\ Inside(t, target[t]) /\ ThreadSafe => lock[target[t]] = t

\* A timeline being destroyed belongs to the thread that destroys it.
ClosingInv ==
  \A t \in Threads : pc[t] # "idle" =>
    /\ pc[t] = "teardown" => status[target[t]] = "closing"
    /\ status[target[t]] = "closing" =>
         /\ event[t] = NoEvent
         /\ \A u \in Threads : pc[u] # "idle" /\ target[u] = target[t] => u = t

\* What the steps of a call know about the buffer: it is empty when the loop
\* of an explicit flush is over and when an event is delivered directly, and
\* has room for an event that is about to be stored.
BufferInv ==
  /\ \A tl \in Timelines : usage[tl] = 0 => buffer[tl] = << >>
  /\ \A tl \in Timelines : status[tl] = "dead" => buffer[tl] = << >>
  /\ \A t \in Threads :
       LET tl == target[t] IN
       /\ pc[t] \in {"place", "direct"} => event[t] \in Events
       /\ pc[t] = "place" => usage[tl] = 0 \/ usage[tl] + Size[event[t]] <= Capacity
       /\ pc[t] = "place" /\ Capacity < Size[event[t]] => buffer[tl] = << >>
       /\ pc[t] = "direct" => buffer[tl] = << >>
       /\ pc[t] \in {"release", "teardown"} /\ event[t] = NoEvent =>
            buffer[tl] = << >>

\* The loop variable stays within the bag, and a listener is in it once.
LoopInv ==
  /\ \A t \in Threads :
       pc[t] \in {"flush", "direct"} => idx[t] \in 1..(Len(entries) + 1)
  /\ \A i, j \in DOMAIN entries : entries[i] = entries[j] => i = j

\* The reference count counts the holders of the container.
RefInv ==
  refcount = Cardinality({tl \in Timelines : status[tl] # "dead"}) + registry

\* Accepted events are the flushed ones followed by the buffer or, while an
\* event is delivered directly, by that event.
AcceptedInv ==
  /\ \A tl \in Timelines :
       (\A t \in Threads : pc[t] = "direct" => target[t] # tl) =>
         pushed[tl] = flushed[tl] \o buffer[tl]
  /\ \A t \in Threads : pc[t] = "direct" =>
       pushed[target[t]] = Append(flushed[target[t]], event[t])

\* A listener has got all accepted events, or all the flushed ones.
DeliveredInv ==
  \A i \in DOMAIN entries, tl \in Timelines :
    missed[entries[i]][tl] \o received[entries[i]][tl] =
      IF Served(i, tl) THEN pushed[tl] ELSE flushed[tl]

\* A listener that was never registered has got nothing, one that was
\* destroyed has got everything.
OutsiderInv ==
  /\ \A l \in Listeners, tl \in Timelines :
       l \notin destroyed /\ (\A i \in DOMAIN entries : entries[i] # l) =>
         received[l][tl] = << >>
  /\ \A l \in destroyed, tl \in Timelines :
       missed[l][tl] \o received[l][tl] = pushed[tl]

\* The inductive invariant: where each thread is, what the buffers hold, how
\* many references are left and how far each listener has been served.
IInv ==
  /\ TypeOK
  /\ CallInv
  /\ ClosingInv
  /\ BufferBounded
  /\ BufferInv
  /\ LoopInv
  /\ RefInv
  /\ ListenersOutliveTimelines
  /\ AcceptedInv
  /\ DeliveredInv
  /\ OutsiderInv

=============================================================================
