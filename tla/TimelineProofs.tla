--------------------------- MODULE TimelineProofs ---------------------------
(***************************************************************************)
(* Proofs about Timeline, for every set of threads, timelines, listeners   *)
(* and events and every buffer capacity: the facts the proofs share, the   *)
(* types, the calls with their buffers, the listener container, the events *)
(* a timeline accepts and its listeners get, and the theorems that follow  *)
(* from the inductive invariant.  What is accepted is the flushed events,  *)
(* then the buffer or the event being delivered directly.                  *)
(***************************************************************************)
EXTENDS Timeline, FiniteSetTheorems, TLAPS

\* Sequences, in the form the provers use them.
LEMMA SeqFacts ==
  ASSUME NEW S, NEW s \in Seq(S)
  PROVE  Len(s) \in Nat /\ DOMAIN s = 1..Len(s) /\ \A k \in 1..Len(s) : s[k] \in S
OBVIOUS

LEMMA AppendFacts ==
  ASSUME NEW S, NEW s \in Seq(S), NEW x \in S
  PROVE  /\ Append(s, x) \in Seq(S) /\ Len(Append(s, x)) = Len(s) + 1
         /\ Append(s, x) = s \o <<x>>
         /\ \A k \in 1..Len(s) : Append(s, x)[k] = s[k]
         /\ Append(s, x)[Len(s) + 1] = x
OBVIOUS

LEMMA SameSeq ==
  ASSUME NEW S, NEW s \in Seq(S), NEW t \in Seq(S), Len(s) = Len(t),
         \A k \in 1..Len(t) : s[k] = t[k]
  PROVE  s = t
OBVIOUS

LEMMA CatFacts ==
  ASSUME NEW S, NEW s \in Seq(S), NEW t \in Seq(S)
  PROVE  s \o t \in Seq(S) /\ Len(s \o t) = Len(s) + Len(t)
OBVIOUS

LEMMA CatEmpty ==
  ASSUME NEW S, NEW s \in Seq(S)
  PROVE  s \o << >> = s /\ << >> \o s = s
OBVIOUS

LEMMA CatAssoc ==
  ASSUME NEW S, NEW s \in Seq(S), NEW t \in Seq(S), NEW u \in Seq(S)
  PROVE  (s \o t) \o u = s \o (t \o u)
BY SMTT(60)

\* The timeline a busy thread works on, and the type of its call.
LEMMA BusyType ==
  ASSUME IInv, NEW t \in Threads, pc[t] # "idle"
  PROVE  /\ target[t] \in Timelines
         /\ <<t, target[t]>> \in MayUse
         /\ status[target[t]] # "dead"
         /\ pc[t] \in {"place", "direct"} => event[t] \in Events
BY TimelineAssumption, Zenon DEF IInv, TypeOK, CallInv, BufferInv

\* No two threads are inside the critical section of one timeline.
LEMMA InsideUnique ==
  ASSUME IInv, NEW tl \in Timelines, NEW t \in Threads, NEW u \in Threads,
         Inside(t, tl), Inside(u, tl)
  PROVE  t = u
<1>1. /\ target[t] = tl /\ target[u] = tl
      /\ pc[t] # "idle" /\ pc[u] # "idle"
  BY Zenon DEF Inside
<1>2. CASE ThreadSafe
  BY <1>1, <1>2, Zenon DEF IInv, CallInv
<1>3. CASE ~ThreadSafe
  BY <1>1, <1>3, TimelineAssumption, Zenon DEF IInv, CallInv
<1>4. QED BY <1>2, <1>3, Zenon

\* No other thread is past the mutex of the timeline thread t works on.
LEMMA OthersElsewhere ==
  ASSUME IInv, NEW t \in Threads, Inside(t, target[t]),
         NEW u \in Threads, u # t,
         pc[u] \in {"flush", "place", "direct", "release", "teardown"}
  PROVE  target[u] # target[t]
<1> SUFFICES ASSUME target[u] = target[t] PROVE FALSE
  BY Zenon
<1>1. target[t] \in Timelines /\ pc[t] # "idle" /\ pc[u] # "idle"
  BY BusyType, Zenon DEF Inside
<1>2. CASE pc[u] = "teardown"
  BY <1>1, <1>2, Zenon DEF IInv, ClosingInv
<1>3. CASE pc[u] # "teardown"
  BY <1>1, <1>3, InsideUnique, Zenon DEF Inside
<1>4. QED BY <1>2, <1>3, Zenon

\* While thread t works on its timeline nobody else does: the loops of other
\* threads run over other timelines.
LEMMA OtherLoops ==
  ASSUME IInv, NEW t \in Threads, Inside(t, target[t]),
         NEW u \in Threads, pc[u] \in {"flush", "direct"}
  PROVE  u = t \/ target[u] # target[t]
BY OthersElsewhere, Zenon

\* No call, buffer, mutex or timeline is touched.
Quiet == UNCHANGED <<lock, buffer, usage, status, pc, target, event, pushed, flushed>>

\* The callbacks of the listeners, the registration of one and
\* ht_registry_deinit are such steps.
LEMMA QuietSteps ==
  /\ \A t \in Threads : FlushNotify(t) \/ DirectNotify(t) => Quiet
  /\ \A l \in Listeners : RegisterListener(l) => Quiet
  /\ RegistryDeinit => Quiet
  /\ UNCHANGED vars => Quiet
<1>1. \A t \in Threads : FlushNotify(t) \/ DirectNotify(t) => Quiet
  BY Zenon DEF FlushNotify, DirectNotify, Notify, Quiet
<1>2. \A l \in Listeners : RegisterListener(l) => Quiet
  BY Zenon DEF RegisterListener, Quiet, calls
<1>3. RegistryDeinit => Quiet
  BY Zenon DEF RegistryDeinit, Quiet, calls
<1>4. UNCHANGED vars => Quiet
  BY Zenon DEF vars, Quiet, calls, history
<1>5. QED BY <1>1, <1>2, <1>3, <1>4, Zenon

\* One callback extends what its listener has got of its timeline.
LEMMA NotifyType ==
  ASSUME TypeOK, NEW t \in Threads, NEW events \in Seq(Events),
         target[t] \in Timelines, Notify(t, events)
  PROVE  received' \in [Listeners -> [Timelines -> Seq(Events)]]
<1> DEFINE l == entries[idx[t]]
           tl == target[t]
<1>1. l \in Listeners
  BY SMTT(60) DEF TypeOK, Notify
<1>2. received[l][tl] \o events \in Seq(Events)
  BY <1>1, CatFacts, SMTT(60) DEF TypeOK
<1>3. received' = [received EXCEPT ![l][tl] = received[l][tl] \o events]
  BY Zenon DEF Notify
<1> HIDE DEF l, tl
<1>4. QED
  BY <1>1, <1>2, <1>3, ZenonT(60) DEF TypeOK

\* One callback of notify_listeners changes nothing but what its listener has
\* got and the loop index, which stays within the bag.
LEMMA NotifyRest ==
  ASSUME TypeOK, NEW t \in Threads, NEW events, Notify(t, events)
  PROVE  /\ idx' = [idx EXCEPT ![t] = @ + 1]
         /\ idx' \in [Threads -> Nat \ {0}]
         /\ idx[t] \in 1..Len(entries)
         /\ entries[idx[t]] \in Listeners
         /\ UNCHANGED <<lock, buffer, usage, status, entries, refcount, registry,
                        pc, target, event, created, flushes, pushed, flushed,
                        missed, destroyed>>
BY DEF Notify, TypeOK

\* The container has at least the reference that is being dropped.
LEMMA UnrefType ==
  ASSUME IInv, (\E tl \in Timelines : status[tl] # "dead") \/ registry = 1
  PROVE  /\ refcount \in Nat /\ refcount >= 1
         /\ Unref => /\ refcount' \in Nat
                     /\ entries' \in Seq(Listeners)
                     /\ destroyed' \subseteq Listeners
<1> DEFINE Alive == {tl \in Timelines : status[tl] # "dead"}
<1>1. IsFiniteSet(Alive) /\ Cardinality(Alive) \in Nat
  BY TimelineAssumption, FS_Subset, FS_CardinalityType, Zenon
<1>2. Alive # {} => Cardinality(Alive) >= 1
  BY <1>1, FS_EmptySet, SMTT(60)
<1>3. refcount = Cardinality(Alive) + registry /\ registry \in {0, 1}
  BY Zenon DEF IInv, TypeOK, RefInv
<1> HIDE DEF Alive
<1>4. registry = 1 \/ Alive # {}
  BY Zenon DEF Alive
<1>5. refcount \in Nat /\ refcount >= 1
  BY <1>1, <1>2, <1>3, <1>4
<1>6. ASSUME Unref
      PROVE  /\ refcount' \in Nat
             /\ entries' \in Seq(Listeners)
             /\ destroyed' \subseteq Listeners
  <2>1. {entries[i] : i \in DOMAIN entries} \subseteq Listeners
    BY DEF IInv, TypeOK
  <2>2. CASE refcount = 1
    BY <1>5, <1>6, <2>1, <2>2, SMTT(60) DEF Unref, IInv, TypeOK
  <2>3. CASE refcount # 1
    BY <1>5, <1>6, <2>3, SMTT(60) DEF Unref, IInv, TypeOK
  <2>4. QED BY <2>2, <2>3, Zenon
<1>7. QED BY <1>5, <1>6, Zenon

\* Every function of the timeline and of the container keeps the types.
LEMMA TypeStep == IInv /\ [Next]_vars => TypeOK'
<1> SUFFICES ASSUME IInv, [Next]_vars PROVE TypeOK' BY Zenon
<1> USE TimelineAssumption DEF TypeOK, history, calls, PCs
<1>t. TypeOK BY Zenon DEF IInv
<1>1. ASSUME NEW t \in Threads, NEW tl \in Timelines, NEW e \in Events,
             BeginPush(t, tl, e)
      PROVE  TypeOK'
  BY <1>1, <1>t, Zenon DEF BeginPush, Call
<1>2. ASSUME NEW t \in Threads, NEW tl \in Timelines, BeginFlush(t, tl)
      PROVE  TypeOK'
  BY <1>2, <1>t, SMTT(60) DEF BeginFlush, Call
<1>3. ASSUME NEW t \in Threads, NEW tl \in Timelines, BeginDestroy(t, tl)
      PROVE  TypeOK'
  BY <1>3, <1>t, Zenon DEF BeginDestroy, Call
<1>4. ASSUME NEW t \in Threads, Acquire(t)
      PROVE  TypeOK'
  <2>1. PICK next \in {"flush", "release", "place"} : pc' = [pc EXCEPT ![t] = next]
    BY <1>4, Zenon DEF Acquire, AfterFlush
  <2>2. pc' \in [Threads -> PCs]
    BY <2>1, <1>t, Zenon
  <2>3. lock' \in [Timelines -> Threads \cup {NoThread}]
    BY <1>4, <1>t, Zenon DEF Acquire
  <2>4. QED
    BY <2>2, <2>3, <1>4, <1>t, SMTT(60) DEF Acquire
<1>5. ASSUME NEW t \in Threads, FlushNotify(t)
      PROVE  TypeOK'
  <2>1. target[t] \in Timelines
    BY <1>5, BusyType, Zenon DEF FlushNotify
  <2>2. buffer[target[t]] \in Seq(Events)
    BY <2>1, <1>t, Zenon
  <2>3. received' \in [Listeners -> [Timelines -> Seq(Events)]]
    BY <2>1, <2>2, <1>5, <1>t, NotifyType, ZenonT(60) DEF FlushNotify
  <2>4. QED
    BY <2>3, <1>5, <1>t, NotifyRest, ZenonT(60) DEF FlushNotify
<1>6. ASSUME NEW t \in Threads, FlushDone(t)
      PROVE  TypeOK'
  <2>1. target[t] \in Timelines
    BY <1>6, BusyType, Zenon DEF FlushDone
  <2>2. flushed[target[t]] \o buffer[target[t]] \in Seq(Events)
    BY <2>1, <1>t, CatFacts, SMTT(60)
  <2>3. QED
    BY <2>1, <2>2, <1>6, <1>t, SMTT(60) DEF FlushDone, AfterFlush
<1>7. ASSUME NEW t \in Threads, PlaceInBuffer(t)
      PROVE  TypeOK'
  <2>1. target[t] \in Timelines /\ event[t] \in Events
    BY <1>7, BusyType, Zenon DEF PlaceInBuffer
  <2>2. pushed' \in [Timelines -> Seq(Events)] /\ buffer' \in [Timelines -> Seq(Events)]
    BY <2>1, <1>7, <1>t, SMTT(60) DEF PlaceInBuffer
  <2>3. usage' \in [Timelines -> Nat]
    BY <2>1, <1>7, <1>t, SMTT(60) DEF PlaceInBuffer
  <2>4. QED
    BY <2>2, <2>3, <1>7, <1>t, Zenon DEF PlaceInBuffer
<1>7a. ASSUME NEW t \in Threads, PlaceDirect(t)
      PROVE  TypeOK'
  <2>1. target[t] \in Timelines /\ event[t] \in Events
    BY <1>7a, BusyType, Zenon DEF PlaceDirect
  <2>2. QED
    BY <2>1, <1>7a, <1>t, SMTT(60) DEF PlaceDirect
<1>8. ASSUME NEW t \in Threads, DirectNotify(t)
      PROVE  TypeOK'
  <2>1. target[t] \in Timelines /\ event[t] \in Events
    BY <1>8, BusyType, Zenon DEF DirectNotify
  <2>2. <<event[t]>> \in Seq(Events)
    BY <2>1
  <2>3. received' \in [Listeners -> [Timelines -> Seq(Events)]]
    BY <2>1, <2>2, <1>8, <1>t, NotifyType, ZenonT(60) DEF DirectNotify
  <2>4. QED
    BY <2>3, <1>8, <1>t, NotifyRest, Zenon DEF DirectNotify
<1>9. ASSUME NEW t \in Threads, DirectDone(t)
      PROVE  TypeOK'
  <2>1. target[t] \in Timelines /\ event[t] \in Events
    BY <1>9, BusyType, Zenon DEF DirectDone
  <2>2. QED
    BY <2>1, <1>9, <1>t, SMTT(60) DEF DirectDone
<1>10. ASSUME NEW t \in Threads, Release(t)
      PROVE  TypeOK'
  <2>1. target[t] \in Timelines
    BY <1>10, BusyType, Zenon DEF Release
  <2>2. QED
    BY <2>1, <1>10, <1>t, Zenon DEF Release
<1>11. ASSUME NEW t \in Threads, Teardown(t)
      PROVE  TypeOK'
  <2>1. target[t] \in Timelines /\ status[target[t]] # "dead" /\ Unref
    BY <1>11, BusyType, ZenonT(60) DEF Teardown
  <2>2. QED
    BY <2>1, <1>11, <1>t, UnrefType, Zenon DEF Teardown
<1>12. ASSUME NEW l \in Listeners, RegisterListener(l)
      PROVE  TypeOK'
  BY <1>12, <1>t, SMTT(60) DEF RegisterListener
<1>13. CASE RegistryDeinit
  BY <1>13, <1>t, UnrefType, Zenon DEF RegistryDeinit
<1>14. CASE UNCHANGED vars
  BY <1>14, <1>t, Zenon DEF vars
<1>15. QED
  BY <1>1, <1>2, <1>3, <1>4, <1>5, <1>6, <1>7, <1>8, <1>9, <1>10, <1>11,
     <1>12, <1>13, <1>14, <1>7a, ZenonT(60), Zenon, ZenonT(60), ZenonT(60) DEF Next, Step

-----------------------------------------------------------------------------
\* The calls of a timeline: who is inside them, who holds the mutex, who
\* destroys, and what the buffer holds meanwhile.

\* CallInv: calls are made on live timelines, and whoever works on the buffer
\* of a thread-safe timeline holds its mutex.
LEMMA CallStep == IInv /\ [Next]_vars => CallInv'
<1> SUFFICES ASSUME IInv, [Next]_vars PROVE CallInv' BY Zenon
<1> USE TimelineAssumption DEF CallInv, Inside, history, calls
<1>t. TypeOK /\ CallInv /\ ClosingInv
  BY Zenon DEF IInv
<1> USE DEF TypeOK
<1>1. ASSUME NEW t \in Threads, NEW tl \in Timelines, NEW e \in Events \cup {NoEvent},
             Call(t, tl, e),
             \/ UNCHANGED status
             \/ status' = [status EXCEPT ![tl] = "closing"]
      PROVE  CallInv'
  BY <1>1, <1>t, ZenonT(60) DEF Call
<1>2. ASSUME NEW t \in Threads, Acquire(t)
      PROVE  CallInv'
  <2>1. \A u \in Threads : Inside(u, target[t]) /\ ThreadSafe => FALSE
    BY <1>2, <1>t, ZenonT(60) DEF Acquire
  <2>2. PICK next \in {"flush", "release", "place"} : pc' = [pc EXCEPT ![t] = next]
    BY <1>2, Zenon DEF Acquire, AfterFlush
  <2>3. target[t] \in Timelines
    BY <1>2, BusyType, Zenon DEF Acquire
  <2>4. QED
    BY <2>1, <2>2, <2>3, <1>2, <1>t, SMTT(60) DEF Acquire
<1>3. ASSUME Quiet
      PROVE  CallInv'
  BY <1>3, <1>t, Zenon DEF Quiet
<1>4. ASSUME NEW t \in Threads, FlushDone(t)
      PROVE  CallInv'
  BY <1>4, <1>t, Zenon DEF FlushDone, AfterFlush
<1>5. ASSUME NEW t \in Threads, PlaceInBuffer(t)
      PROVE  CallInv'
  BY <1>5, <1>t, Zenon DEF PlaceInBuffer
<1>6. ASSUME NEW t \in Threads, PlaceDirect(t)
      PROVE  CallInv'
  BY <1>6, <1>t, Zenon DEF PlaceDirect
<1>7. ASSUME NEW t \in Threads, DirectDone(t)
      PROVE  CallInv'
  BY <1>7, <1>t, ZenonT(60) DEF DirectDone
<1>8. ASSUME NEW t \in Threads, Release(t)
      PROVE  CallInv'
  <2>1. target[t] \in Timelines
    BY <1>8, BusyType, Zenon DEF Release
  <2>2. \A u \in Threads : Inside(u, target[t]) => u = t
    BY <2>1, <1>8, InsideUnique, Zenon DEF Release
  <2>3. PICK next \in {"teardown", "idle"} : pc' = [pc EXCEPT ![t] = next]
    BY <1>8, Zenon DEF Release
  <2>4. QED
    BY <2>1, <2>2, <2>3, <1>8, <1>t, SMTT(60) DEF Release
<1>9. ASSUME NEW t \in Threads, Teardown(t)
      PROVE  CallInv'
  <2>1. target[t] \in Timelines
    BY <1>9, BusyType, Zenon DEF Teardown
  <2>2. \A u \in Threads : pc[u] # "idle" /\ target[u] = target[t] => u = t
    BY <1>9, <1>t, Zenon DEF Teardown, ClosingInv
  <2>3. QED
    BY <2>1, <2>2, <1>9, <1>t, ZenonT(60) DEF Teardown
<1>10. QED
  BY <1>1, <1>2, <1>3, <1>4, <1>5, <1>6, <1>7, <1>8, <1>9, QuietSteps, ZenonT(60)
     DEF Next, Step, BeginPush, BeginFlush, BeginDestroy

\* ClosingInv: ht_timeline_destroy runs alone on its timeline.
LEMMA ClosingStep == IInv /\ [Next]_vars => ClosingInv'
<1> SUFFICES ASSUME IInv, [Next]_vars PROVE ClosingInv' OBVIOUS
<1> USE TimelineAssumption DEF ClosingInv, history, calls
<1>t. TypeOK /\ ClosingInv
  BY Zenon DEF IInv
<1> USE DEF TypeOK
<1>1. ASSUME NEW t \in Threads, NEW tl \in Timelines, NEW e \in Events \cup {NoEvent},
             Call(t, tl, e), UNCHANGED status
      PROVE  ClosingInv'
  BY <1>1, <1>t, SMTT(60) DEF Call
<1>2. ASSUME NEW t \in Threads, NEW tl \in Timelines, BeginDestroy(t, tl)
      PROVE  ClosingInv'
  BY <1>2, <1>t, SMTT(60) DEF BeginDestroy, Call
<1>3. ASSUME NEW t \in Threads, Acquire(t)
      PROVE  ClosingInv'
  <2>1. PICK next \in {"flush", "release", "place"} : pc' = [pc EXCEPT ![t] = next]
    BY <1>3, Zenon DEF Acquire, AfterFlush
  <2>2. QED
    BY <2>1, <1>3, <1>t, SMTT(60) DEF Acquire
<1>4. ASSUME Quiet
      PROVE  ClosingInv'
  BY <1>4, <1>t, Zenon DEF Quiet
<1>5. ASSUME NEW t \in Threads, FlushDone(t)
      PROVE  ClosingInv'
  BY <1>5, <1>t, ZenonT(60) DEF FlushDone, AfterFlush
<1>6. ASSUME NEW t \in Threads, PlaceInBuffer(t)
      PROVE  ClosingInv'
  BY <1>6, <1>t, ZenonT(60) DEF PlaceInBuffer
<1>7. ASSUME NEW t \in Threads, PlaceDirect(t)
      PROVE  ClosingInv'
  BY <1>7, <1>t, SMTT(60) DEF PlaceDirect
<1>8. ASSUME NEW t \in Threads, DirectDone(t)
      PROVE  ClosingInv'
  BY <1>8, <1>t, SMTT(60) DEF DirectDone
<1>9. ASSUME NEW t \in Threads, Release(t)
      PROVE  ClosingInv'
  BY <1>9, <1>t, SMTT(60) DEF Release
<1>10. ASSUME NEW t \in Threads, Teardown(t)
      PROVE  ClosingInv'
  <2>1. target[t] \in Timelines
    BY <1>10, BusyType, Zenon DEF Teardown
  <2>2. \A u \in Threads : pc[u] # "idle" /\ target[u] = target[t] => u = t
    BY <1>10, <1>t, Zenon DEF Teardown
  <2>3. QED
    BY <2>1, <2>2, <1>10, <1>t, SMTT(60) DEF Teardown
<1>11. QED
  BY <1>1, <1>2, <1>3, <1>4, <1>5, <1>6, <1>7, <1>8, <1>9, <1>10, QuietSteps, ZenonT(60)
     DEF Next, Step, BeginPush, BeginFlush

\* BufferBounded and BufferInv: ht_timeline_push_event stores an event only
\* where it fits, and empties the buffer before an event too large for it.
LEMMA BufferStep == IInv /\ [Next]_vars => BufferBounded' /\ BufferInv'
<1> SUFFICES ASSUME IInv, [Next]_vars PROVE BufferBounded' /\ BufferInv' BY Zenon
<1> USE TimelineAssumption DEF BufferBounded, BufferInv, history, calls
<1>t. TypeOK /\ CallInv /\ ClosingInv /\ BufferBounded /\ BufferInv
  BY Zenon DEF IInv
<1> USE DEF TypeOK
<1>1. ASSUME NEW t \in Threads, NEW tl \in Timelines, NEW e \in Events \cup {NoEvent},
             Call(t, tl, e),
             \/ UNCHANGED status
             \/ status' = [status EXCEPT ![tl] = "closing"]
      PROVE  BufferBounded' /\ BufferInv'
  BY <1>1, <1>t, ZenonT(60) DEF Call
<1>2. ASSUME NEW t \in Threads, Acquire(t)
      PROVE  BufferBounded' /\ BufferInv'
  <2>1. target[t] \in Timelines /\ usage[target[t]] \in Nat
    BY <1>2, BusyType, <1>t, Zenon DEF Acquire
  <2>2. CASE MustFlush(t)
    <3>1. pc' = [pc EXCEPT ![t] = "flush"]
      BY <1>2, <2>2, Zenon DEF Acquire
    <3>2. QED
      BY <3>1, <1>2, <1>t, ZenonT(60) DEF Acquire
  <2>3. CASE ~MustFlush(t) /\ event[t] = NoEvent
    <3>1. pc' = [pc EXCEPT ![t] = "release"]
      BY <1>2, <2>3, Zenon DEF Acquire, AfterFlush
    <3>2. buffer[target[t]] = << >>
      BY <2>1, <2>3, <1>t, SMTT(60) DEF MustFlush
    <3>3. QED
      BY <3>1, <3>2, <1>2, <1>t, ZenonT(60) DEF Acquire
  <2>4. CASE ~MustFlush(t) /\ event[t] # NoEvent
    <3>1. pc' = [pc EXCEPT ![t] = "place"]
      BY <1>2, <2>4, Zenon DEF Acquire, AfterFlush
    <3>2. event[t] \in Events /\ Size[event[t]] \in Nat
      BY <2>4, <1>t, Zenon
    <3>3. \/ usage[target[t]] = 0
          \/ usage[target[t]] + Size[event[t]] <= Capacity
      BY <2>1, <2>4, <3>2, SMTT(60) DEF MustFlush
    <3>4. Capacity < Size[event[t]] => buffer[target[t]] = << >>
      BY <2>1, <3>2, <3>3, <1>t, SMTT(60)
    <3>5. QED
      BY <3>1, <3>2, <3>3, <3>4, <1>2, <1>t, ZenonT(60) DEF Acquire
  <2>5. QED BY <2>2, <2>3, <2>4, Zenon
<1>3. ASSUME Quiet
      PROVE  BufferBounded' /\ BufferInv'
  BY <1>3, <1>t, Zenon DEF Quiet
<1>4. ASSUME NEW t \in Threads, FlushDone(t)
      PROVE  BufferBounded' /\ BufferInv'
  <2>1. target[t] \in Timelines /\ Inside(t, target[t])
    BY <1>4, BusyType, Zenon DEF FlushDone, Inside
  <2>2. buffer'[target[t]] = << >> /\ usage'[target[t]] = 0
    BY <2>1, <1>4, <1>t, Zenon DEF FlushDone
  <2>3. \A tl \in Timelines \ {target[t]} :
          buffer'[tl] = buffer[tl] /\ usage'[tl] = usage[tl]
    BY <1>4, <1>t, Zenon DEF FlushDone
  <2>4. pc'[t] \in {"place", "release"} /\ (pc'[t] = "place" => event[t] \in Events)
    BY <1>4, <1>t, Zenon DEF FlushDone, AfterFlush
  <2>5. \A u \in Threads \ {t} :
          /\ pc'[u] = pc[u]
          /\ pc[u] \in {"place", "direct", "release", "teardown"} =>
               target[u] # target[t] /\ target[u] \in Timelines
    BY <2>1, <1>4, <1>t, OthersElsewhere, BusyType, ZenonT(60) DEF FlushDone
  <2>6. UNCHANGED <<target, event, status>>
    BY <1>4, Zenon DEF FlushDone
  <2>7. ASSUME NEW tl \in Timelines
        PROVE  /\ usage'[tl] <= Capacity
               /\ usage'[tl] = 0 => buffer'[tl] = << >>
               /\ status'[tl] = "dead" => buffer'[tl] = << >>
    <3>1. CASE tl = target[t]
      BY <3>1, <2>2, <2>3, <2>6, <1>t, SMTT(60)
    <3>2. CASE tl # target[t]
      BY <3>2, <2>2, <2>3, <2>6, <1>t, Zenon
    <3>3. QED BY <3>1, <3>2, Zenon
  <2>8. ASSUME NEW u \in Threads
        PROVE  /\ pc'[u] \in {"place", "direct"} => event[u] \in Events
               /\ pc'[u] = "place" =>
                    \/ usage'[target[u]] = 0
                    \/ usage'[target[u]] + Size[event[u]] <= Capacity
               /\ pc'[u] = "place" /\ Capacity < Size[event[u]] =>
                    buffer'[target[u]] = << >>
               /\ pc'[u] = "direct" => buffer'[target[u]] = << >>
               /\ pc'[u] \in {"release", "teardown"} /\ event[u] = NoEvent =>
                    buffer'[target[u]] = << >>
    <3>1. CASE u = t
      BY <3>1, <2>2, <2>4, ZenonT(60)
    <3>2. CASE u # t
      BY <3>2, <2>3, <2>5, <1>t, SMTT(60)
    <3>3. QED BY <3>1, <3>2, Zenon
  <2>9. QED
    BY <2>6, <2>7, <2>8, ZenonT(60)
<1>5. ASSUME NEW t \in Threads, PlaceInBuffer(t)
      PROVE  BufferBounded' /\ BufferInv'
  <2>1. /\ target[t] \in Timelines /\ Inside(t, target[t])
        /\ event[t] \in Events /\ status[target[t]] # "dead"
    BY <1>5, BusyType, ZenonT(60) DEF PlaceInBuffer, Inside
  <2>2. /\ Size[event[t]] \in Nat \ {0} /\ usage[target[t]] \in Nat
        /\ usage[target[t]] + Size[event[t]] <= Capacity
    BY <2>1, <1>5, <1>t, SMTT(60) DEF PlaceInBuffer
  <2>3. usage'[target[t]] = usage[target[t]] + Size[event[t]]
    BY <2>1, <1>5, <1>t, Zenon DEF PlaceInBuffer
  <2>4. \A tl \in Timelines \ {target[t]} :
          buffer'[tl] = buffer[tl] /\ usage'[tl] = usage[tl]
    BY <1>5, <1>t, Zenon DEF PlaceInBuffer
  <2>5. pc'[t] = "release" /\ event[t] # NoEvent
    BY <2>1, <1>5, <1>t, Zenon DEF PlaceInBuffer
  <2>6. \A u \in Threads \ {t} :
          /\ pc'[u] = pc[u]
          /\ pc[u] \in {"place", "direct", "release", "teardown"} =>
               target[u] # target[t] /\ target[u] \in Timelines
    BY <2>1, <1>5, <1>t, OthersElsewhere, BusyType, ZenonT(60) DEF PlaceInBuffer
  <2>7. UNCHANGED <<target, event, status>>
    BY <1>5, ZenonT(60) DEF PlaceInBuffer
  <2>8. ASSUME NEW tl \in Timelines
        PROVE  /\ usage'[tl] <= Capacity
               /\ usage'[tl] = 0 => buffer'[tl] = << >>
               /\ status'[tl] = "dead" => buffer'[tl] = << >>
    <3>1. CASE tl = target[t]
      BY <3>1, <2>1, <2>2, <2>3, <2>4, <2>7, <1>t, SMTT(60)
    <3>2. CASE tl # target[t]
      BY <3>2, <2>1, <2>2, <2>3, <2>4, <2>7, <1>t, ZenonT(60)
    <3>3. QED BY <3>1, <3>2, SMTT(60)
  <2>9. ASSUME NEW u \in Threads
        PROVE  /\ pc'[u] \in {"place", "direct"} => event[u] \in Events
               /\ pc'[u] = "place" =>
                    \/ usage'[target[u]] = 0
                    \/ usage'[target[u]] + Size[event[u]] <= Capacity
               /\ pc'[u] = "place" /\ Capacity < Size[event[u]] =>
                    buffer'[target[u]] = << >>
               /\ pc'[u] = "direct" => buffer'[target[u]] = << >>
               /\ pc'[u] \in {"release", "teardown"} /\ event[u] = NoEvent =>
                    buffer'[target[u]] = << >>
    <3>1. CASE u = t
      BY <3>1, <2>5, ZenonT(60)
    <3>2. CASE u # t
      BY <3>2, <2>4, <2>6, <1>t
    <3>3. QED BY <3>1, <3>2
  <2>10. QED
    BY <2>7, <2>8, <2>9, SMTT(60)
<1>6. ASSUME NEW t \in Threads, PlaceDirect(t)
      PROVE  BufferBounded' /\ BufferInv'
  BY <1>6, <1>t, Zenon DEF PlaceDirect
<1>7. ASSUME NEW t \in Threads, DirectDone(t)
      PROVE  BufferBounded' /\ BufferInv'
  BY <1>7, <1>t, Zenon DEF DirectDone
<1>8. ASSUME NEW t \in Threads, Release(t)
      PROVE  BufferBounded' /\ BufferInv'
  BY <1>8, <1>t, Zenon DEF Release
<1>9. ASSUME NEW t \in Threads, Teardown(t)
      PROVE  BufferBounded' /\ BufferInv'
  <2>1. target[t] \in Timelines /\ event[t] = NoEvent
    BY <1>9, <1>t, BusyType, ZenonT(60) DEF Teardown, ClosingInv
  <2>2. QED
    BY <2>1, <1>9, <1>t, Zenon DEF Teardown
<1>10. QED
  BY <1>1, <1>2, <1>3, <1>4, <1>5, <1>6, <1>7, <1>8, <1>9, QuietSteps, ZenonT(60)
     DEF Next, Step, BeginPush, BeginFlush, BeginDestroy

-----------------------------------------------------------------------------
\* The listener container shared by the timelines: its reference count, the
\* lifetime of the listeners and the loops over its bag.

\* The timelines that still hold a reference to the container.
Holders == {tl \in Timelines : status[tl] # "dead"}

\* RefInv, ht_timeline_listener_container_unref: every call of ht_timeline_destroy
\* and of ht_registry_deinit drops the one reference its caller holds.
LEMMA RefStep == IInv /\ [Next]_vars => RefInv'
<1> SUFFICES ASSUME IInv, [Next]_vars PROVE RefInv' OBVIOUS
<1> USE TimelineAssumption DEF RefInv, history, calls, Holders
<1>t. TypeOK /\ CallInv /\ ClosingInv /\ RefInv
  BY Zenon DEF IInv
<1>f. IsFiniteSet(Holders) /\ Cardinality(Holders) \in Nat
  BY FS_Subset, FS_CardinalityType, Zenon
<1> USE DEF TypeOK
<1>1. ASSUME NEW t \in Threads, NEW tl \in Timelines, NEW e \in Events \cup {NoEvent},
             Call(t, tl, e),
             \/ UNCHANGED status
             \/ status' = [status EXCEPT ![tl] = "closing"]
      PROVE  RefInv'
  <2>1. Holders' = Holders
    BY <1>1, <1>t, Zenon DEF Call
  <2>2. QED BY <2>1, <1>1, <1>t, Zenon DEF Call
<1>2. ASSUME UNCHANGED <<status, refcount, registry>>
      PROVE  RefInv'
  BY <1>2, <1>t, Zenon
<1>3. ASSUME NEW t \in Threads, Teardown(t)
      PROVE  RefInv'
  <2>1. target[t] \in Timelines /\ target[t] \in Holders
    BY <1>3, <1>t, BusyType, Zenon DEF Teardown
  <2>2. Holders' = Holders \ {target[t]}
    BY <2>1, <1>3, <1>t, Zenon DEF Teardown
  <2> HIDE DEF Holders
  <2>3. Cardinality(Holders') = Cardinality(Holders) - 1
    BY <2>1, <2>2, <1>f, FS_RemoveElement, Zenon
  <2>4. refcount' = refcount - 1 /\ registry' = registry
    BY <1>3, Zenon DEF Teardown, Unref
  <2>5. refcount = Cardinality(Holders) + registry
    BY <1>t, Zenon DEF Holders
  <2>6. registry \in {0, 1}
    BY <1>t, Zenon
  <2>7. refcount' = Cardinality(Holders') + registry'
    BY <2>3, <2>4, <2>5, <2>6, <1>f, SMTT(60)
  <2>8. QED BY <2>7, Zenon DEF Holders
<1>4. CASE RegistryDeinit
  <2>1. Holders' = Holders /\ refcount' = refcount - 1 /\ registry = 1 /\ registry' = 0
    BY <1>4, Zenon DEF RegistryDeinit, Unref
  <2>2. refcount = Cardinality(Holders) + registry
    BY <1>t, Zenon
  <2> HIDE DEF Holders
  <2>3. refcount' = Cardinality(Holders') + registry'
    BY <2>1, <2>2, <1>f, SMTT(60)
  <2>4. QED BY <2>3, Zenon DEF Holders
<1>5. QED
  BY <1>1, <1>2, <1>3, <1>4, ZenonT(60)
     DEF Next, Step, BeginPush, BeginFlush, BeginDestroy, Acquire, FlushNotify,
         DirectNotify, Notify, FlushDone, PlaceInBuffer, PlaceDirect, DirectDone,
         Release, RegisterListener, vars

\* When the reference a teardown drops is the last one, the registry has let go
\* of the container and every other timeline has been destroyed.
LEMMA LastTeardown ==
  ASSUME IInv, NEW t \in Threads, Teardown(t), refcount = 1
  PROVE  registry = 0 /\ \A tl \in Timelines : tl # target[t] => status[tl] = "dead"
<1>t. TypeOK /\ CallInv /\ RefInv
  BY Zenon DEF IInv
<1>1. IsFiniteSet(Holders) /\ Cardinality(Holders) \in Nat
  BY TimelineAssumption, FS_Subset, FS_CardinalityType, Zenon DEF Holders
<1>2. target[t] \in Timelines /\ target[t] \in Holders
  BY <1>t, BusyType, Zenon DEF Teardown, Holders
<1>3. /\ IsFiniteSet(Holders \ {target[t]})
      /\ Cardinality(Holders \ {target[t]}) = Cardinality(Holders) - 1
      /\ Cardinality(Holders \ {target[t]}) \in Nat
  BY <1>1, <1>2, FS_RemoveElement, FS_CardinalityType, Zenon
<1>4. 1 = Cardinality(Holders) + registry /\ registry \in {0, 1}
  BY <1>t, Zenon DEF RefInv, Holders, TypeOK
<1>5. registry = 0 /\ Cardinality(Holders \ {target[t]}) = 0
  BY <1>1, <1>3, <1>4, SMTT(60)
<1>6. Holders \ {target[t]} = {}
  BY <1>3, <1>5, FS_EmptySet, Zenon
<1>7. QED
  BY <1>5, <1>6, Zenon DEF Holders

\* When the registry drops the last reference every timeline has been destroyed.
LEMMA LastDeinit ==
  ASSUME IInv, RegistryDeinit, refcount = 1
  PROVE  \A tl \in Timelines : status[tl] = "dead"
<1>t. TypeOK /\ RefInv
  BY Zenon DEF IInv
<1>1. IsFiniteSet(Holders) /\ Cardinality(Holders) \in Nat
  BY TimelineAssumption, FS_Subset, FS_CardinalityType, Zenon DEF Holders
<1>2. 1 = Cardinality(Holders) + 1
  BY <1>t, Zenon DEF RefInv, Holders, TypeOK, RegistryDeinit
<1>3. Holders = {}
  BY <1>1, <1>2, FS_EmptySet, SMTT(60)
<1>4. QED
  BY <1>3, Zenon DEF Holders

\* No listener is destroyed while a timeline or the registry holds the container.
LEMMA OutliveStep == IInv /\ [Next]_vars => ListenersOutliveTimelines'
<1> SUFFICES ASSUME IInv, [Next]_vars PROVE ListenersOutliveTimelines' OBVIOUS
<1> USE TimelineAssumption DEF ListenersOutliveTimelines, history, calls
<1>t. TypeOK /\ CallInv /\ ListenersOutliveTimelines
  BY Zenon DEF IInv
<1> USE DEF TypeOK
<1>1. ASSUME NEW t \in Threads, NEW tl \in Timelines, NEW e \in Events \cup {NoEvent},
             Call(t, tl, e),
             \/ UNCHANGED status
             \/ status' = [status EXCEPT ![tl] = "closing"]
      PROVE  ListenersOutliveTimelines'
  BY <1>1, <1>t, Zenon DEF Call
<1>2. ASSUME UNCHANGED <<status, destroyed, registry>>
      PROVE  ListenersOutliveTimelines'
  BY <1>2, <1>t, Zenon
<1>3. ASSUME NEW t \in Threads, Teardown(t)
      PROVE  ListenersOutliveTimelines'
  <2>1. target[t] \in Timelines
    BY <1>3, <1>t, BusyType, Zenon DEF Teardown
  <2>2. CASE refcount = 1
    BY <2>1, <2>2, <1>3, <1>t, LastTeardown, ZenonT(60) DEF Teardown
  <2>3. CASE refcount # 1
    BY <2>1, <2>3, <1>3, <1>t, Zenon DEF Teardown, Unref
  <2>4. QED BY <2>2, <2>3, Zenon
<1>4. CASE RegistryDeinit
  <2>1. CASE refcount = 1
    BY <2>1, <1>4, <1>t, LastDeinit, Zenon DEF RegistryDeinit
  <2>2. CASE refcount # 1
    BY <2>2, <1>4, <1>t, Zenon DEF RegistryDeinit, Unref
  <2>3. QED BY <2>1, <2>2, Zenon
<1>5. QED
  BY <1>1, <1>2, <1>3, <1>4, ZenonT(60)
     DEF Next, Step, BeginPush, BeginFlush, BeginDestroy, Acquire, FlushNotify,
         DirectNotify, Notify, FlushDone, PlaceInBuffer, PlaceDirect, DirectDone,
         Release, RegisterListener, vars

\* While the container is emptied no notification loop runs over it.
LEMMA NoLoopAtLastUnref ==
  ASSUME IInv, refcount = 1,
         (\E t \in Threads : Teardown(t)) \/ RegistryDeinit
  PROVE  \A u \in Threads : pc[u] \notin {"flush", "place", "direct", "release"}
<1>t. TypeOK /\ CallInv /\ ClosingInv
  BY Zenon DEF IInv
<1> SUFFICES ASSUME NEW u \in Threads, pc[u] \in {"flush", "place", "direct", "release"}
             PROVE  FALSE
  BY Zenon
<1>1. target[u] \in Timelines /\ status[target[u]] # "dead" /\ pc[u] # "idle"
  BY <1>t, BusyType, Zenon DEF CallInv
<1>2. CASE RegistryDeinit
  BY <1>1, <1>2, LastDeinit, Zenon
<1>3. ASSUME NEW t \in Threads, Teardown(t)
      PROVE  FALSE
  <2>1. target[u] = target[t]
    BY <1>1, <1>3, LastTeardown, Zenon
  <2>2. pc[t] = "teardown" /\ u # t
    BY <1>3, Zenon DEF Teardown
  <2>3. QED
    BY <2>1, <2>2, <1>1, <1>t, Zenon DEF ClosingInv
<1>4. QED BY <1>2, <1>3, Zenon

\* LoopInv, notify_listeners: the loop index never leaves the bag, which only
\* grows while a loop runs.
LEMMA LoopStep == IInv /\ [Next]_vars => LoopInv'
<1> SUFFICES ASSUME IInv, [Next]_vars PROVE LoopInv' OBVIOUS
<1> USE TimelineAssumption DEF LoopInv, history, calls
<1>t. TypeOK /\ CallInv /\ LoopInv
  BY Zenon DEF IInv
<1> USE DEF TypeOK
<1>l. Len(entries) \in Nat /\ DOMAIN entries = 1..Len(entries)
  BY <1>t, SeqFacts, Zenon
<1>1. ASSUME NEW t \in Threads, UNCHANGED entries,
             \/ UNCHANGED <<pc, idx>>
             \/ /\ idx' = idx
                /\ \E next \in PCs \ {"flush", "direct"} : pc' = [pc EXCEPT ![t] = next]
             \/ /\ idx' = [idx EXCEPT ![t] = 1]
                /\ \E next \in PCs : pc' = [pc EXCEPT ![t] = next]
      PROVE  LoopInv'
  BY <1>1, <1>t, <1>l, SMTT(60)
<1>2. ASSUME NEW t \in Threads, FlushNotify(t) \/ DirectNotify(t)
      PROVE  LoopInv'
  <2>1. /\ UNCHANGED <<pc, entries>> /\ idx[t] <= Len(entries)
        /\ idx' = [idx EXCEPT ![t] = @ + 1]
    BY <1>2, Zenon DEF FlushNotify, DirectNotify, Notify
  <2>2. idx[t] \in Nat \ {0} /\ \A u \in Threads : u # t => idx'[u] = idx[u]
    BY <2>1, <1>t, Zenon
  <2>3. idx'[t] \in 1..(Len(entries) + 1)
    BY <2>1, <2>2, <1>t, <1>l, SMTT(60)
  <2>4. QED BY <2>1, <2>2, <2>3, <1>t, Zenon
<1>3. ASSUME NEW l \in Listeners, RegisterListener(l)
      PROVE  LoopInv'
  <2>1. /\ entries' = Append(entries, l) /\ UNCHANGED <<pc, idx>>
        /\ \A i \in DOMAIN entries : entries[i] # l
    BY <1>3, Zenon DEF RegisterListener
  <2>2. Len(entries') = Len(entries) + 1 /\ DOMAIN entries' = 1..(Len(entries) + 1)
    BY <2>1, <1>t, <1>l, SMTT(60)
  <2>3. /\ \A i \in 1..Len(entries) : entries'[i] = entries[i]
        /\ entries'[Len(entries) + 1] = l
    BY <2>1, <1>t, <1>l, SMTT(60)
  <2>4. \A i, j \in DOMAIN entries' : entries'[i] = entries'[j] => i = j
    BY <2>1, <2>2, <2>3, <1>t, <1>l, SMTT(60)
  <2>5. ASSUME NEW u \in Threads, pc'[u] \in {"flush", "direct"}
        PROVE  idx'[u] \in 1..(Len(entries') + 1)
    <3>1. idx[u] \in 1..(Len(entries) + 1)
      BY <2>1, <2>5, <1>t, Zenon
    <3>2. QED BY <3>1, <2>1, <2>2, <1>l, SMTT(60)
  <2>6. QED BY <2>4, <2>5, Zenon
<1>4. ASSUME NEW t \in Threads, Teardown(t) PROVE LoopInv'
  <2>1. idx' = idx /\ pc' = [pc EXCEPT ![t] = "idle"]
    BY <1>4, Zenon DEF Teardown
  <2>2. CASE refcount = 1
    <3>1. entries' = << >>
      BY <1>4, <2>2, Zenon DEF Teardown, Unref
    <3>2. \A u \in Threads : pc[u] \notin {"flush", "direct"}
      BY <1>4, <2>2, NoLoopAtLastUnref, Zenon
    <3>3. QED BY <2>1, <3>1, <3>2, <1>t, SMTT(60)
  <2>3. CASE refcount # 1
    BY <2>1, <2>3, <1>4, <1>t, <1>l, ZenonT(60) DEF Teardown, Unref
  <2>4. QED BY <2>2, <2>3, Zenon
<1>5. CASE RegistryDeinit
  <2>1. UNCHANGED <<idx, pc>>
    BY <1>5, Zenon DEF RegistryDeinit
  <2>2. CASE refcount = 1
    <3>1. entries' = << >>
      BY <1>5, <2>2, Zenon DEF RegistryDeinit, Unref
    <3>2. \A u \in Threads : pc[u] \notin {"flush", "direct"}
      BY <1>5, <2>2, NoLoopAtLastUnref, Zenon
    <3>3. QED BY <2>1, <3>1, <3>2, <1>t, SMTT(60)
  <2>3. CASE refcount # 1
    BY <2>1, <2>3, <1>5, <1>t, <1>l, Zenon DEF RegistryDeinit, Unref
  <2>4. QED BY <2>2, <2>3, Zenon
<1>6. ASSUME NEW t \in Threads,
             \/ Acquire(t) \/ FlushDone(t) \/ PlaceInBuffer(t) \/ PlaceDirect(t)
             \/ DirectDone(t) \/ Release(t)
      PROVE  LoopInv'
  BY <1>1, <1>6, Zenon DEF Acquire, FlushDone, PlaceInBuffer, PlaceDirect, DirectDone,
                    Release, AfterFlush, PCs
<1>7. ASSUME NEW t \in Threads, NEW tl \in Timelines, NEW e \in Events \cup {NoEvent},
             Call(t, tl, e)
      PROVE  LoopInv'
  BY <1>1, <1>7, Zenon DEF Call, PCs
<1>8. CASE UNCHANGED vars
  BY <1>8, <1>t, Zenon DEF vars
<1>9. QED
  BY <1>2, <1>3, <1>4, <1>5, <1>6, <1>7, <1>8, ZenonT(60)
     DEF Next, Step, BeginPush, BeginFlush, BeginDestroy

-----------------------------------------------------------------------------
\* Sequences of events.

\* Adding an event at the end is concatenation with a sequence of one.
LEMMA AppendConcat ==
  ASSUME NEW s \in Seq(Events), NEW e \in Events
  PROVE  /\ Append(s, e) = s \o <<e>>
         /\ Append(s, e) \in Seq(Events)
         /\ Append(s, e) \o << >> = Append(s, e)
<1>1. Append(s, e) = s \o <<e>> /\ Append(s, e) \in Seq(Events)
  BY AppendFacts
<1>2. QED BY <1>1, CatEmpty, Zenon

\* Concatenation of event sequences is associative.
LEMMA EventConcat ==
  ASSUME NEW s \in Seq(Events), NEW r \in Seq(Events), NEW q \in Seq(Events)
  PROVE  s \o (r \o q) = (s \o r) \o q
BY CatAssoc, SMTT(60)

\* It commutes with putting a prefix in front.
LEMMA AppendAfterPrefix ==
  ASSUME NEW s \in Seq(Events), NEW r \in Seq(Events), NEW e \in Events
  PROVE  Append(s \o r, e) = s \o Append(r, e)
<1>1. <<e>> \in Seq(Events) /\ s \o r \in Seq(Events)
  BY CatFacts
<1>2. Append(s \o r, e) = (s \o r) \o <<e>> /\ Append(r, e) = r \o <<e>>
  BY <1>1, AppendFacts, SMTT(60)
<1>3. (s \o r) \o <<e>> = s \o (r \o <<e>>)
  BY <1>1, CatAssoc, SMTT(60)
<1>4. QED BY <1>2, <1>3, Zenon

-----------------------------------------------------------------------------

\* AcceptedInv: a timeline's accepted events are the flushed ones, then the
\* ones in its buffer or the one being delivered directly.
LEMMA AcceptedStep == IInv /\ [Next]_vars => AcceptedInv'
<1> SUFFICES ASSUME IInv, [Next]_vars PROVE AcceptedInv' BY Zenon
<1> USE TimelineAssumption DEF AcceptedInv, history, calls
<1>t. TypeOK /\ CallInv /\ ClosingInv /\ BufferInv /\ AcceptedInv
  BY Zenon DEF IInv
<1> USE DEF TypeOK
<1>1. ASSUME NEW t \in Threads, UNCHANGED <<pushed, flushed, buffer>>, pc[t] # "direct",
             pc'[t] # "direct",
             \A u \in Threads : u # t =>
               pc'[u] = pc[u] /\ target'[u] = target[u] /\ event'[u] = event[u]
      PROVE  AcceptedInv'
  BY <1>1, <1>t, ZenonT(60)
<1>2. ASSUME Quiet
      PROVE  AcceptedInv'
  BY <1>2, <1>t, Zenon DEF Quiet
<1>3. ASSUME NEW t \in Threads, FlushDone(t)
      PROVE  AcceptedInv'
  <2>1. target[t] \in Timelines /\ Inside(t, target[t])
    BY <1>3, BusyType, Zenon DEF FlushDone, Inside
  <2>2. /\ buffer' = [buffer EXCEPT ![target[t]] = << >>]
        /\ flushed' = [flushed EXCEPT ![target[t]] = @ \o buffer[target[t]]]
        /\ UNCHANGED <<pushed, target, event>>
        /\ pc'[t] # "direct" /\ pc[t] = "flush"
        /\ \A u \in Threads : u # t => pc'[u] = pc[u]
    BY <1>3, <1>t, Zenon DEF FlushDone, AfterFlush
  <2>3. \A u \in Threads : pc[u] = "direct" => target[u] # target[t]
    BY <2>1, <2>2, OtherLoops, Zenon
  <2>4. pushed[target[t]] = flushed[target[t]] \o buffer[target[t]]
    BY <2>1, <2>3, <1>t, Zenon
  <2>5. pushed[target[t]] = pushed[target[t]] \o << >>
    BY <2>1, <1>t, CatEmpty, ZenonT(60)
  <2>6. ASSUME NEW tl \in Timelines,
               \A u \in Threads : pc'[u] = "direct" => target'[u] # tl
        PROVE  pushed'[tl] = flushed'[tl] \o buffer'[tl]
    <3>1. CASE tl = target[t]
      BY <3>1, <2>1, <2>2, <2>4, <2>5, <1>t, ZenonT(60)
    <3>2. CASE tl # target[t]
      <4>1. \A u \in Threads : pc[u] = "direct" => target[u] # tl
        BY <2>2, <2>6, Zenon
      <4>2. QED BY <4>1, <3>2, <2>2, <1>t, Zenon
    <3>3. QED BY <3>1, <3>2, Zenon
  <2>7. ASSUME NEW u \in Threads, pc'[u] = "direct"
        PROVE  pushed'[target'[u]] = Append(flushed'[target'[u]], event'[u])
    <3>1. u # t /\ pc[u] = "direct" /\ target[u] # target[t] /\ target[u] \in Timelines
      BY <2>2, <2>3, <2>7, BusyType, Zenon
    <3>2. flushed'[target[u]] = flushed[target[u]]
      BY <3>1, <2>2, <1>t, Zenon
    <3>3. QED BY <3>1, <3>2, <2>2, <1>t, Zenon
  <2>8. QED BY <2>6, <2>7, Zenon
<1>4. ASSUME NEW t \in Threads, PlaceInBuffer(t)
      PROVE  AcceptedInv'
  <2>1. target[t] \in Timelines /\ Inside(t, target[t]) /\ event[t] \in Events
    BY <1>4, BusyType, Zenon DEF PlaceInBuffer, Inside
  <2>2. /\ buffer' = [buffer EXCEPT ![target[t]] = Append(@, event[t])]
        /\ pushed' = [pushed EXCEPT ![target[t]] = Append(@, event[t])]
        /\ UNCHANGED <<flushed, target, event>>
        /\ pc'[t] # "direct" /\ pc[t] = "place"
        /\ \A u \in Threads : u # t => pc'[u] = pc[u]
    BY <1>4, <1>t, Zenon DEF PlaceInBuffer
  <2>3. \A u \in Threads : pc[u] = "direct" => target[u] # target[t]
    BY <2>1, <2>2, OtherLoops, Zenon
  <2>4. pushed[target[t]] = flushed[target[t]] \o buffer[target[t]]
    BY <2>1, <2>3, <1>t, Zenon
  <2>5. Append(pushed[target[t]], event[t]) =
          flushed[target[t]] \o Append(buffer[target[t]], event[t])
    <3>1. flushed[target[t]] \in Seq(Events) /\ buffer[target[t]] \in Seq(Events)
      BY <2>1, <1>t, Zenon
    <3>2. Append(flushed[target[t]] \o buffer[target[t]], event[t]) =
            flushed[target[t]] \o Append(buffer[target[t]], event[t])
      BY <2>1, <3>1, AppendAfterPrefix, ZenonT(60)
    <3>3. QED BY <2>4, <3>2, Zenon
  <2>6. ASSUME NEW tl \in Timelines,
               \A u \in Threads : pc'[u] = "direct" => target'[u] # tl
        PROVE  pushed'[tl] = flushed'[tl] \o buffer'[tl]
    <3>1. CASE tl = target[t]
      BY <3>1, <2>1, <2>2, <2>5, <1>t, Zenon
    <3>2. CASE tl # target[t]
      <4>1. \A u \in Threads : pc[u] = "direct" => target[u] # tl
        BY <2>2, <2>6, Zenon
      <4>2. QED BY <4>1, <3>2, <2>2, <1>t, Zenon
    <3>3. QED BY <3>1, <3>2, Zenon
  <2>7. ASSUME NEW u \in Threads, pc'[u] = "direct"
        PROVE  pushed'[target'[u]] = Append(flushed'[target'[u]], event'[u])
    <3>1. u # t /\ pc[u] = "direct" /\ target[u] # target[t] /\ target[u] \in Timelines
      BY <2>2, <2>3, <2>7, BusyType, Zenon
    <3>2. pushed'[target[u]] = pushed[target[u]]
      BY <3>1, <2>2, <1>t, ZenonT(60)
    <3>3. QED BY <3>1, <3>2, <2>2, <1>t, Zenon
  <2>8. QED BY <2>6, <2>7, Zenon
<1>5. ASSUME NEW t \in Threads, PlaceDirect(t)
      PROVE  AcceptedInv'
  <2>1. target[t] \in Timelines /\ Inside(t, target[t]) /\ event[t] \in Events
    BY <1>5, BusyType, Zenon DEF PlaceDirect, Inside
  <2>2. /\ pushed' = [pushed EXCEPT ![target[t]] = Append(@, event[t])]
        /\ UNCHANGED <<buffer, flushed, target, event>>
        /\ pc'[t] = "direct" /\ pc[t] = "place" /\ Capacity < Size[event[t]]
        /\ \A u \in Threads : u # t => pc'[u] = pc[u]
    BY <1>5, <1>t, Zenon DEF PlaceDirect
  <2>3. \A u \in Threads : pc[u] = "direct" => target[u] # target[t]
    BY <2>1, <2>2, OtherLoops, Zenon
  <2>4. buffer[target[t]] = << >>
    BY <2>2, <1>t, Zenon DEF BufferInv
  <2>5. pushed[target[t]] = flushed[target[t]]
    <3>1. flushed[target[t]] \in Seq(Events)
      BY <2>1, <1>t, Zenon
    <3>2. pushed[target[t]] = flushed[target[t]] \o << >>
      BY <2>1, <2>3, <2>4, <1>t, Zenon
    <3>3. QED BY <3>1, <3>2, CatEmpty, Zenon
  <2>6. ASSUME NEW tl \in Timelines,
               \A u \in Threads : pc'[u] = "direct" => target'[u] # tl
        PROVE  pushed'[tl] = flushed'[tl] \o buffer'[tl]
    <3>1. tl # target[t] /\ \A u \in Threads : pc[u] = "direct" => target[u] # tl
      BY <2>2, <2>6, Zenon
    <3>2. QED BY <3>1, <2>2, <1>t, Zenon
  <2>7. ASSUME NEW u \in Threads, pc'[u] = "direct"
        PROVE  pushed'[target'[u]] = Append(flushed'[target'[u]], event'[u])
    <3>1. CASE u = t
      BY <3>1, <2>1, <2>2, <2>5, <1>t, ZenonT(60)
    <3>2. CASE u # t
      <4>1. pc[u] = "direct" /\ target[u] # target[t] /\ target[u] \in Timelines
        BY <3>2, <2>2, <2>3, <2>7, BusyType, ZenonT(60)
      <4>2. pushed'[target[u]] = pushed[target[u]]
        BY <4>1, <2>2, <1>t, ZenonT(60)
      <4>3. QED BY <4>1, <4>2, <2>2, <1>t, Zenon
    <3>3. QED BY <3>1, <3>2, Zenon
  <2>8. QED BY <2>6, <2>7, Zenon
<1>6. ASSUME NEW t \in Threads, DirectDone(t)
      PROVE  AcceptedInv'
  <2>1. target[t] \in Timelines /\ Inside(t, target[t]) /\ event[t] \in Events
    BY <1>6, BusyType, Zenon DEF DirectDone, Inside
  <2>2. /\ flushed' = [flushed EXCEPT ![target[t]] = Append(@, event[t])]
        /\ UNCHANGED <<buffer, pushed, target, event>>
        /\ pc'[t] # "direct" /\ pc[t] = "direct"
        /\ \A u \in Threads : u # t => pc'[u] = pc[u]
    BY <1>6, <1>t, Zenon DEF DirectDone
  <2>3. \A u \in Threads : pc[u] = "direct" => u = t \/ target[u] # target[t]
    BY <2>1, OtherLoops, Zenon
  <2>4. buffer[target[t]] = << >>
    BY <2>2, <1>t, ZenonT(60) DEF BufferInv
  <2>5. pushed[target[t]] = Append(flushed[target[t]], event[t]) \o << >>
    BY <2>1, <2>2, <1>t, CatEmpty, AppendConcat, SMTT(60)
  <2>6. ASSUME NEW tl \in Timelines,
               \A u \in Threads : pc'[u] = "direct" => target'[u] # tl
        PROVE  pushed'[tl] = flushed'[tl] \o buffer'[tl]
    <3>1. CASE tl = target[t]
      BY <3>1, <2>1, <2>2, <2>4, <2>5, <1>t, Zenon
    <3>2. CASE tl # target[t]
      <4>1. \A u \in Threads : pc[u] = "direct" => target[u] # tl
        BY <3>2, <2>2, <2>6, Zenon
      <4>2. QED BY <4>1, <3>2, <2>2, <1>t, ZenonT(60)
    <3>3. QED BY <3>1, <3>2, Zenon
  <2>7. ASSUME NEW u \in Threads, pc'[u] = "direct"
        PROVE  pushed'[target'[u]] = Append(flushed'[target'[u]], event'[u])
    <3>1. u # t /\ pc[u] = "direct" /\ target[u] # target[t] /\ target[u] \in Timelines
      BY <2>2, <2>3, <2>7, BusyType, Zenon
    <3>2. flushed'[target[u]] = flushed[target[u]]
      BY <3>1, <2>2, <1>t, Zenon
    <3>3. QED BY <3>1, <3>2, <2>2, <1>t, Zenon
  <2>8. QED BY <2>6, <2>7, Zenon
<1>7. ASSUME NEW t \in Threads, Acquire(t) \/ Release(t) \/ Teardown(t)
      PROVE  AcceptedInv'
  <2>1. /\ UNCHANGED <<pushed, flushed, buffer, target, event>> /\ pc[t] # "direct"
        /\ \E next \in PCs \ {"direct"} : pc' = [pc EXCEPT ![t] = next]
    BY <1>7, Zenon DEF Acquire, AfterFlush, Release, Teardown, PCs
  <2>2. pc'[t] # "direct" /\ \A u \in Threads : u # t => pc'[u] = pc[u]
    BY <2>1, <1>t, Zenon
  <2>3. QED BY <2>1, <2>2, <1>1, Zenon
<1>8. ASSUME NEW t \in Threads, NEW tl \in Timelines, NEW e \in Events \cup {NoEvent},
             Call(t, tl, e)
      PROVE  AcceptedInv'
  BY <1>1, <1>8, <1>t, Zenon DEF Call
<1>9. QED
  BY <1>2, <1>3, <1>4, <1>5, <1>6, <1>7, <1>8, QuietSteps, ZenonT(60)
     DEF Next, Step, BeginPush, BeginFlush, BeginDestroy

-----------------------------------------------------------------------------
\* What the listeners have got of what a timeline has accepted, while a
\* notification loop runs and between two loops.

\* One callback of notify_listeners brings its listener up to date, and no
\* other one.
LEMMA NotifyDelivered ==
  ASSUME IInv, NEW t \in Threads, NEW events \in Seq(Events),
         pc[t] \in {"flush", "direct"}, Notify(t, events),
         flushed[target[t]] \o events = pushed[target[t]]
  PROVE  DeliveredInv'
<1>t. TypeOK /\ LoopInv /\ DeliveredInv
  BY Zenon DEF IInv
<1> USE DEF TypeOK
<1> DEFINE k == idx[t]
           me == target[t]
<1>1. me \in Timelines /\ Inside(t, me)
  BY BusyType, Zenon DEF Inside
<1>2. /\ k \in 1..Len(entries) /\ k \in DOMAIN entries /\ entries[k] \in Listeners
      /\ idx'[t] = k + 1 /\ \A u \in Threads : u # t => idx'[u] = idx[u]
      /\ UNCHANGED <<entries, pc, target, pushed, flushed, missed>>
      /\ received' = [received EXCEPT ![entries[k]][me] = received[entries[k]][me] \o events]
  <2>1. /\ k \in 1..Len(entries) /\ entries[k] \in Listeners
        /\ idx' = [idx EXCEPT ![t] = @ + 1]
        /\ UNCHANGED <<entries, pc, target, pushed, flushed, missed>>
    BY <1>t, NotifyRest, Zenon
  <2>2. k \in DOMAIN entries
    BY <2>1, <1>t, SeqFacts, ZenonT(60)
  <2>3. idx'[t] = k + 1 /\ \A u \in Threads : u # t => idx'[u] = idx[u]
    BY <2>1, <1>t, SMTT(60)
  <2>4. received' = [received EXCEPT ![entries[k]][me] = received[entries[k]][me] \o events]
    BY Zenon DEF Notify
  <2>5. QED BY <2>1, <2>2, <2>3, <2>4, Zenon
<1>3. \A u \in Threads : pc[u] \in {"flush", "direct"} => u = t \/ target[u] # me
  BY <1>1, OtherLoops, Zenon
<1> SUFFICES ASSUME NEW i \in DOMAIN entries, NEW tl \in Timelines
             PROVE  missed[entries[i]][tl] \o received'[entries[i]][tl] =
                      IF Served(i, tl)' THEN pushed[tl] ELSE flushed[tl]
  <2>1. UNCHANGED <<entries, pushed, flushed, missed>>
    BY <1>2, Zenon
  <2>2. QED BY <2>1, Zenon DEF DeliveredInv
<1>4. i \in Nat /\ k \in Nat /\ entries[i] \in Listeners
  <2>1. DOMAIN entries = 1..Len(entries) /\ Len(entries) \in Nat
    BY <1>t, SeqFacts, Zenon
  <2>2. QED BY <2>1, <1>2, <1>t, SMTT(60)
<1>5. CASE tl # me
  <2>1. received'[entries[i]][tl] = received[entries[i]][tl]
    BY <1>2, <1>4, <1>5, <1>t, Zenon
  <2>2. Served(i, tl)' <=> Served(i, tl)
    BY <1>2, <1>5, ZenonT(60) DEF Served
  <2>3. QED BY <2>1, <2>2, <1>t, ZenonT(60) DEF DeliveredInv
<1>6. CASE tl = me /\ i # k
  <2>1. entries[i] # entries[k]
    BY <1>2, <1>6, <1>t, Zenon DEF LoopInv
  <2>2. received'[entries[i]][tl] = received[entries[i]][tl]
    BY <2>1, <1>2, <1>4, <1>t, ZenonT(60)
  <2>3. i < k + 1 <=> i < k
    BY <1>4, <1>6, SMTT(60)
  <2>4. Served(i, tl)' <=> Served(i, tl)
    BY <2>3, <1>2, <1>3, <1>6, Zenon DEF Served
  <2>5. QED BY <2>2, <2>4, <1>t, Zenon DEF DeliveredInv
<1>7. CASE tl = me /\ i = k
  <2>1. received'[entries[i]][tl] = received[entries[i]][tl] \o events
    BY <1>1, <1>2, <1>7, <1>t, ZenonT(60)
  <2>2. ~Served(i, tl)
    BY <1>3, <1>4, <1>7, SMTT(60) DEF Served
  <2>3. Served(i, tl)'
    BY <1>2, <1>4, <1>7, SMTT(60) DEF Served
  <2>4. missed[entries[i]][tl] \o received[entries[i]][tl] = flushed[tl]
    BY <2>2, <1>t, ZenonT(60) DEF DeliveredInv
  <2>5. missed[entries[i]][tl] \in Seq(Events) /\ received[entries[i]][tl] \in Seq(Events)
    BY <1>4, <1>t, SMTT(60)
  <2>6. missed[entries[i]][tl] \o (received[entries[i]][tl] \o events) =
          (missed[entries[i]][tl] \o received[entries[i]][tl]) \o events
    BY <2>5, EventConcat, ZenonT(60)
  <2>7. QED BY <2>1, <2>3, <2>4, <2>6, <1>7, ZenonT(60)
<1>8. QED BY <1>5, <1>6, <1>7, Zenon

\* When a notification loop is over every listener has got all that the
\* timeline has accepted.
LEMMA DoneDelivered ==
  ASSUME IInv, NEW t \in Threads, pc[t] \in {"flush", "direct"}, idx[t] > Len(entries),
         flushed' = [flushed EXCEPT ![target[t]] = pushed[target[t]]],
         pc'[t] \notin {"flush", "direct"},
         \A u \in Threads : u # t => pc'[u] = pc[u],
         UNCHANGED <<target, idx, entries, pushed, received, missed>>
  PROVE  DeliveredInv'
<1>t. TypeOK /\ LoopInv /\ DeliveredInv
  BY Zenon DEF IInv
<1> USE DEF TypeOK
<1>1. target[t] \in Timelines /\ Inside(t, target[t])
  BY BusyType, Zenon DEF Inside
<1>2. \A u \in Threads : pc[u] \in {"flush", "direct"} => u = t \/ target[u] # target[t]
  BY <1>1, OtherLoops, Zenon
<1> SUFFICES ASSUME NEW i \in DOMAIN entries, NEW tl \in Timelines
             PROVE  missed[entries[i]][tl] \o received[entries[i]][tl] =
                      IF Served(i, tl)' THEN pushed[tl] ELSE flushed'[tl]
  BY Zenon DEF DeliveredInv
<1>3. CASE tl # target[t]
  <2>1. flushed'[tl] = flushed[tl]
    BY <1>3, <1>t, Zenon
  <2>2. Served(i, tl)' <=> Served(i, tl)
    BY <1>3, Zenon DEF Served
  <2>3. QED BY <2>1, <2>2, <1>t, Zenon DEF DeliveredInv
<1>4. CASE tl = target[t]
  <2>1. i \in 1..Len(entries) /\ Len(entries) \in Nat /\ idx[t] \in Nat
    BY <1>t, SeqFacts, SMTT(60)
  <2>2. i < idx[t]
    BY <2>1
  <2>3. Served(i, tl)
    BY <2>2, <1>4, Zenon DEF Served
  <2>4. flushed'[tl] = pushed[tl]
    BY <1>1, <1>4, <1>t, Zenon
  <2>5. QED BY <2>3, <2>4, <1>t, Zenon DEF DeliveredInv
<1>5. QED BY <1>3, <1>4, Zenon

\* Accepting an event leaves the listeners behind by that event.
LEMMA PlaceDelivered ==
  ASSUME IInv, NEW t \in Threads, PlaceInBuffer(t) \/ PlaceDirect(t)
  PROVE  DeliveredInv'
<1>t. TypeOK /\ LoopInv /\ DeliveredInv
  BY Zenon DEF IInv
<1> USE DEF TypeOK
<1>1. pc[t] = "place" /\ target[t] \in Timelines /\ Inside(t, target[t])
  BY BusyType, Zenon DEF Inside, PlaceInBuffer, PlaceDirect
<1>2. \A u \in Threads : pc[u] \in {"flush", "direct"} => u # t /\ target[u] # target[t]
  BY <1>1, OtherLoops, Zenon
<1>3. /\ UNCHANGED <<target, entries, flushed, received, missed>>
      /\ \A tl \in Timelines : tl # target[t] => pushed'[tl] = pushed[tl]
      /\ \A u \in Threads : u # t => pc'[u] = pc[u] /\ idx'[u] = idx[u]
      /\ pc'[t] \notin {"flush", "direct"} \/ idx'[t] = 1
  BY <1>t, ZenonT(60) DEF PlaceInBuffer, PlaceDirect
<1> SUFFICES ASSUME NEW i \in DOMAIN entries, NEW tl \in Timelines
             PROVE  missed[entries[i]][tl] \o received[entries[i]][tl] =
                      IF Served(i, tl)' THEN pushed'[tl] ELSE flushed[tl]
  BY <1>3, Zenon DEF DeliveredInv
<1>4. i \in Nat /\ ~(i < 1)
  BY <1>t, SMTT(60)
<1>5. CASE tl # target[t]
  <2>1. Served(i, tl)' <=> Served(i, tl)
    BY <1>3, <1>5, Zenon DEF Served
  <2>2. QED BY <2>1, <1>3, <1>5, <1>t, Zenon DEF DeliveredInv
<1>6. CASE tl = target[t]
  <2>1. ~Served(i, tl)
    BY <1>2, <1>6, Zenon DEF Served
  <2>2. ~Served(i, tl)'
    BY <1>2, <1>3, <1>4, <1>6, Zenon DEF Served
  <2>3. QED BY <2>1, <2>2, <1>t, Zenon DEF DeliveredInv
<1>7. QED BY <1>5, <1>6, Zenon

\* DeliveredInv: every registered listener has got all the flushed events of a
\* timeline and, once the running loop has served it, all the accepted ones.
LEMMA DeliveredStep == IInv /\ [Next]_vars => DeliveredInv'
<1> SUFFICES ASSUME IInv, [Next]_vars PROVE DeliveredInv' OBVIOUS
<1> USE TimelineAssumption DEF history, calls
<1>t. /\ TypeOK /\ LoopInv /\ BufferInv /\ AcceptedInv /\ DeliveredInv /\ OutsiderInv
      /\ ListenersOutliveTimelines
  BY Zenon DEF IInv
<1> USE DEF TypeOK
<1>l. Len(entries) \in Nat /\ DOMAIN entries = 1..Len(entries)
  BY <1>t, SeqFacts, Zenon
<1>1. ASSUME UNCHANGED <<pushed, flushed, received, missed, entries>>,
             \A i \in DOMAIN entries, tl \in Timelines : Served(i, tl)' <=> Served(i, tl)
      PROVE  DeliveredInv'
  BY <1>1, <1>t, Zenon DEF DeliveredInv
<1>2. ASSUME NEW t \in Threads, pc[t] \notin {"flush", "direct"},
             pc'[t] \notin {"flush", "direct"} \/ idx'[t] = 1,
             \A u \in Threads : u # t =>
               pc'[u] = pc[u] /\ target'[u] = target[u] /\ idx'[u] = idx[u],
             NEW i \in DOMAIN entries, NEW tl \in Timelines
      PROVE  Served(i, tl)' <=> Served(i, tl)
  <2>1. ~(i < 1)
    BY <1>l
  <2>2. QED BY <2>1, <1>2, Zenon DEF Served
<1>3. ASSUME NEW t \in Threads, FlushNotify(t)
      PROVE  DeliveredInv'
  <2>1. target[t] \in Timelines /\ Inside(t, target[t])
    BY <1>3, BusyType, Zenon DEF FlushNotify, Inside
  <2>2. \A u \in Threads : pc[u] = "direct" => target[u] # target[t]
    BY <2>1, <1>3, OtherLoops, Zenon DEF FlushNotify
  <2>3. flushed[target[t]] \o buffer[target[t]] = pushed[target[t]]
    BY <2>1, <2>2, <1>t, Zenon DEF AcceptedInv
  <2>4. QED BY <2>1, <2>3, <1>3, <1>t, NotifyDelivered, ZenonT(60) DEF FlushNotify
<1>4. ASSUME NEW t \in Threads, DirectNotify(t)
      PROVE  DeliveredInv'
  <2>1. target[t] \in Timelines /\ event[t] \in Events /\ pc[t] = "direct"
    BY <1>4, BusyType, Zenon DEF DirectNotify
  <2>2. pushed[target[t]] = Append(flushed[target[t]], event[t])
    BY <2>1, <1>t, Zenon DEF AcceptedInv
  <2>3. flushed[target[t]] \in Seq(Events) /\ <<event[t]>> \in Seq(Events)
    BY <2>1, <1>t, SMTT(60)
  <2>4. flushed[target[t]] \o <<event[t]>> = pushed[target[t]]
    BY <2>1, <2>2, <2>3, AppendConcat, Zenon
  <2>5. QED BY <2>1, <2>3, <2>4, <1>4, NotifyDelivered, Zenon DEF DirectNotify
<1>5. ASSUME NEW t \in Threads, FlushDone(t)
      PROVE  DeliveredInv'
  <2>1. target[t] \in Timelines /\ Inside(t, target[t])
    BY <1>5, BusyType, Zenon DEF FlushDone, Inside
  <2>2. \A u \in Threads : pc[u] = "direct" => target[u] # target[t]
    BY <2>1, <1>5, OtherLoops, ZenonT(60) DEF FlushDone
  <2>3. flushed[target[t]] \o buffer[target[t]] = pushed[target[t]]
    BY <2>1, <2>2, <1>t, Zenon DEF AcceptedInv
  <2>4. flushed' = [flushed EXCEPT ![target[t]] = pushed[target[t]]]
    BY <2>3, <1>5, Zenon DEF FlushDone
  <2>5. /\ pc'[t] \notin {"flush", "direct"}
        /\ \A u \in Threads : u # t => pc'[u] = pc[u]
    BY <1>5, <1>t, Zenon DEF FlushDone, AfterFlush
  <2>6. QED BY <2>4, <2>5, <1>5, DoneDelivered, ZenonT(60) DEF FlushDone
<1>6. ASSUME NEW t \in Threads, DirectDone(t)
      PROVE  DeliveredInv'
  <2>1. target[t] \in Timelines
    BY <1>6, BusyType, Zenon DEF DirectDone
  <2>2. pushed[target[t]] = Append(flushed[target[t]], event[t])
    BY <1>6, <1>t, Zenon DEF AcceptedInv, DirectDone
  <2>3. flushed' = [flushed EXCEPT ![target[t]] = pushed[target[t]]]
    BY <2>2, <1>6, Zenon DEF DirectDone
  <2>4. /\ pc'[t] \notin {"flush", "direct"}
        /\ \A u \in Threads : u # t => pc'[u] = pc[u]
    BY <1>6, <1>t, Zenon DEF DirectDone
  <2>5. QED BY <2>3, <2>4, <1>6, DoneDelivered, Zenon DEF DirectDone
<1>7. ASSUME NEW t \in Threads, PlaceInBuffer(t) \/ PlaceDirect(t)
      PROVE  DeliveredInv'
  BY <1>7, PlaceDelivered, Zenon
<1>8. ASSUME NEW t \in Threads, Acquire(t) \/ Release(t)
      PROVE  DeliveredInv'
  <2>1. /\ UNCHANGED <<pushed, flushed, received, missed, entries, target>>
        /\ pc[t] \notin {"flush", "direct"}
        /\ \E next \in PCs : pc' = [pc EXCEPT ![t] = next]
        /\ idx' = [idx EXCEPT ![t] = 1] \/ (idx' = idx /\ pc'[t] \in {"teardown", "idle"})
    BY <1>8, <1>t, Zenon DEF Acquire, AfterFlush, Release, PCs
  <2>2. /\ pc'[t] \notin {"flush", "direct"} \/ idx'[t] = 1
        /\ \A u \in Threads : u # t =>
               pc'[u] = pc[u] /\ target'[u] = target[u] /\ idx'[u] = idx[u]
    BY <2>1, <1>t, ZenonT(60)
  <2>3. \A i \in DOMAIN entries, tl \in Timelines : Served(i, tl)' <=> Served(i, tl)
    BY <2>1, <2>2, <1>2, Zenon
  <2>4. QED BY <2>1, <2>3, <1>1, Zenon
<1>9. ASSUME NEW t \in Threads, NEW to \in Timelines, NEW e \in Events \cup {NoEvent},
             Call(t, to, e)
      PROVE  DeliveredInv'
  <2>1. /\ UNCHANGED <<pushed, flushed, received, missed, entries, idx>>
        /\ pc[t] \notin {"flush", "direct"} /\ pc'[t] \notin {"flush", "direct"}
        /\ \A u \in Threads : u # t => pc'[u] = pc[u] /\ target'[u] = target[u]
    BY <1>9, <1>t, Zenon DEF Call
  <2>2. \A i \in DOMAIN entries, tl \in Timelines : Served(i, tl)' <=> Served(i, tl)
    BY <2>1, <1>2, Zenon
  <2>3. QED BY <2>1, <2>2, <1>1, Zenon
<1>10. ASSUME NEW l \in Listeners, RegisterListener(l)
      PROVE  DeliveredInv'
  <2>1. /\ entries' = Append(entries, l) /\ missed' = [missed EXCEPT ![l] = flushed]
        /\ UNCHANGED <<pc, target, idx, pushed, flushed, received, destroyed>>
        /\ \A i \in DOMAIN entries : entries[i] # l
    BY <1>10, Zenon DEF RegisterListener
  <2>2. l \notin destroyed
    BY <1>10, <1>t, Zenon DEF RegisterListener, ListenersOutliveTimelines
  <2>3. \A tl \in Timelines : received[l][tl] = << >>
    BY <2>1, <2>2, <1>t, Zenon DEF OutsiderInv
  <2>4. DOMAIN entries' = 1..(Len(entries) + 1)
    BY <2>1, <1>t, <1>l, SMTT(60)
  <2>5. \A i \in Nat, tl \in Timelines : Served(i, tl)' <=> Served(i, tl)
    BY <2>1, Zenon DEF Served
  <2>6. ASSUME NEW i \in DOMAIN entries', NEW tl \in Timelines
        PROVE  missed'[entries'[i]][tl] \o received'[entries'[i]][tl] =
                 IF Served(i, tl)' THEN pushed'[tl] ELSE flushed'[tl]
    <3>1. CASE i \in DOMAIN entries
      <4>1. entries'[i] = entries[i] /\ entries[i] # l /\ entries[i] \in Listeners
        BY <3>1, <2>1, <1>t, <1>l, SMTT(60)
      <4>2. missed'[entries[i]] = missed[entries[i]] /\ i \in Nat
        BY <4>1, <3>1, <2>1, <1>t, <1>l, SMTT(60)
      <4>3. missed[entries[i]][tl] \o received[entries[i]][tl] =
              IF Served(i, tl) THEN pushed[tl] ELSE flushed[tl]
        BY <3>1, <1>t, Zenon DEF DeliveredInv
      <4>4. Served(i, tl)' <=> Served(i, tl)
        BY <4>2, <2>5, Zenon
      <4>5. missed'[entries'[i]][tl] \o received'[entries'[i]][tl] =
              missed[entries[i]][tl] \o received[entries[i]][tl]
        BY <4>1, <4>2, <2>1, Zenon
      <4>6. pushed'[tl] = pushed[tl] /\ flushed'[tl] = flushed[tl]
        BY <2>1, Zenon
      <4>7. QED BY <4>3, <4>4, <4>5, <4>6, ZenonT(60)
    <3>2. CASE i = Len(entries) + 1
      <4>1. entries'[i] = l
        BY <3>2, <2>1, <1>t, <1>l, SMTT(60)
      <4>2. missed'[l][tl] = flushed[tl] /\ flushed[tl] \in Seq(Events)
        BY <2>1, <1>t, Zenon
      <4>3. missed'[l][tl] \o received[l][tl] = flushed[tl]
        BY <4>2, <2>3, CatEmpty, Zenon
      <4>4. ~Served(i, tl)
        <5>1. ASSUME NEW u \in Threads, pc[u] \in {"flush", "direct"}
              PROVE  ~(i < idx[u])
          BY <5>1, <3>2, <1>t, <1>l, SMTT(60) DEF LoopInv
        <5>2. QED BY <5>1, Zenon DEF Served
      <4>5. ~Served(i, tl)'
        <5>1. i \in Nat
          BY <3>2, <1>l, SMTT(60)
        <5>2. QED BY <5>1, <4>4, <2>5, Zenon
      <4>6. missed'[entries'[i]][tl] \o received'[entries'[i]][tl] = flushed'[tl]
        BY <4>1, <4>3, <2>1, Zenon
      <4>7. QED BY <4>5, <4>6, ZenonT(60)
    <3>3. i \in DOMAIN entries \/ i = Len(entries) + 1
      BY <2>4, <1>l, SMTT(60)
    <3>4. QED BY <3>1, <3>2, <3>3, Zenon
  <2>7. QED BY <2>6, Zenon DEF DeliveredInv
<1>11. ASSUME NEW t \in Threads, Teardown(t)
      PROVE  DeliveredInv'
  <2>1. /\ UNCHANGED <<pushed, flushed, received, missed, target, idx>>
        /\ pc' = [pc EXCEPT ![t] = "idle"] /\ pc[t] = "teardown"
    BY <1>11, ZenonT(60) DEF Teardown
  <2>2. CASE refcount = 1
    <3>1. entries' = << >>
      BY <1>11, <2>2, Zenon DEF Teardown, Unref
    <3>2. QED BY <3>1, SMTT(60) DEF DeliveredInv
  <2>3. CASE refcount # 1
    <3>1. entries' = entries
      BY <1>11, <2>3, Zenon DEF Teardown, Unref
    <3>2. pc'[t] = "idle" /\ \A u \in Threads : u # t => pc'[u] = pc[u]
      BY <2>1, <1>t, Zenon
    <3>3. \A i \in DOMAIN entries, tl \in Timelines : Served(i, tl)' <=> Served(i, tl)
      BY <2>1, <3>2, <1>2, Zenon
    <3>4. UNCHANGED <<pushed, flushed, received, missed, entries>>
      BY <2>1, <3>1, Zenon
    <3>5. QED BY <3>3, <3>4, <1>1, Zenon
  <2>4. QED BY <2>2, <2>3, Zenon
<1>12. CASE RegistryDeinit
  <2>1. UNCHANGED <<pushed, flushed, received, missed, target, idx, pc>>
    BY <1>12, Zenon DEF RegistryDeinit
  <2>2. entries' = << >> \/ entries' = entries
    BY <1>12, Zenon DEF RegistryDeinit, Unref
  <2>3. \A i \in DOMAIN entries, tl \in Timelines : Served(i, tl)' <=> Served(i, tl)
    BY <2>1, ZenonT(60) DEF Served
  <2>4. CASE entries' = << >>
    BY <2>4 DEF DeliveredInv
  <2>5. CASE entries' = entries
    <3>1. UNCHANGED <<pushed, flushed, received, missed, entries>>
      BY <2>1, <2>5, Zenon
    <3>2. QED BY <3>1, <2>3, <1>1, Zenon
  <2>6. QED BY <2>2, <2>4, <2>5, Zenon
<1>13. CASE UNCHANGED vars
  BY <1>13, <1>t, Zenon DEF vars, DeliveredInv, Served
<1>14. QED
  BY <1>3, <1>4, <1>5, <1>6, <1>7, <1>8, <1>9, <1>10, <1>11, <1>12, <1>13, ZenonT(60)
     DEF Next, Step, BeginPush, BeginFlush, BeginDestroy

-----------------------------------------------------------------------------
\* The inductive invariant, and the theorems that follow from it.

\* Once the container has been emptied nothing happens to its listeners.
LEMMA DestroyedFinal ==
  ASSUME IInv, [Next]_vars, destroyed # {}
  PROVE  UNCHANGED vars
<1>1. /\ \A tl \in Timelines : status[tl] = "dead"
      /\ registry = 0
  BY Zenon DEF IInv, ListenersOutliveTimelines
<1>2. \A t \in Threads : pc[t] = "idle"
  BY <1>1, BusyType, Zenon
<1>3. \A t \in Threads : ~Step(t)
  BY <1>2, ZenonT(60) DEF Step, Acquire, FlushNotify, FlushDone, PlaceInBuffer, PlaceDirect,
              DirectNotify, DirectDone, Release, Teardown
<1>4. \A t \in Threads, tl \in Timelines, e \in Events \cup {NoEvent} : ~Call(t, tl, e)
  BY <1>1, Zenon DEF Call
<1>5. (\A l \in Listeners : ~RegisterListener(l)) /\ ~RegistryDeinit
  BY <1>1 DEF RegisterListener, RegistryDeinit
<1>6. QED BY <1>3, <1>4, <1>5, Zenon DEF Next, BeginPush, BeginFlush, BeginDestroy

\* When the last reference is dropped every accepted event has been flushed.
LEMMA AllFlushedAtLastUnref ==
  ASSUME IInv, refcount = 1,
         (\E t \in Threads : Teardown(t)) \/ RegistryDeinit,
         NEW tl \in Timelines
  PROVE  pushed[tl] = flushed[tl]
<1>t. TypeOK /\ ClosingInv /\ BufferInv /\ AcceptedInv
  BY Zenon DEF IInv
<1>1. buffer[tl] = << >>
  <2>1. CASE RegistryDeinit
    BY <2>1, <1>t, LastDeinit, Zenon DEF BufferInv
  <2>2. ASSUME NEW t \in Threads, Teardown(t)
        PROVE  buffer[tl] = << >>
    <3>1. CASE tl = target[t]
      BY <2>2, <3>1, <1>t, Zenon DEF Teardown, ClosingInv, BufferInv
    <3>2. CASE tl # target[t]
      BY <2>2, <3>2, <1>t, LastTeardown, Zenon DEF BufferInv
    <3>3. QED BY <3>1, <3>2, Zenon
  <2>3. QED BY <2>1, <2>2, Zenon
<1>2. \A u \in Threads : pc[u] # "direct"
  BY NoLoopAtLastUnref, Zenon
<1>3. pushed[tl] = flushed[tl] \o << >>
  BY <1>1, <1>2, <1>t, Zenon DEF AcceptedInv
<1>4. flushed[tl] \in Seq(Events)
  BY <1>t, Zenon DEF TypeOK
<1>5. QED BY <1>3, <1>4, CatEmpty, Zenon

\* OutsiderInv across the destruction of the listeners.
LEMMA UnrefOutsider ==
  ASSUME IInv, (\E t \in Threads : Teardown(t)) \/ RegistryDeinit
  PROVE  OutsiderInv'
<1>t. TypeOK /\ DeliveredInv /\ OutsiderInv
  BY Zenon DEF IInv
<1>1. UNCHANGED <<pushed, flushed, received, missed>> /\ Unref
  BY Zenon DEF Teardown, RegistryDeinit
<1>2. CASE refcount # 1
  <2>1. UNCHANGED <<destroyed, entries>>
    BY <1>1, <1>2, Zenon DEF Unref
  <2>2. QED BY <2>1, <1>1, <1>t, Zenon DEF OutsiderInv
<1>3. CASE refcount = 1
  <2>1. /\ destroyed' = destroyed \cup {entries[i] : i \in DOMAIN entries}
        /\ entries' = << >>
    BY <1>1, <1>3, Zenon DEF Unref
  <2>2. ASSUME NEW i \in DOMAIN entries, NEW tl \in Timelines
        PROVE  missed[entries[i]][tl] \o received[entries[i]][tl] = pushed[tl]
    <3>1. missed[entries[i]][tl] \o received[entries[i]][tl] =
            IF Served(i, tl) THEN pushed[tl] ELSE flushed[tl]
      BY <1>t, Zenon DEF DeliveredInv
    <3>2. pushed[tl] = flushed[tl]
      BY <1>3, AllFlushedAtLastUnref, Zenon
    <3>3. QED BY <3>1, <3>2, Zenon
  <2>3. ASSUME NEW l \in destroyed', NEW tl \in Timelines
        PROVE  missed'[l][tl] \o received'[l][tl] = pushed'[tl]
    <3>1. CASE l \in destroyed
      BY <3>1, <1>1, <1>t, Zenon DEF OutsiderInv
    <3>2. CASE \E i \in DOMAIN entries : l = entries[i]
      BY <3>2, <2>2, <1>1, Zenon
    <3>3. QED BY <3>1, <3>2, <2>1, Zenon
  <2>4. ASSUME NEW l \in Listeners, NEW tl \in Timelines, l \notin destroyed'
        PROVE  received'[l][tl] = << >>
    BY <2>1, <2>4, <1>1, <1>t, ZenonT(60) DEF OutsiderInv
  <2>5. QED BY <2>3, <2>4, Zenon DEF OutsiderInv
<1>4. QED BY <1>2, <1>3, Zenon

\* OutsiderInv: only a registered listener is ever called.
LEMMA OutsiderStep == IInv /\ [Next]_vars => OutsiderInv'
<1> SUFFICES ASSUME IInv, [Next]_vars PROVE OutsiderInv' OBVIOUS
<1> USE TimelineAssumption DEF history, calls
<1>t. TypeOK /\ OutsiderInv
  BY Zenon DEF IInv
<1>1. CASE destroyed # {}
  BY <1>1, <1>t, DestroyedFinal, ZenonT(60) DEF OutsiderInv, vars
<1>2. CASE destroyed = {} /\ ((\E t \in Threads : Teardown(t)) \/ RegistryDeinit)
  BY <1>2, UnrefOutsider, Zenon
<1>3. CASE destroyed = {} /\ destroyed' = {} /\ UNCHANGED <<received, entries>>
  BY <1>3, <1>t, Zenon DEF OutsiderInv
<1>4. ASSUME destroyed = {}, NEW t \in Threads, FlushNotify(t) \/ DirectNotify(t)
      PROVE  OutsiderInv'
  <2>1. PICK events : Notify(t, events)
    BY <1>4, Zenon DEF FlushNotify, DirectNotify
  <2>2. idx[t] \in DOMAIN entries /\ UNCHANGED <<entries, destroyed>>
    BY <2>1, <1>t, NotifyRest DEF TypeOK
  <2>3. ASSUME NEW l \in Listeners, NEW tl \in Timelines,
               \A i \in DOMAIN entries : entries[i] # l
        PROVE  received'[l][tl] = received[l][tl]
    BY <2>1, <2>2, <2>3, <1>t, ZenonT(60) DEF Notify, TypeOK
  <2>4. QED BY <2>2, <2>3, <1>4, <1>t DEF OutsiderInv
<1>5. ASSUME destroyed = {}, NEW l \in Listeners, RegisterListener(l)
      PROVE  OutsiderInv'
  <2>1. /\ entries' = Append(entries, l)
        /\ UNCHANGED <<received, destroyed>>
    BY <1>5, ZenonT(60) DEF RegisterListener
  <2>2. \A i \in DOMAIN entries : i \in DOMAIN entries' /\ entries'[i] = entries[i]
    BY <2>1, <1>t, SMTT(60) DEF TypeOK
  <2>3. ASSUME NEW k \in Listeners, NEW tl \in Timelines,
               k \notin destroyed', \A i \in DOMAIN entries' : entries'[i] # k
        PROVE  received'[k][tl] = << >>
    <3>1. \A i \in DOMAIN entries : entries[i] # k
      BY <2>2, <2>3, Zenon
    <3>2. QED BY <3>1, <2>1, <2>3, <1>t, Zenon DEF OutsiderInv
  <2>4. destroyed' = {}
    BY <2>1, <1>5, Zenon
  <2>5. QED BY <2>3, <2>4, Zenon DEF OutsiderInv
<1>6. QED
  BY <1>1, <1>2, <1>3, <1>4, <1>5, ZenonT(60)
     DEF Next, Step, BeginPush, BeginFlush, BeginDestroy, Call, Acquire, FlushDone,
         PlaceInBuffer, PlaceDirect, DirectDone, Release, vars

-----------------------------------------------------------------------------
\* The theorems.

\* The state after the timelines were created satisfies the inductive invariant.
LEMMA InitIInv == Init => IInv
<1> SUFFICES ASSUME Init PROVE IInv BY Zenon
<1> USE TimelineAssumption DEF Init
<1>0. Cardinality(Timelines) \in Nat
  BY FS_CardinalityType, Zenon
<1>1. TypeOK BY <1>0, SMTT(60) DEF TypeOK, PCs
<1>2. CallInv /\ ClosingInv /\ BufferBounded /\ BufferInv /\ LoopInv
  BY DEF CallInv, ClosingInv, BufferBounded, BufferInv, LoopInv
<1>3. RefInv
  <2>1. {tl \in Timelines : status[tl] # "dead"} = Timelines
    BY Zenon
  <2>2. QED BY <2>1, Zenon DEF RefInv
<1>4. ListenersOutliveTimelines BY Zenon DEF ListenersOutliveTimelines
<1>5. AcceptedInv /\ DeliveredInv /\ OutsiderInv
  <2>1. << >> \o << >> = << >>
    OBVIOUS
  <2>2. QED BY <2>1, SMTT(60) DEF AcceptedInv, DeliveredInv, OutsiderInv
<1>6. QED BY <1>1, <1>2, <1>3, <1>4, <1>5, Zenon DEF IInv

\* IInv is an invariant of every run of the timelines: no sequence of calls of
\* timeline.c, timeline_listener.c and ht_registry_deinit leads out of it.
THEOREM InductiveInvariant == Spec => []IInv
<1>1. IInv /\ [Next]_vars => IInv'
  BY TypeStep, CallStep, ClosingStep, BufferStep, LoopStep, RefStep, OutliveStep,
     AcceptedStep, DeliveredStep, OutsiderStep, ZenonT(60) DEF IInv
<1>2. QED BY InitIInv, <1>1, PTL DEF Spec

\* At most one thread works on a timeline's buffer (locking_policy).
THEOREM MutualExclusionTheorem == Spec => []MutualExclusion
<1>1. IInv => MutualExclusion
  BY InsideUnique, Zenon DEF MutualExclusion
<1>2. QED BY <1>1, InductiveInvariant, PTL

\* ht_timeline_push_event never stores past the end of the buffer, whatever
\* the sizes of the events and the capacity given to ht_timeline_create.
THEOREM BufferBoundedTheorem == Spec => []BufferBounded
<1>1. IInv => BufferBounded
  BY Zenon DEF IInv
<1>2. QED BY <1>1, InductiveInvariant, PTL

\* No listener is destroyed while a timeline, or the registry, refers to the
\* container it is in (ht_timeline_listener_container_unref).
THEOREM ListenersOutliveTheorem == Spec => []ListenersOutliveTimelines
<1>1. IInv => ListenersOutliveTimelines
  BY Zenon DEF IInv
<1>2. QED BY <1>1, InductiveInvariant, PTL

\* What a timeline has accepted is what it has flushed and what is pending.
LEMMA PendingAccepted ==
  ASSUME IInv, NEW tl \in Timelines
  PROVE  /\ pushed[tl] = flushed[tl] \o Pending(tl)
         /\ flushed[tl] \in Seq(Events) /\ Pending(tl) \in Seq(Events)
<1>t. TypeOK /\ AcceptedInv
  BY Zenon DEF IInv
<1>1. flushed[tl] \in Seq(Events) /\ buffer[tl] \in Seq(Events)
  BY <1>t, Zenon DEF TypeOK
<1>2. CASE \E t \in Threads : pc[t] = "direct" /\ target[t] = tl
  <2>1. PICK t \in Threads : pc[t] = "direct" /\ target[t] = tl
    BY <1>2, Zenon
  <2>2. \A u \in Threads : pc[u] = "direct" /\ target[u] = tl => u = t
    BY <2>1, OtherLoops, Zenon DEF Inside
  <2>3. (CHOOSE u \in Threads : pc[u] = "direct" /\ target[u] = tl) = t
    BY <2>1, <2>2, Zenon
  <2>4. Pending(tl) = <<event[t]>>
    BY <1>2, <2>3, Zenon DEF Pending
  <2>5. event[t] \in Events /\ pushed[tl] = Append(flushed[tl], event[t])
    BY <2>1, <1>t, BusyType, Zenon DEF AcceptedInv
  <2>6. Append(flushed[tl], event[t]) = flushed[tl] \o <<event[t]>>
    BY <1>1, <2>5, AppendConcat, Zenon
  <2>7. <<event[t]>> \in Seq(Events)
    BY <2>5, SMTT(60)
  <2>8. QED BY <1>1, <2>4, <2>5, <2>6, <2>7, Zenon
<1>3. CASE ~\E t \in Threads : pc[t] = "direct" /\ target[t] = tl
  <2>1. Pending(tl) = buffer[tl]
    BY <1>3, Zenon DEF Pending
  <2>2. pushed[tl] = flushed[tl] \o buffer[tl]
    BY <1>3, <1>t, Zenon DEF AcceptedInv
  <2>3. QED BY <1>1, <2>1, <2>2, Zenon
<1>4. QED BY <1>2, <1>3, Zenon

\* Every registered listener has got exactly the accepted events it is not
\* still owed, in order, across buffered, direct and forced deliveries.
THEOREM InOrderDeliveryTheorem == Spec => []InOrderDelivery
<1>1. IInv => InOrderDelivery
  <2> SUFFICES ASSUME IInv, NEW i \in DOMAIN entries, NEW tl \in Timelines
               PROVE  missed[entries[i]][tl] \o received[entries[i]][tl]
                        \o (IF Served(i, tl) THEN << >> ELSE Pending(tl)) = pushed[tl]
    BY Zenon DEF InOrderDelivery
  <2>1. missed[entries[i]][tl] \o received[entries[i]][tl] =
          IF Served(i, tl) THEN pushed[tl] ELSE flushed[tl]
    BY Zenon DEF IInv, DeliveredInv
  <2>2. pushed[tl] = flushed[tl] \o Pending(tl) /\ pushed[tl] \in Seq(Events)
    BY PendingAccepted, Zenon DEF IInv, TypeOK
  <2>3. pushed[tl] \o << >> = pushed[tl]
    BY <2>2, CatEmpty, Zenon
  <2>4. QED BY <2>1, <2>2, <2>3, Zenon
<1>2. QED BY <1>1, InductiveInvariant, PTL

\* When ht_timeline_destroy has returned nothing the timeline accepted is
\* missing from any listener, destroyed ones included.
THEOREM NothingLostTheorem == Spec => []NothingLostAtDestroy
<1>1. IInv => NothingLostAtDestroy
  <2> SUFFICES ASSUME IInv, NEW tl \in Timelines, status[tl] = "dead",
                      NEW l \in destroyed \cup {entries[i] : i \in DOMAIN entries}
               PROVE  missed[l][tl] \o received[l][tl] = pushed[tl]
    BY Zenon DEF NothingLostAtDestroy
  <2>1. \A t \in Threads : pc[t] # "idle" => target[t] # tl
    BY BusyType, Zenon
  <2>2. buffer[tl] = << >> /\ flushed[tl] \in Seq(Events)
    BY Zenon DEF IInv, BufferInv, TypeOK
  <2>3. pushed[tl] = flushed[tl] \o << >>
    BY <2>1, <2>2, Zenon DEF IInv, AcceptedInv
  <2>4. pushed[tl] = flushed[tl]
    BY <2>2, <2>3, CatEmpty, Zenon
  <2>5. CASE l \in destroyed
    BY <2>5, Zenon DEF IInv, OutsiderInv
  <2>6. CASE \E i \in DOMAIN entries : l = entries[i]
    BY <2>4, <2>6, Zenon DEF IInv, DeliveredInv
  <2>7. QED BY <2>5, <2>6, Zenon
<1>2. QED BY <1>1, InductiveInvariant, PTL
-----------------------------------------------------------------------------
\* Timeline implements EventStream.

LEMMA SubFacts ==
  ASSUME NEW S, NEW s \in Seq(S), NEW m \in 1..(Len(s) + 1), NEW n \in (m - 1)..Len(s)
  PROVE  /\ SubSeq(s, m, n) \in Seq(S) /\ Len(SubSeq(s, m, n)) = n - m + 1
         /\ \A k \in 1..(n - m + 1) : SubSeq(s, m, n)[k] = s[m + k - 1]
OBVIOUS

\* The end of a sequence behind a prefix m, part r of which a listener has.
LEMMA PieceFacts ==
  ASSUME NEW S, NEW m \in Seq(S), NEW r \in Seq(S), NEW ev \in Seq(S), Len(ev) # 0,
         NEW p \in Seq(S), p = m \o (r \o ev)
  PROVE  /\ Len(m) + 1 \in 1..Len(p) /\ Len(p) \in 1..Len(p)
         /\ SubSeq(p, Len(m) + 1, Len(p)) = r \o ev
         /\ Len(r) < Len(r \o ev)
         /\ r = SubSeq(r \o ev, 1, Len(r))
<1> DEFINE q == r \o ev
<1>1. Len(m) \in Nat /\ Len(r) \in Nat /\ Len(ev) \in Nat /\ Len(ev) > 0
  BY SeqFacts
<1>2. /\ q \in Seq(S) /\ Len(q) = Len(r) + Len(ev)
      /\ \A k \in 1..Len(r) : q[k] = r[k]
  OBVIOUS
<1> HIDE DEF q
<1>3. p = m \o q
  BY Zenon DEF q
<1>4. /\ Len(p) = Len(m) + Len(q)
      /\ \A k \in 1..Len(q) : p[Len(m) + k] = q[k]
  BY <1>1, <1>2, <1>3, SMTT(60)
<1>5. Len(m) + 1 \in 1..Len(p) /\ Len(p) \in 1..Len(p) /\ Len(r) < Len(q)
  BY <1>1, <1>2, <1>4
<1>6. SubSeq(p, Len(m) + 1, Len(p)) = q
  <2> DEFINE s == SubSeq(p, Len(m) + 1, Len(p))
  <2>1. /\ s \in Seq(S) /\ Len(s) = Len(q)
        /\ \A k \in 1..Len(q) : s[k] = p[Len(m) + k]
    <3> DEFINE a == Len(m) + 1
               b == Len(p)
    <3>1. /\ a \in 1..(Len(p) + 1) /\ b \in (a - 1)..Len(p) /\ b - a + 1 = Len(q)
          /\ \A k \in 1..Len(q) : a + k - 1 = Len(m) + k
      BY <1>1, <1>2, <1>4, <1>5
    <3> HIDE DEF a, b
    <3>2. /\ SubSeq(p, a, b) \in Seq(S) /\ Len(SubSeq(p, a, b)) = b - a + 1
          /\ \A k \in 1..(b - a + 1) : SubSeq(p, a, b)[k] = p[a + k - 1]
      BY <3>1, SubFacts, ZenonT(60)
    <3>3. QED BY <3>1, <3>2, Zenon DEF a, b
  <2> HIDE DEF s
  <2>2. \A k \in 1..Len(q) : s[k] = q[k]
    BY <1>4, <2>1, Zenon
  <2>3. s = q
    BY <1>2, <2>1, <2>2
  <2>4. QED BY <2>3, Zenon DEF s
<1>7. r = SubSeq(q, 1, Len(r))
  <2> DEFINE s == SubSeq(q, 1, Len(r))
  <2>1. s \in Seq(S) /\ Len(s) = Len(r) /\ \A k \in 1..Len(r) : s[k] = q[k]
    BY <1>1, <1>2, <1>5
  <2> HIDE DEF s
  <2>2. \A k \in 1..Len(r) : s[k] = r[k]
    BY <1>2, <2>1, Zenon
  <2>3. s = r
    BY <2>1, <2>2, SameSeq, Zenon
  <2>4. QED BY <2>3, Zenon DEF s
<1>8. QED BY <1>5, <1>6, <1>7, Zenon DEF q

\* One callback of notify_listeners hands its listener the next piece of the
\* timeline's log, or nothing.
LEMMA NotifyDelivers ==
  ASSUME IInv, NEW t \in Threads, NEW events \in Seq(Events),
         pc[t] \in {"flush", "direct"}, Notify(t, events),
         flushed[target[t]] \o events = pushed[target[t]]
  PROVE  [Stream!Next]_(Stream!svars)
<1>t. TypeOK /\ DeliveredInv
  BY Zenon DEF IInv
<1> DEFINE k == idx[t]
           me == target[t]
           l == entries[k]
<1>1. me \in Timelines /\ Inside(t, me)
  BY BusyType, Zenon DEF Inside
<1>2. /\ k \in 1..Len(entries) /\ l \in Listeners /\ pushed' = pushed
      /\ received' = [received EXCEPT ![l][me] = received[l][me] \o events]
  <2>1. k \in 1..Len(entries) /\ l \in Listeners /\ UNCHANGED pushed
    BY <1>t, NotifyRest, Zenon
  <2>2. QED BY <2>1, Zenon DEF Notify
<1>3. k \in DOMAIN entries /\ k \in Nat
  BY <1>t, <1>2, SeqFacts, Zenon DEF TypeOK
<1>4. ~Served(k, me)
  <2>1. \A u \in Threads : pc[u] \in {"flush", "direct"} => u = t \/ target[u] # me
    BY <1>1, OtherLoops, SMTT(60)
  <2>2. ~(k < k)
    BY <1>3
  <2>3. QED BY <2>1, <2>2, ZenonT(60) DEF Served
<1>5. missed[l][me] \o received[l][me] = flushed[me]
  BY <1>1, <1>3, <1>4, <1>t, ZenonT(60) DEF DeliveredInv
<1>6. /\ missed[l][me] \in Seq(Events) /\ received[l][me] \in Seq(Events)
      /\ pushed[me] \in Seq(Events) /\ received[l] \in [Timelines -> Seq(Events)]
      /\ received \in [Listeners -> [Timelines -> Seq(Events)]]
  BY <1>1, <1>2, <1>t, ZenonT(60) DEF TypeOK
<1> HIDE DEF k, me, l
<1>7. pushed[me] = missed[l][me] \o (received[l][me] \o events)
  <2>1. (missed[l][me] \o received[l][me]) \o events = missed[l][me] \o (received[l][me] \o events)
    BY <1>6, EventConcat, ZenonT(60)
  <2>2. QED BY <1>5, <2>1, Zenon DEF me
<1>8. CASE Len(events) = 0
  <2>1. received[l][me] \o events = received[l][me]
    BY <1>6, <1>8
  <2>2. received' = received
    BY <1>1, <1>2, <1>6, <2>1, Zenon
  <2>3. QED BY <1>2, <2>2, Zenon DEF Stream!svars
<1>9. CASE Len(events) # 0
  <2> DEFINE m == missed[l][me]
             r == received[l][me]
             log == pushed[me]
  <2>0. m \in Seq(Events) /\ r \in Seq(Events) /\ log \in Seq(Events) /\ log = m \o (r \o events)
    BY <1>6, <1>7, ZenonT(60)
  <2> HIDE DEF m, r, log
  <2> DEFINE first == Len(m) + 1
             last == Len(log)
  <2>1. /\ first \in 1..Len(log) /\ last \in 1..Len(log)
        /\ SubSeq(log, first, last) = r \o events
        /\ Len(r) < Len(r \o events) /\ r = SubSeq(r \o events, 1, Len(r))
    BY <2>0, <1>9, PieceFacts, SMTT(60)
  <2> HIDE DEF first, last
  <2>2. Stream!Deliver(l, me, first, last)
    BY <1>2, <2>1, Zenon DEF Stream!Deliver, r, log
  <2>3. QED BY <1>1, <1>2, <2>1, <2>2, Zenon DEF Stream!Next, log
<1>10. QED BY <1>8, <1>9, Zenon

\* Every step of the timelines is a step of the streams, or changes nothing of
\* them.
LEMMA StreamStep == IInv /\ [Next]_vars => [Stream!Next]_(Stream!svars)
<1> SUFFICES ASSUME IInv, [Next]_vars PROVE [Stream!Next]_(Stream!svars) BY Zenon
<1>t. TypeOK /\ AcceptedInv
  BY Zenon DEF IInv
<1>1. CASE UNCHANGED <<pushed, received>>
  BY <1>1, Zenon DEF Stream!svars
<1>2. ASSUME NEW t \in Threads, FlushNotify(t) PROVE [Stream!Next]_(Stream!svars)
  <2>1. target[t] \in Timelines /\ Inside(t, target[t])
    BY <1>2, BusyType, Zenon DEF FlushNotify, Inside
  <2>2. \A u \in Threads : pc[u] = "direct" => target[u] # target[t]
    BY <2>1, <1>2, OtherLoops, ZenonT(60) DEF FlushNotify
  <2>3. /\ flushed[target[t]] \o buffer[target[t]] = pushed[target[t]]
        /\ buffer[target[t]] \in Seq(Events)
    BY <2>1, <2>2, <1>t, Zenon DEF AcceptedInv, TypeOK
  <2>4. QED BY <2>3, <1>2, NotifyDelivers, Zenon DEF FlushNotify
<1>3. ASSUME NEW t \in Threads, DirectNotify(t) PROVE [Stream!Next]_(Stream!svars)
  <2>1. target[t] \in Timelines /\ event[t] \in Events /\ pc[t] = "direct"
    BY <1>3, BusyType, Zenon DEF DirectNotify
  <2>2. pushed[target[t]] = Append(flushed[target[t]], event[t])
    BY <2>1, <1>t, Zenon DEF AcceptedInv
  <2>3. flushed[target[t]] \in Seq(Events) /\ <<event[t]>> \in Seq(Events)
    BY <2>1, <1>t, SMTT(60) DEF TypeOK
  <2>4. flushed[target[t]] \o <<event[t]>> = pushed[target[t]]
    BY <2>1, <2>2, <2>3, AppendConcat, Zenon
  <2>5. QED BY <2>1, <2>3, <2>4, <1>3, NotifyDelivers, Zenon DEF DirectNotify
<1>4. ASSUME NEW t \in Threads, PlaceInBuffer(t) \/ PlaceDirect(t)
      PROVE  [Stream!Next]_(Stream!svars)
  <2>1. target[t] \in Timelines /\ event[t] \in Events
    BY <1>4, BusyType, Zenon DEF PlaceInBuffer, PlaceDirect
  <2>2. /\ pushed' = [pushed EXCEPT ![target[t]] = Append(@, event[t])]
        /\ received' = received
    BY <1>4, Zenon DEF PlaceInBuffer, PlaceDirect
  <2>3. Stream!Accept(target[t], event[t])
    BY <2>2, Zenon DEF Stream!Accept
  <2>4. QED BY <2>1, <2>3, Zenon DEF Stream!Next
<1>5. ASSUME NEW t \in Threads,
             Acquire(t) \/ FlushDone(t) \/ DirectDone(t) \/ Release(t) \/ Teardown(t)
      PROVE  UNCHANGED <<pushed, received>>
  BY <1>5, Zenon DEF Acquire, FlushDone, DirectDone, Release, Teardown, history
<1>6. ASSUME NEW t \in Threads, NEW tl \in Timelines,
             (\E e \in Events : BeginPush(t, tl, e)) \/ BeginFlush(t, tl) \/ BeginDestroy(t, tl)
      PROVE  UNCHANGED <<pushed, received>>
  BY <1>6, ZenonT(60) DEF BeginPush, BeginFlush, BeginDestroy, Call, history
<1>7. ASSUME (\E l \in Listeners : RegisterListener(l)) \/ RegistryDeinit \/ UNCHANGED vars
      PROVE  UNCHANGED <<pushed, received>>
  BY <1>7, ZenonT(60) DEF RegisterListener, RegistryDeinit, vars, history
<1>8. QED
  BY <1>1, <1>2, <1>3, <1>4, <1>5, <1>6, <1>7, Zenon DEF Next, Step

\* The timelines and their listeners implement EventStream: an ordered log for
\* every timeline, of which every listener has got a contiguous piece that only
\* grows at its end, whichever way ht_timeline_push_event, ht_timeline_flush and
\* ht_timeline_destroy of several threads interleave.
THEOREM RefinementTheorem == Spec => StreamSpec
<1>1. Init => Stream!Init
  BY Zenon DEF Init, Stream!Init
<1>2. IInv /\ [Next]_vars => [Stream!Next]_(Stream!svars)
  BY StreamStep, Zenon
<1>3. QED BY <1>1, <1>2, InductiveInvariant, PTL DEF Spec, StreamSpec, Stream!Spec

=============================================================================
