--------------------------- MODULE KlassRegistry ---------------------------
(***************************************************************************)
(* The register of event klasses (registry.c): klasses get their ids from  *)
(* ht_registry_register_event_klass, new listeners are told the registered *)
(* klasses by ht_registry_push_registry_klasses_to_listener, and timelines *)
(* deliver events that carry nothing of their klass but its id.            *)
(*                                                                         *)
(* A klass is described by a klass-info event and one event per field;     *)
(* Infos[k] gives their sizes.  A step is one critical section of the      *)
(* register's mutex or one iteration of the pushing loop, which holds that *)
(* mutex.  Calls of ht_init while the library is initialized are the       *)
(* subject of ContainerRegistry.                                           *)
(***************************************************************************)
EXTENDS Naturals, Sequences, Functions

CONSTANTS Threads,    \* threads that register klasses
          Listeners,  \* listeners, each with the thread that creates it
          Core,       \* the klasses ht_init registers, in order
          User,       \* klasses registered by the application
          Infos,      \* Infos[k]: sizes of the events that describe k
          BuffSize,   \* REGISTRY_LISETNER_BUFF_SIZE
          OneByOne,   \* no klass is registered by two threads at once
          MaxInits,   \* bound on the calls of ht_init
          MaxEvents,  \* bound on the events delivered
          Nobody, NoKlass, Invalid

Klasses == Range(Core) \cup User

ASSUME KlassRegistryAssumption ==
  /\ Core \in Seq(Range(Core)) /\ Core # << >> /\ IsInjective(Core)
  /\ NoKlass \notin Klasses
  /\ Nobody \notin Listeners
  /\ Invalid \notin Nat
  /\ BuffSize \in Nat /\ Infos \in [Klasses -> Seq(1..BuffSize)]
  /\ \A k \in Klasses : Infos[k] # << >>

VARIABLES
  inits,    \* calls of ht_init so far
  boot,     \* core klass ht_init registers next, 0 outside ht_init
  up,       \* _ht_init_counter > 0
  klasses,  \* event_klass_register
  id,       \* id[k]: the klass_id field of klass k
  mtx,      \* listener whose pushing loop is inside the register's mutex
  pc,       \* pc[t]: "idle", or "add" after klass_id was found invalid
  adding,   \* adding[t]: the klass thread t registers
  at,       \* at[l]: where the creation of listener l is
  i, j,     \* klass and info event the loop of l handles next
  data,     \* data[l]: the events in the local buffer of the pushing loop
  pos,      \* pos[l]: data_pos, the bytes they take
  stream,   \* stream[l]: what listener l has received
  events,   \* events delivered so far
  known     \* history: klasses in the register when l was created

vars == <<inits, boot, up, klasses, id, mtx, pc, adding, at, i, j, data, pos, stream,
          events, known>>

library == <<inits, boot, up>>
threads == <<pc, adding>>
pushing == <<mtx, at, i, j, data, pos, known>>

\* What a listener receives: <<"info", klass, klass id, number of the info
\* event>> or <<"event", klass, klass id, 0>>.
Info(k, n) == <<"info", k, id[k], n>>
Event(k) == <<"event", k, id[k], 0>>

Init ==
  /\ inits = 0 /\ boot = 0 /\ up = FALSE
  /\ klasses = << >>
  /\ id = [k \in Klasses |-> Invalid]
  /\ mtx = Nobody
  /\ pc = [t \in Threads |-> "idle"]
  /\ adding = [t \in Threads |-> NoKlass]
  /\ at = [l \in Listeners |-> "new"]
  /\ i = [l \in Listeners |-> 1]
  /\ j = [l \in Listeners |-> 1]
  /\ data = [l \in Listeners |-> << >>]
  /\ pos = [l \in Listeners |-> 0]
  /\ stream = [l \in Listeners |-> << >>]
  /\ events = 0
  /\ known = [l \in Listeners |-> {}]

\* No thread is inside a function of the library.
Quiet ==
  /\ \A t \in Threads : pc[t] = "idle"
  /\ \A l \in Listeners : at[l] \in {"new", "attached"}

\* ht_init begins with an empty register.
HtInit ==
  /\ ~up /\ boot = 0 /\ inits < MaxInits /\ Quiet
  /\ inits' = inits + 1
  /\ boot' = 1
  /\ klasses' = << >>
  /\ UNCHANGED <<up, id, threads, pushing, stream, events>>

\* The klass is added to the register, and its place is its id.
Enter(k) ==
  /\ klasses' = Append(klasses, k)
  /\ id' = [id EXCEPT ![k] = Len(klasses)]

\* HT_REGISTER_EVENT_KLASS for one core klass.  One that has an id is left
\* alone: the id lives in a static variable of the klass and is never reset.
\* So is one for which the register has no memory.
InitKlass ==
  /\ boot \in DOMAIN Core
  /\ boot' = boot + 1
  /\ \/ id[Core[boot]] = Invalid /\ Enter(Core[boot])
     \/ UNCHANGED <<klasses, id>>
  /\ UNCHANGED <<inits, up, threads, pushing, stream, events>>

\* The end of ht_init.
InitDone ==
  /\ boot = Len(Core) + 1
  /\ boot' = 0
  /\ up' = TRUE
  /\ UNCHANGED <<inits, klasses, id, threads, pushing, stream, events>>

\* ht_deinit.
HtDeinit ==
  /\ up /\ Quiet
  /\ up' = FALSE
  /\ klasses' = << >>
  /\ UNCHANGED <<inits, boot, id, threads, pushing, stream, events>>

-----------------------------------------------------------------------------
\* ht_registry_register_event_klass.

MayRegister(t, k) ==
  /\ up /\ pc[t] = "idle"
  /\ OneByOne => \A u \in Threads : adding[u] # k

\* klass_id is read outside the mutex; a klass that has an id is left alone,
\* so only the other outcome is a step.
Register(t, k) ==
  /\ MayRegister(t, k)
  /\ id[k] = Invalid
  /\ pc' = [pc EXCEPT ![t] = "add"]
  /\ adding' = [adding EXCEPT ![t] = k]
  /\ UNCHANGED <<library, klasses, id, pushing, stream, events>>

AddEnds(t) ==
  /\ pc[t] = "add" /\ mtx = Nobody
  /\ pc' = [pc EXCEPT ![t] = "idle"]
  /\ adding' = [adding EXCEPT ![t] = NoKlass]
  /\ UNCHANGED <<library, pushing, stream, events>>

\* Faulty variant of Add: the id is one too high.
AddHigh(t) ==
  /\ AddEnds(t)
  /\ klasses' = Append(klasses, adding[t])
  /\ id' = [id EXCEPT ![adding[t]] = Len(klasses) + 1]

\* The critical section.
Add(t) == AddEnds(t) /\ Enter(adding[t])

\* The register has no memory for the klass, which stays without an id.
AddFails(t) == AddEnds(t) /\ UNCHANGED <<klasses, id>>

-----------------------------------------------------------------------------
\* Creation of a listener: it is told every registered klass, then attached
\* to the timeline.

PushBegin(l) ==
  /\ up /\ at[l] = "new" /\ mtx = Nobody
  /\ at' = [at EXCEPT ![l] = "push"]
  /\ mtx' = l
  /\ known' = [known EXCEPT ![l] = Range(klasses)]
  /\ UNCHANGED <<library, klasses, id, threads, i, j, data, pos, stream, events>>

\* Faulty variant of Full: the buffer may be overrun by one event.
FullLate(l, size) == pos[l] > BuffSize

\* The next info event does not fit behind the ones in the local buffer.
Full(l, size) == size > BuffSize - pos[l]

\* The loop puts info event j of klass k into the buffer, behind what is kept
\* when the buffer is handed over, and goes on.
Step(l, kept) ==
  /\ at[l] = "push" /\ i[l] <= Len(klasses)
  /\ LET k == klasses[i[l]]
         size == Infos[k][j[l]]
         full == Full(l, size)
         last == j[l] = Len(Infos[k])
     IN /\ stream' = IF full THEN [stream EXCEPT ![l] = @ \o data[l]] ELSE stream
        /\ data' = [data EXCEPT ![l] = Append(IF full THEN kept ELSE @, Info(k, j[l]))]
        /\ pos' = [pos EXCEPT ![l] = IF full THEN size ELSE @ + size]
        /\ i' = IF last THEN [i EXCEPT ![l] = @ + 1] ELSE i
        /\ j' = [j EXCEPT ![l] = IF last THEN 1 ELSE @ + 1]
  /\ UNCHANGED <<library, klasses, id, threads, mtx, at, events, known>>

\* Faulty variant of PushInfo: what was handed over stays in the buffer.
PushInfoKeeping(l) == Step(l, data[l])

\* One info event of _ht_registry_push_class_to_listener: if it does not fit,
\* what is in the buffer goes to the listener first.
PushInfo(l) == Step(l, << >>)

\* The end of the loop: the mutex is released ...
PushEnd(l) ==
  /\ at[l] = "push" /\ i[l] > Len(klasses)
  /\ at' = [at EXCEPT ![l] = "tail"]
  /\ mtx' = Nobody
  /\ UNCHANGED <<library, klasses, id, threads, i, j, data, pos, stream, events, known>>

\* Faulty variant of PushTail: the rest of the buffer is forgotten.
PushTailLost(l) ==
  /\ at[l] = "tail"
  /\ at' = [at EXCEPT ![l] = "attached"]
  /\ data' = [data EXCEPT ![l] = << >>]
  /\ UNCHANGED <<library, klasses, id, threads, mtx, i, j, pos, stream, events, known>>

\* ... and the rest of the buffer goes to the listener.
PushTail(l) ==
  /\ at[l] = "tail"
  /\ at' = [at EXCEPT ![l] = "attached"]
  /\ stream' = [stream EXCEPT ![l] = @ \o data[l]]
  /\ data' = [data EXCEPT ![l] = << >>]
  /\ UNCHANGED <<library, klasses, id, threads, mtx, i, j, pos, events, known>>

\* A timeline delivers an event of a registered klass to every listener.
Deliver(k) ==
  /\ up /\ id[k] # Invalid
  /\ events < MaxEvents
  /\ events' = events + 1
  /\ stream' = [l \in Listeners |->
                  IF at[l] = "attached" THEN Append(stream[l], Event(k)) ELSE stream[l]]
  /\ UNCHANGED <<library, klasses, id, threads, pushing>>

Next ==
  \/ HtInit \/ InitKlass \/ InitDone \/ HtDeinit
  \/ \E t \in Threads : Add(t) \/ AddFails(t) \/ \E k \in User : Register(t, k)
  \/ \E l \in Listeners : PushBegin(l) \/ PushInfo(l) \/ PushEnd(l) \/ PushTail(l)
  \/ \E k \in Klasses : Deliver(k)

Spec == Init /\ [][Next]_vars

-----------------------------------------------------------------------------
(***************************************************************************)
(* Properties.                                                             *)
(***************************************************************************)

\* While the library is initialized, the id of a klass is its place in the
\* register: what get_event_klasses()[id] relies on.
IdIsPlace ==
  up => \A k \in Klasses : id[k] # Invalid =>
          id[k] + 1 \in DOMAIN klasses /\ klasses[id[k] + 1] = k

\* The local buffer of the pushing loop never overflows.
BufferFits == \A l \in Listeners : pos[l] <= BuffSize

\* In the stream of a listener every event of a klass that was registered when
\* the listener was created comes after all the events that describe the klass,
\* with the same id.
AnnouncedFirst ==
  \A l \in Listeners : \A n \in DOMAIN stream[l] :
    stream[l][n][1] = "event" /\ stream[l][n][2] \in known[l] =>
      \A m \in DOMAIN Infos[stream[l][n][2]] : \E p \in 1..(n - 1) :
        stream[l][p] = <<"info", stream[l][n][2], stream[l][n][3], m>>

\* What listener l has received or will find in its buffer.
Told(l) == stream[l] \o data[l]

\* A listener is told about every klass exactly once and in the order of the
\* ids, with no description torn apart, although the loop may hand its buffer
\* over in the middle of one.
ToldInOrder ==
  \A l \in Listeners : \A n, m \in DOMAIN Told(l) :
    LET x == Told(l)[n]
        y == Told(l)[m]
    IN n < m /\ x[1] = "info" /\ y[1] = "info" =>
         x[3] < y[3] \/ (x[3] = y[3] /\ x[4] < y[4])

=============================================================================
