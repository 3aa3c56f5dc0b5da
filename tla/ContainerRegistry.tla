------------------------- MODULE ContainerRegistry -------------------------
(***************************************************************************)
(* The register of listener containers (registry.c), the reference count   *)
(* of a container (timeline_listener.c), and the threads whose timelines   *)
(* share a container because they were created under one name, as the      *)
(* per-thread global timelines do (global_timeline.cpp).                   *)
(*                                                                         *)
(* A thread owns at most one timeline at a time.  Each step is one         *)
(* critical section of listeners_register_mutex or of a container's mutex; *)
(* the increment of the reference count of a container that was found is   *)
(* protected by neither, so it is a read and a write.  The decrement is a  *)
(* read and a write, too, with the container's mutex held in between.      *)
(***************************************************************************)
EXTENDS Naturals, Sequences, FiniteSets

CONSTANTS Threads,
          Main,        \* the thread that calls ht_init and ht_deinit
          Containers,  \* addresses of containers
          Names,       \* names of shared containers
          Anonymous,   \* the NULL name
          Hash,        \* djb2_hash of each name
          Serialized,  \* timelines are created and destroyed one at a time
          Nested,      \* ht_init may be called while the library is initialized
          RegisterCapacity, \* entries the register holds before it must grow
          MaxCreates,  \* bound on the timelines created
          MaxInits,    \* bound on the calls of ht_init
          Nobody, NoContainer

ASSUME ContainerRegistryAssumption ==
  /\ IsFiniteSet(Threads)
  /\ Main \in Threads /\ Nobody \notin Threads
  /\ NoContainer \notin Containers
  /\ Anonymous \notin Names
  /\ Hash \in [Names -> Nat]
  /\ Serialized \in BOOLEAN /\ Nested \in BOOLEAN
  /\ RegisterCapacity \in Nat
  /\ MaxCreates \in Nat /\ MaxInits \in Nat

VARIABLES
  counter,   \* _ht_init_counter
  inits,     \* calls of ht_init so far
  register,  \* listeners_register
  id,        \* id[c]
  memory,    \* memory[c]: "unused", "live" or "freed"
  refcount,  \* refcount[c]
  mutex,     \* mutex[c]: the thread inside the mutex of c, or Nobody
  pc,        \* where each thread is
  name,      \* name[t]: the name under which t creates its timeline
  held,      \* held[t]: the listeners field of the timeline of t
  tmp,       \* tmp[t]: the reference count t has read
  born,      \* born[t]: number of ht_init calls when t created its timeline
  loop,      \* loop variable of ht_registry_deinit, 0 when it does not run
  creates,   \* timelines created so far
  refused,   \* history: containers the register could not take
  renewed    \* history: 1 once ht_init was called while initialized

vars == <<counter, inits, register, id, memory, refcount, mutex, pc, name, held,
          tmp, born, loop, creates, refused, renewed>>

library == <<counter, inits, loop, renewed>>
thread  == <<name, born, creates, refused>>

Init ==
  /\ counter = 0 /\ inits = 0
  /\ register = << >>
  /\ id = [c \in Containers |-> 0]
  /\ memory = [c \in Containers |-> "unused"]
  /\ refcount = [c \in Containers |-> 0]
  /\ mutex = [c \in Containers |-> Nobody]
  /\ pc = [t \in Threads |-> "none"]
  /\ name = [t \in Threads |-> Anonymous]
  /\ held = [t \in Threads |-> NoContainer]
  /\ tmp = [t \in Threads |-> 0]
  /\ born = [t \in Threads |-> 0]
  /\ loop = 0
  /\ creates = 0
  /\ refused = {} /\ renewed = 0

\* No thread is inside ht_timeline_create or ht_timeline_destroy.
Quiet == \A t \in Threads : pc[t] \in {"none", "has"}

\* No thread is inside ht_timeline_create.
NoneCreates == \A t \in Threads : pc[t] \in {"none", "has", "drop"}

-----------------------------------------------------------------------------
\* ht_init and ht_deinit, called by Main while no timeline is being created.

\* ht_init: every call makes ht_registry_init set up an empty register.
HtInit ==
  /\ inits < MaxInits
  /\ counter > 0 => Nested
  /\ loop = 0 /\ Quiet
  /\ inits' = inits + 1
  /\ counter' = counter + 1
  /\ register' = << >>
  /\ renewed' = IF counter > 0 THEN 1 ELSE renewed
  /\ UNCHANGED <<id, memory, refcount, mutex, pc, held, tmp, loop, thread>>

\* ht_deinit, when an earlier ht_init is still to be matched.
HtDeinitNested ==
  /\ loop = 0 /\ counter > 1
  /\ pc[Main] \in {"none", "has"}
  /\ counter' = counter - 1
  /\ UNCHANGED <<inits, register, id, memory, refcount, mutex, pc, held, tmp,
                 loop, thread, renewed>>

\* The last ht_deinit.  Only ht_timeline_destroy may be called from now on.
HtDeinit ==
  /\ loop = 0 /\ counter = 1
  /\ NoneCreates
  /\ pc[Main] \in {"none", "has"}
  /\ Serialized => Quiet
  /\ counter' = 0
  /\ loop' = 1
  /\ UNCHANGED <<inits, register, id, memory, refcount, mutex, pc, held, tmp,
                 thread, renewed>>

\* ht_registry_deinit drops the reference the register holds on a container.
DeinitUnref ==
  /\ loop \in 1..Len(register)
  /\ LET c == register[loop] IN
     /\ mutex[c] = Nobody
     /\ refcount[c] > 0
     /\ refcount' = [refcount EXCEPT ![c] = @ - 1]
     /\ memory' = IF refcount[c] = 1 THEN [memory EXCEPT ![c] = "freed"] ELSE memory
  /\ loop' = loop + 1
  /\ UNCHANGED <<counter, inits, register, id, mutex, pc, held, tmp, thread,
                 renewed>>

\* The end of ht_registry_deinit: the register itself is released.
DeinitDone ==
  /\ loop > Len(register)
  /\ loop' = 0
  /\ register' = << >>
  /\ UNCHANGED <<counter, inits, id, memory, refcount, mutex, pc, held, tmp, thread,
                 renewed>>

-----------------------------------------------------------------------------
\* ht_find_or_create_listener, called by ht_timeline_create.

\* The places of the register whose container has the hash of the name as id.
Matching(n) == {p \in DOMAIN register : id[register[p]] = Hash[n]}

\* ht_registry_find_listener_container: the first of them.
Find(n) ==
  IF Matching(n) = {} THEN NoContainer
  ELSE register[CHOOSE p \in Matching(n) : \A q \in Matching(n) : p <= q]

\* ht_timeline_create may be called.
MayCreate(t) ==
  /\ pc[t] = "none"
  /\ counter > 0 /\ loop = 0
  /\ creates < MaxCreates
  /\ Serialized => Quiet

Start(t, n, c, next) ==
  /\ creates' = creates + 1
  /\ name' = [name EXCEPT ![t] = n]
  /\ born' = [born EXCEPT ![t] = inits]
  /\ held' = [held EXCEPT ![t] = c]
  /\ pc' = [pc EXCEPT ![t] = next]

\* The container is found.
CreateFound(t, n) ==
  /\ MayCreate(t)
  /\ Find(n) # NoContainer
  /\ Start(t, n, Find(n), "bump")
  /\ UNCHANGED <<register, id, memory, refcount, mutex, tmp, library, refused>>

\* ht_timeline_listener_container_create.
Allocate(c) ==
  /\ memory[c] = "unused"
  /\ memory' = [memory EXCEPT ![c] = "live"]
  /\ refcount' = [refcount EXCEPT ![c] = 1]

\* No name, or no container of that name: a new container is allocated.
CreateNew(t, n) ==
  /\ MayCreate(t)
  /\ n \in Names => Find(n) = NoContainer
  /\ \E c \in Containers :
       /\ Allocate(c)
       /\ Start(t, n, c, IF n \in Names THEN "check" ELSE "has")
  /\ UNCHANGED <<register, id, mutex, tmp, library, refused>>

\* container->refcount++ in ht_find_or_create_listener: the read ...
BumpRead(t) ==
  /\ pc[t] = "bump"
  /\ tmp' = [tmp EXCEPT ![t] = refcount[held[t]]]
  /\ pc' = [pc EXCEPT ![t] = "write"]
  /\ UNCHANGED <<register, id, memory, refcount, mutex, held, library, thread>>

\* Faulty variant of BumpWrite: the found container is not referenced.
BumpForgotten(t) ==
  /\ pc[t] = "write"
  /\ pc' = [pc EXCEPT ![t] = "has"]
  /\ UNCHANGED <<register, id, memory, refcount, mutex, held, tmp, library, thread>>

\* ... and the write.
BumpWrite(t) ==
  /\ pc[t] = "write"
  /\ refcount' = [refcount EXCEPT ![held[t]] = tmp[t] + 1]
  /\ tmp' = [tmp EXCEPT ![t] = 0]
  /\ pc' = [pc EXCEPT ![t] = "has"]
  /\ UNCHANGED <<register, id, memory, mutex, held, library, thread>>

\* ht_registry_register_listener_container looks the name up again.  When it
\* is there the error is ignored and the timeline keeps its own container.
Check(t) ==
  /\ pc[t] = "check"
  /\ pc' = [pc EXCEPT ![t] = IF Find(name[t]) = NoContainer THEN "add" ELSE "has"]
  /\ UNCHANGED <<register, id, memory, refcount, mutex, held, tmp, library, thread>>

\* Faulty variant of Add: the container is registered without its id.
AddWithoutId(t) ==
  /\ pc[t] = "add"
  /\ refcount' = [refcount EXCEPT ![held[t]] = @ + 1]
  /\ register' = Append(register, held[t])
  /\ pc' = [pc EXCEPT ![t] = "has"]
  /\ UNCHANGED <<id, memory, mutex, held, tmp, library, thread>>

\* Its second critical section adds the container to the register.
Add(t) ==
  /\ pc[t] = "add"
  /\ id' = [id EXCEPT ![held[t]] = Hash[name[t]]]
  /\ refcount' = [refcount EXCEPT ![held[t]] = @ + 1]
  /\ register' = Append(register, held[t])
  /\ pc' = [pc EXCEPT ![t] = "has"]
  /\ UNCHANGED <<memory, mutex, held, tmp, library, thread>>

\* ... unless the register is full and cannot grow: the id and the reference
\* taken for the register stay, and the error is ignored.
AddFails(t) ==
  /\ pc[t] = "add" /\ Len(register) >= RegisterCapacity
  /\ id' = [id EXCEPT ![held[t]] = Hash[name[t]]]
  /\ refcount' = [refcount EXCEPT ![held[t]] = @ + 1]
  /\ refused' = refused \cup {held[t]}
  /\ pc' = [pc EXCEPT ![t] = "has"]
  /\ UNCHANGED <<register, memory, mutex, held, tmp, library, name, born, creates>>

-----------------------------------------------------------------------------
\* ht_timeline_listener_container_unref, called by ht_timeline_destroy and by
\* a ht_timeline_create that cannot make its locking policy.

\* The mutex is taken and the count read ...
UnrefRead(t) ==
  /\ pc[t] = "has"
  /\ Serialized => Quiet /\ loop = 0
  /\ mutex[held[t]] = Nobody
  /\ mutex' = [mutex EXCEPT ![held[t]] = t]
  /\ tmp' = [tmp EXCEPT ![t] = refcount[held[t]]]
  /\ pc' = [pc EXCEPT ![t] = "drop"]
  /\ UNCHANGED <<register, id, memory, refcount, held, library, thread>>

Drop(t) ==
  /\ pc[t] = "drop" /\ tmp[t] > 0
  /\ refcount' = [refcount EXCEPT ![held[t]] = tmp[t] - 1]
  /\ mutex' = [mutex EXCEPT ![held[t]] = Nobody]
  /\ held' = [held EXCEPT ![t] = NoContainer]
  /\ name' = [name EXCEPT ![t] = Anonymous]
  /\ born' = [born EXCEPT ![t] = 0]
  /\ tmp' = [tmp EXCEPT ![t] = 0]
  /\ pc' = [pc EXCEPT ![t] = "none"]
  /\ UNCHANGED <<register, id, library, creates, refused>>

\* Faulty variant of UnrefWrite: released one reference too early.
UnrefEarly(t) ==
  /\ Drop(t)
  /\ memory' = IF tmp[t] <= 2 THEN [memory EXCEPT ![held[t]] = "freed"] ELSE memory

\* ... then written back; at zero the container is released.
UnrefWrite(t) ==
  /\ Drop(t)
  /\ memory' = IF tmp[t] = 1 THEN [memory EXCEPT ![held[t]] = "freed"] ELSE memory

ThreadStep(t) ==
  \/ \E n \in Names : CreateFound(t, n)
  \/ \E n \in Names \cup {Anonymous} : CreateNew(t, n)
  \/ BumpRead(t) \/ BumpWrite(t)
  \/ Check(t) \/ Add(t) \/ AddFails(t)
  \/ UnrefRead(t) \/ UnrefWrite(t)

Next ==
  \/ HtInit \/ HtDeinitNested \/ HtDeinit \/ DeinitUnref \/ DeinitDone
  \/ \E t \in Threads : ThreadStep(t)

Spec == Init /\ [][Next]_vars

-----------------------------------------------------------------------------
(***************************************************************************)
(* Properties.                                                             *)
(***************************************************************************)

\* Timelines created under one name since the same ht_init notify the same
\* listeners: ht_find_or_create_listener gave them one container, if the register
\* had room for it.  Timelines under names with different hashes, or without a
\* name, never share one.
RightContainer ==
  \A t, u \in Threads :
    /\ /\ pc[t] = "has" /\ pc[u] = "has"
       /\ name[t] = name[u] /\ name[t] # Anonymous
       /\ born[t] = born[u]
       /\ {held[t], held[u]} \cap refused = {}
       => held[t] = held[u]
    /\ t # u /\ held[t] # NoContainer /\ held[t] = held[u]
       => /\ name[t] # Anonymous /\ name[u] # Anonymous
          /\ Hash[name[t]] = Hash[name[u]]

\* A container that a timeline or the register points to has not been freed
\* by ht_timeline_listener_container_unref.
NoUseAfterFree ==
  /\ \A t \in Threads : held[t] # NoContainer => memory[held[t]] = "live"
  /\ \A i \in DOMAIN register : i >= loop => memory[register[i]] = "live"

\* Timelines of c that have taken their reference and not dropped it.
Users(c) == {t \in Threads : held[t] = c /\ pc[t] \notin {"bump", "write"}}

\* Places of the register that hold a reference on c.
Entries(c) == {i \in DOMAIN register : register[i] = c /\ i >= loop}

\* The reference that was taken for a register that could not hold c.
Stray(c) == {c} \cap refused

\* The reference count is exactly the number of timelines and registers that
\* use the container, whatever the order of creations, destructions and
\* ht_deinit; and nothing leaks: after ht_deinit, once the last timeline is
\* destroyed (before or after it), every container has been freed, but for the
\* ones a full register refused, whose extra reference nobody drops.  Both hold
\* until an ht_init forgets a register that is in use.
RefsExact ==
  renewed = 0 =>
    /\ \A c \in Containers :
         refcount[c] = Cardinality(Users(c)) + Cardinality(Entries(c)) + Cardinality(Stray(c))
    /\ counter = 0 /\ loop = 0 /\ (\A t \in Threads : pc[t] = "none")
       => \A c \in Containers \ refused : memory[c] # "live"

-----------------------------------------------------------------------------
(***************************************************************************)
(* What the proofs of the properties rest on, when timelines are created   *)
(* and destroyed one at a time.                                            *)
(***************************************************************************)

\* The types of the variables.
TypeOK ==
  /\ counter \in Nat /\ inits \in Nat /\ loop \in Nat /\ creates \in Nat
  /\ register \in Seq(Containers)
  /\ id \in [Containers -> Nat]
  /\ memory \in [Containers -> {"unused", "live", "freed"}]
  /\ refcount \in [Containers -> Nat]
  /\ mutex \in [Containers -> Threads \cup {Nobody}]
  /\ pc \in [Threads -> {"none", "has", "bump", "write", "check", "add", "drop"}]
  /\ name \in [Threads -> Names \cup {Anonymous}]
  /\ held \in [Threads -> Containers \cup {NoContainer}]
  /\ tmp \in [Threads -> Nat] /\ born \in [Threads -> Nat]
  /\ refused \subseteq Containers
  /\ renewed \in {0, 1}

\* At most one thread is inside ht_timeline_create or ht_timeline_destroy, none
\* while ht_registry_deinit runs; the register is empty outside ht_init and
\* ht_deinit.
SerialInv ==
  /\ \A t, u \in Threads : {pc[t], pc[u]} \cap {"none", "has"} = {} => t = u
  /\ loop # 0 => Quiet /\ counter = 0
  /\ loop <= Len(register) + 1
  /\ counter = 0 /\ loop = 0 => register = << >>

\* A thread and its container: one that was found is in the register, one that
\* was allocated under a name is not, belongs to nobody else, and nothing in the
\* register has that name.  The count that was read is still the count.
ThreadOK(t) ==
  /\ pc[t] = "none" <=> held[t] = NoContainer
  /\ pc[t] \in {"bump", "write"} => \E p \in DOMAIN register : register[p] = held[t]
  /\ pc[t] \in {"check", "add"} =>
       /\ name[t] \in Names /\ held[t] \notin refused
       /\ \A p \in DOMAIN register :
            register[p] # held[t] /\ id[register[p]] # Hash[name[t]]
       /\ \A u \in Threads : held[u] = held[t] => u = t
  /\ pc[t] \notin {"none", "has", "drop"} => born[t] = inits /\ counter > 0
  /\ pc[t] \in {"write", "drop"} => tmp[t] = refcount[held[t]]
  /\ born[t] <= inits

ThreadInv == \A t \in Threads : ThreadOK(t)

\* The register holds one entry for each id, which is that of the hash of the names
\* of its timelines; and every timeline created under a name since ht_init has
\* its container there, unless it was refused.
RegisterInv ==
  /\ \A p, q \in DOMAIN register : id[register[p]] = id[register[q]] => p = q
  /\ \A t \in Threads, p \in DOMAIN register :
       held[t] = register[p] => name[t] \in Names /\ Hash[name[t]] = id[register[p]]
  /\ counter > 0 => \A t \in Threads :
       pc[t] = "has" /\ name[t] \in Names /\ born[t] = inits /\ held[t] \notin refused =>
         \E p \in DOMAIN register : register[p] = held[t]

\* The references on c.
Refs(c) == Cardinality(Users(c)) + Cardinality(Entries(c)) + Cardinality(Stray(c))

\* The count is at least the number of references, exactly as long as no
\* register was forgotten, and a container is live while its count is not 0.
CountOK(c) ==
  /\ memory[c] = "live" <=> refcount[c] > 0
  /\ refcount[c] >= Refs(c)
  /\ renewed = 0 => refcount[c] = Refs(c)

CountInv == \A c \in Containers : CountOK(c)

\* What the counts are needed for: nothing that is in use is anything but live.
LiveInv ==
  /\ NoUseAfterFree
  /\ \A c \in refused : memory[c] = "live"

\* The part of the inductive invariant that does not speak of the counts, and
\* the inductive invariant.
ShapeInv ==
  /\ TypeOK
  /\ SerialInv
  /\ ThreadInv
  /\ RegisterInv
  /\ RightContainer

IInv == ShapeInv /\ CountInv

=============================================================================
