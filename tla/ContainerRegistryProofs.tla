---------------------- MODULE ContainerRegistryProofs ----------------------
(***************************************************************************)
(* Proofs about ContainerRegistry, for any number of threads, names and    *)
(* containers, as long as timelines are created and destroyed one at a     *)
(* time: who holds which container, what is in the register if no          *)
(* container in use is freed, the reference counts, from which it follows  *)
(* that none is, and the safety theorems.                                  *)
(***************************************************************************)
EXTENDS ContainerRegistry, FiniteSetTheorems, TLAPS

\* Sequences, in the form the provers use them.
LEMMA SeqFacts ==
  ASSUME NEW S, NEW s \in Seq(S)
  PROVE  Len(s) \in Nat /\ DOMAIN s = 1..Len(s) /\ \A k \in 1..Len(s) : s[k] \in S
OBVIOUS

LEMMA EmptyFacts ==
  ASSUME NEW S
  PROVE  << >> \in Seq(S) /\ Len(<< >>) = 0 /\ DOMAIN << >> = {}
OBVIOUS

LEMMA AppendFacts ==
  ASSUME NEW S, NEW s \in Seq(S), NEW x \in S
  PROVE  /\ Append(s, x) \in Seq(S) /\ Len(Append(s, x)) = Len(s) + 1
         /\ \A k \in 1..Len(s) : Append(s, x)[k] = s[k]
         /\ Append(s, x)[Len(s) + 1] = x
OBVIOUS

\* ht_registry_find_listener_container finds a container of the register with
\* the hash of the name as its id, whenever there is one.
LEMMA FindSound ==
  ASSUME TypeOK, RegisterInv, NEW n
  PROVE  /\ Find(n) = NoContainer => \A p \in DOMAIN register : id[register[p]] # Hash[n]
         /\ Find(n) # NoContainer =>
              /\ Find(n) \in Containers /\ id[Find(n)] = Hash[n]
              /\ \E p \in DOMAIN register : register[p] = Find(n)
<1>1. DOMAIN register \subseteq Nat /\ \A p \in DOMAIN register : register[p] \in Containers
  BY SeqFacts DEF TypeOK
<1>2. CASE Matching(n) = {}
  BY <1>2, Zenon DEF Matching, Find
<1>3. CASE Matching(n) # {}
  <2> DEFINE first == CHOOSE p \in Matching(n) : \A q \in Matching(n) : p <= q
  <2>1. PICK p : p \in Matching(n)
    BY <1>3, Zenon
  <2>2. \A q \in Matching(n) : q = p
    BY <2>1, Zenon DEF Matching, RegisterInv
  <2>3. p \in Nat
    BY <1>1, <2>1, Zenon DEF Matching
  <2>4. \E r \in Matching(n) : \A q \in Matching(n) : r <= q
    BY <2>1, <2>2, <2>3
  <2>5. first \in Matching(n)
    BY <2>4, Zenon
  <2>6. Find(n) = register[first]
    BY <1>3, Zenon DEF Find
  <2> HIDE DEF first
  <2>7. Find(n) \in Containers /\ id[Find(n)] = Hash[n] /\ \E q \in DOMAIN register : register[q] = Find(n)
    BY <1>1, <2>5, <2>6, Zenon DEF Matching
  <2>8. QED BY <2>7, ContainerRegistryAssumption, Zenon
<1>4. QED BY <1>2, <1>3, Zenon

\* What the steps below start from.
Pre == ShapeInv /\ LiveInv /\ Serialized

\* A thread inside ht_timeline_create or ht_timeline_destroy is alone there.
LEMMA Alone ==
  ASSUME SerialInv, NEW t \in Threads, pc[t] \notin {"none", "has"}
  PROVE  loop = 0 /\ \A u \in Threads : u # t => pc[u] \in {"none", "has"}
BY Zenon DEF SerialInv, Quiet

\* A container that was not used yet is in nobody's hands.
LEMMA UnusedFree ==
  ASSUME Pre, loop = 0, NEW c \in Containers, memory[c] = "unused"
  PROVE  /\ c \notin refused
         /\ \A t \in Threads : held[t] # c
         /\ \A p \in DOMAIN register : register[p] # c
<1>1. \A t \in Threads : held[t] # c
  BY ContainerRegistryAssumption, Zenon DEF Pre, LiveInv, NoUseAfterFree
<1>2. \A p \in DOMAIN register : p \in Nat
  BY SeqFacts, SMTT(60) DEF Pre, ShapeInv, TypeOK
<1>3. \A p \in DOMAIN register : register[p] # c
  BY <1>2 DEF Pre, LiveInv, NoUseAfterFree
<1>4. c \notin refused
  BY Zenon DEF Pre, LiveInv
<1>5. QED BY <1>1, <1>3, <1>4, Zenon

\* A container that was found is in the register.
FoundIs(t, n, c) ==
  /\ c = Find(n) /\ c # NoContainer /\ id[c] = Hash[n]
  /\ \E p \in DOMAIN register : register[p] = c
  /\ Quiet /\ loop = 0 /\ counter > 0 /\ pc[t] = "none" /\ held[t] = NoContainer
  /\ name' = [name EXCEPT ![t] = n] /\ born' = [born EXCEPT ![t] = inits]
  /\ held' = [held EXCEPT ![t] = c] /\ pc' = [pc EXCEPT ![t] = "bump"]
  /\ creates' = creates + 1
  /\ UNCHANGED <<register, id, memory, refcount, mutex, tmp, counter, inits, loop,
                 renewed, refused>>

LEMMA FoundFacts ==
  ASSUME Pre, NEW t \in Threads, NEW n \in Names, CreateFound(t, n)
  PROVE  \E c \in Containers : FoundIs(t, n, c)
<1>1. /\ Find(n) \in Containers /\ Find(n) # NoContainer /\ id[Find(n)] = Hash[n]
      /\ \E p \in DOMAIN register : register[p] = Find(n)
  BY FindSound, Zenon DEF Pre, ShapeInv, CreateFound
<1>2. held[t] = NoContainer
  BY Zenon DEF Pre, ShapeInv, ThreadInv, ThreadOK, CreateFound, MayCreate
<1>3. QED BY <1>1, <1>2, Zenon DEF FoundIs, Pre, CreateFound, MayCreate, Start, library

\* A container that was allocated is nobody else's, and if it was allocated under
\* a name, the register has none of that name.
NewIs(t, n, c) ==
  /\ memory[c] = "unused"
  /\ n \in Names => \A p \in DOMAIN register : id[register[p]] # Hash[n]
  /\ Quiet /\ loop = 0 /\ counter > 0 /\ pc[t] = "none" /\ held[t] = NoContainer
  /\ name' = [name EXCEPT ![t] = n] /\ born' = [born EXCEPT ![t] = inits]
  /\ held' = [held EXCEPT ![t] = c]
  /\ pc' = [pc EXCEPT ![t] = IF n \in Names THEN "check" ELSE "has"]
  /\ creates' = creates + 1
  /\ memory' = [memory EXCEPT ![c] = "live"]
  /\ refcount' = [refcount EXCEPT ![c] = 1]
  /\ UNCHANGED <<register, id, mutex, tmp, counter, inits, loop, renewed, refused>>

LEMMA NewFacts ==
  ASSUME Pre, NEW t \in Threads, NEW n \in Names \cup {Anonymous}, CreateNew(t, n)
  PROVE  \E c \in Containers : NewIs(t, n, c)
<1>1. n \in Names => \A p \in DOMAIN register : id[register[p]] # Hash[n]
  BY FindSound, Zenon DEF Pre, ShapeInv, CreateNew
<1>2. held[t] = NoContainer
  BY Zenon DEF Pre, ShapeInv, ThreadInv, ThreadOK, CreateNew, MayCreate
<1>3. QED BY <1>1, <1>2, Zenon DEF NewIs, Pre, CreateNew, MayCreate, Start, Allocate, library

\* Where a thread that goes on with ht_timeline_create stands.
LEMMA CreatorFacts ==
  ASSUME Pre, NEW t \in Threads, pc[t] \in {"bump", "write", "check", "add"}
  PROVE  /\ loop = 0 /\ \A u \in Threads : u # t => pc[u] \in {"none", "has"}
         /\ held[t] \in Containers /\ born[t] = inits /\ counter > 0
<1>1. loop = 0 /\ \A u \in Threads : u # t => pc[u] \in {"none", "has"}
  BY Alone, Zenon DEF Pre, ShapeInv
<1>2. held[t] \in Containers /\ born[t] = inits /\ counter > 0
  BY ZenonT(60) DEF Pre, ShapeInv, ThreadInv, ThreadOK, TypeOK
<1>3. QED BY <1>1, <1>2, Zenon

\* ht_timeline_listener_container_unref by a timeline: the count that is written
\* is the count less one.
LEMMA UnrefFacts ==
  ASSUME Pre, NEW t \in Threads, UnrefWrite(t)
  PROVE  /\ loop = 0 /\ \A u \in Threads : u # t => pc[u] \in {"none", "has"}
         /\ held[t] \in Containers /\ refcount[held[t]] > 0
         /\ refcount' = [refcount EXCEPT ![held[t]] = refcount[held[t]] - 1]
         /\ memory' = IF refcount[held[t]] = 1 THEN [memory EXCEPT ![held[t]] = "freed"] ELSE memory
<1>1. pc[t] = "drop"
  BY Zenon DEF UnrefWrite, Drop
<1>2. loop = 0 /\ \A u \in Threads : u # t => pc[u] \in {"none", "has"}
  BY <1>1, Alone, Zenon DEF Pre, ShapeInv
<1>3. held[t] \in Containers /\ tmp[t] = refcount[held[t]]
  BY <1>1 DEF Pre, ShapeInv, ThreadInv, ThreadOK, TypeOK
<1>4. QED BY <1>2, <1>3, Zenon DEF UnrefWrite, Drop

-----------------------------------------------------------------------------
\* The types.
LEMMA TypeStep == Pre /\ [Next]_vars => TypeOK'
<1> SUFFICES ASSUME Pre, [Next]_vars PROVE TypeOK' BY Zenon
<1> USE DEF library, thread
<1>t. TypeOK
  BY Zenon DEF Pre, ShapeInv
<1>e. << >> \in Seq(Containers)
  BY EmptyFacts, Zenon
<1>1. CASE HtInit
  BY <1>t, <1>e, <1>1 DEF HtInit, TypeOK
<1>2. CASE HtDeinitNested
  BY <1>t, <1>2 DEF HtDeinitNested, TypeOK
<1>3. CASE HtDeinit
  BY <1>t, <1>3, Zenon DEF HtDeinit, TypeOK
<1>4. CASE DeinitUnref
  <2>1. register[loop] \in Containers
    BY <1>t, <1>4, SeqFacts, Zenon DEF DeinitUnref, TypeOK
  <2>2. /\ refcount' \in [Containers -> Nat]
        /\ memory' \in [Containers -> {"unused", "live", "freed"}]
    BY <1>t, <1>4, <2>1, SMTT(60) DEF DeinitUnref, TypeOK
  <2>3. loop' = loop + 1
        /\ UNCHANGED <<counter, inits, creates, register, id, mutex, pc, name, held, tmp, born,
                       refused, renewed>>
    BY <1>4, Zenon DEF DeinitUnref
  <2>4. QED BY <1>t, <2>2, <2>3 DEF TypeOK
<1>5. CASE DeinitDone
  BY <1>t, <1>e, <1>5, Zenon DEF DeinitDone, TypeOK
<1>6. ASSUME NEW t \in Threads, NEW n \in Names, CreateFound(t, n) PROVE TypeOK'
  <2>c. PICK c \in Containers : FoundIs(t, n, c)
    BY <1>6, FoundFacts, Zenon
  <2>1. /\ name' = [name EXCEPT ![t] = n] /\ born' = [born EXCEPT ![t] = inits]
        /\ held' = [held EXCEPT ![t] = c] /\ pc' = [pc EXCEPT ![t] = "bump"]
        /\ creates' = creates + 1
        /\ UNCHANGED <<register, id, memory, refcount, mutex, tmp, counter, inits, loop,
                       renewed, refused>>
    BY <2>c, Zenon DEF FoundIs
  <2>2. QED BY <1>t, <2>1, SMTT(60) DEF TypeOK
<1>7. ASSUME NEW t \in Threads, NEW n \in Names \cup {Anonymous}, CreateNew(t, n) PROVE TypeOK'
  <2>c. PICK c \in Containers : NewIs(t, n, c)
    BY <1>7, NewFacts, Zenon
  <2>1. /\ name' = [name EXCEPT ![t] = n] /\ born' = [born EXCEPT ![t] = inits]
        /\ held' = [held EXCEPT ![t] = c]
        /\ pc' = [pc EXCEPT ![t] = IF n \in Names THEN "check" ELSE "has"]
        /\ creates' = creates + 1
        /\ memory' = [memory EXCEPT ![c] = "live"]
        /\ refcount' = [refcount EXCEPT ![c] = 1]
        /\ UNCHANGED <<register, id, mutex, tmp, counter, inits, loop, renewed, refused>>
    BY <2>c, Zenon DEF NewIs
  <2>2. QED BY <1>t, <2>1, SMTT(60) DEF TypeOK
<1>8. ASSUME NEW t \in Threads, BumpRead(t) \/ Check(t) \/ UnrefRead(t) PROVE TypeOK'
  <2>1. pc[t] # "none"
    BY <1>8, Zenon DEF BumpRead, Check, UnrefRead
  <2>2. held[t] \in Containers
    BY <2>1 DEF Pre, ShapeInv, ThreadInv, ThreadOK, TypeOK
  <2>3. /\ tmp' \in [Threads -> Nat] /\ mutex' \in [Containers -> Threads \cup {Nobody}]
        /\ pc' \in [Threads -> {"none", "has", "bump", "write", "check", "add", "drop"}]
    <3>1. CASE BumpRead(t)
      BY <1>t, <2>2, <3>1, Zenon DEF BumpRead, TypeOK
    <3>2. CASE Check(t)
      BY <1>t, <2>2, <3>2, Zenon DEF Check, TypeOK
    <3>3. CASE UnrefRead(t)
      BY <1>t, <2>2, <3>3, Zenon DEF UnrefRead, TypeOK
    <3>4. QED BY <1>8, <3>1, <3>2, <3>3, Zenon
  <2>4. UNCHANGED <<counter, inits, loop, creates, register, id, memory, refcount, name, held,
                    born, refused, renewed>>
    BY <1>8, Zenon DEF BumpRead, Check, UnrefRead
  <2>5. QED BY <1>t, <2>3, <2>4, Zenon DEF TypeOK
<1>9. ASSUME NEW t \in Threads, BumpWrite(t) PROVE TypeOK'
  <2>1. held[t] \in Containers
    BY <1>9, CreatorFacts, Zenon DEF BumpWrite
  <2>2. QED BY <1>t, <1>9, <2>1, SMTT(60) DEF BumpWrite, TypeOK
<1>10. ASSUME NEW t \in Threads, Add(t) \/ AddFails(t) PROVE TypeOK'
  <2>1. held[t] \in Containers /\ name[t] \in Names
    BY <1>10, CreatorFacts, Zenon DEF Add, AddFails, Pre, ShapeInv, ThreadInv, ThreadOK
  <2>2. Hash[name[t]] \in Nat
    BY <2>1, ContainerRegistryAssumption, Zenon
  <2>3. /\ register' \in Seq(Containers) /\ refused' \subseteq Containers
        /\ id' \in [Containers -> Nat] /\ refcount' \in [Containers -> Nat]
        /\ pc' \in [Threads -> {"none", "has", "bump", "write", "check", "add", "drop"}]
    <3>1. register \in Seq(Containers) /\ Append(register, held[t]) \in Seq(Containers)
      BY <1>t, <2>1, AppendFacts, Zenon DEF TypeOK
    <3>2. /\ register' \in {register, Append(register, held[t])}
          /\ refused' \in {refused, refused \cup {held[t]}}
          /\ id' = [id EXCEPT ![held[t]] = Hash[name[t]]]
          /\ refcount' = [refcount EXCEPT ![held[t]] = @ + 1]
          /\ pc' = [pc EXCEPT ![t] = "has"]
      BY <1>10, Zenon DEF Add, AddFails
    <3>3. register' \in Seq(Containers) /\ refused' \subseteq Containers
      BY <1>t, <2>1, <3>1, <3>2, Zenon DEF TypeOK
    <3>4. id' \in [Containers -> Nat] /\ refcount' \in [Containers -> Nat]
      <4>1. id \in [Containers -> Nat] /\ refcount \in [Containers -> Nat]
        BY <1>t, Zenon DEF TypeOK
      <4>2. QED BY <2>1, <2>2, <3>2, <4>1
    <3>5. pc' \in [Threads -> {"none", "has", "bump", "write", "check", "add", "drop"}]
      BY <1>t, <3>2, Zenon DEF TypeOK
    <3>6. QED BY <3>3, <3>4, <3>5, Zenon
  <2>4. UNCHANGED <<counter, inits, loop, creates, memory, mutex, name, held, tmp, born, renewed>>
    BY <1>10, Zenon DEF Add, AddFails
  <2>5. QED BY <1>t, <2>3, <2>4, Zenon DEF TypeOK
<1>11. ASSUME NEW t \in Threads, UnrefWrite(t) PROVE TypeOK'
  <2>1. held[t] \in Containers /\ refcount' \in [Containers -> Nat]
        /\ memory' \in [Containers -> {"unused", "live", "freed"}]
    <3>1. /\ held[t] \in Containers /\ refcount[held[t]] > 0
          /\ refcount' = [refcount EXCEPT ![held[t]] = refcount[held[t]] - 1]
          /\ memory' \in {[memory EXCEPT ![held[t]] = "freed"], memory}
      BY <1>11, UnrefFacts, Zenon
    <3>2. /\ refcount \in [Containers -> Nat]
          /\ memory \in [Containers -> {"unused", "live", "freed"}]
      BY <1>t, Zenon DEF TypeOK
    <3>3. refcount[held[t]] - 1 \in Nat
      BY <3>1, <3>2
    <3>4. QED BY <3>1, <3>2, <3>3, Zenon
  <2>2. /\ mutex' = [mutex EXCEPT ![held[t]] = Nobody] /\ held' = [held EXCEPT ![t] = NoContainer]
        /\ name' = [name EXCEPT ![t] = Anonymous] /\ born' = [born EXCEPT ![t] = 0]
        /\ tmp' = [tmp EXCEPT ![t] = 0] /\ pc' = [pc EXCEPT ![t] = "none"]
        /\ UNCHANGED <<counter, inits, loop, creates, register, id, refused, renewed>>
    BY <1>11, Zenon DEF UnrefWrite, Drop
  <2>3. QED BY <1>t, <2>1, <2>2, Zenon DEF TypeOK
<1>12. CASE UNCHANGED vars
  BY <1>t, <1>12, Zenon DEF vars, TypeOK
<1>13. QED
  BY <1>1, <1>2, <1>3, <1>4, <1>5, <1>6, <1>7, <1>8, <1>9, <1>10, <1>11, <1>12, Zenon
  DEF Next, ThreadStep

\* A step of a thread while no other one is inside ht_timeline_create or
\* ht_timeline_destroy.
LEMMA ThreadMoves ==
  ASSUME Pre, NEW t \in Threads, ThreadStep(t)
  PROVE  /\ loop = 0 /\ \A u \in Threads : u # t => pc[u] \in {"none", "has"}
         /\ \A u \in Threads : u # t =>
              /\ pc'[u] = pc[u] /\ held'[u] = held[u] /\ name'[u] = name[u]
              /\ tmp'[u] = tmp[u] /\ born'[u] = born[u]
         /\ UNCHANGED <<counter, inits, loop, renewed>>
<1> USE DEF library, thread
<1>t. TypeOK
  BY Zenon DEF Pre, ShapeInv
<1>f. /\ pc \in [Threads -> {"none", "has", "bump", "write", "check", "add", "drop"}]
      /\ held \in [Threads -> Containers \cup {NoContainer}]
      /\ name \in [Threads -> Names \cup {Anonymous}]
      /\ tmp \in [Threads -> Nat] /\ born \in [Threads -> Nat]
  BY <1>t, Zenon DEF TypeOK
<1>1. loop = 0 /\ \A u \in Threads : u # t => pc[u] \in {"none", "has"}
  <2>1. CASE pc[t] \notin {"none", "has"}
    BY <2>1, Alone, Zenon DEF Pre, ShapeInv
  <2>2. CASE pc[t] \in {"none", "has"}
    <3>1. Quiet /\ loop = 0
      BY <2>2, Zenon DEF Pre, ThreadStep, CreateFound, CreateNew, MayCreate, BumpRead, BumpWrite, Check, Add,
                  AddFails, UnrefRead, UnrefWrite, Drop
    <3>2. QED BY <3>1, Zenon DEF Quiet
  <2>3. QED BY <2>1, <2>2, Zenon
<1>2. UNCHANGED <<counter, inits, loop, renewed>>
  BY Zenon DEF ThreadStep, CreateFound, CreateNew, BumpRead, BumpWrite, Check, Add, AddFails, UnrefRead,
         UnrefWrite, Drop
<1>3. /\ \E x : pc' = [pc EXCEPT ![t] = x]
      /\ held' = held \/ \E x : held' = [held EXCEPT ![t] = x]
      /\ name' = name \/ \E x : name' = [name EXCEPT ![t] = x]
      /\ tmp' = tmp \/ \E x : tmp' = [tmp EXCEPT ![t] = x]
      /\ born' = born \/ \E x : born' = [born EXCEPT ![t] = x]
  <2>1. CASE \E n \in Names : CreateFound(t, n)
    BY <2>1, Zenon DEF CreateFound, Start
  <2>2. CASE \E n \in Names \cup {Anonymous} : CreateNew(t, n)
    BY <2>2, Zenon DEF CreateNew, Start
  <2>3. CASE BumpRead(t) \/ BumpWrite(t)
    BY <2>3, Zenon DEF BumpRead, BumpWrite
  <2>4. CASE Check(t)
    BY <2>4, Zenon DEF Check
  <2>5. CASE Add(t) \/ AddFails(t)
    BY <2>5, Zenon DEF Add, AddFails
  <2>6. CASE UnrefRead(t) \/ UnrefWrite(t)
    BY <2>6, Zenon DEF UnrefRead, UnrefWrite, Drop
  <2>7. QED BY <2>1, <2>2, <2>3, <2>4, <2>5, <2>6, Zenon DEF ThreadStep
<1>4. \A u \in Threads : u # t => pc'[u] = pc[u]
  BY <1>f, <1>3, Zenon
<1>5. \A u \in Threads : u # t => held'[u] = held[u]
  BY <1>f, <1>3, Zenon
<1>6. \A u \in Threads : u # t => name'[u] = name[u]
  BY <1>f, <1>3, Zenon
<1>7. \A u \in Threads : u # t => tmp'[u] = tmp[u]
  BY <1>f, <1>3, Zenon
<1>8. \A u \in Threads : u # t => born'[u] = born[u]
  BY <1>f, <1>3, Zenon
<1>9. QED BY <1>1, <1>2, <1>4, <1>5, <1>6, <1>7, <1>8, Zenon

\* What a step of a thread does to the register: nothing, unless it adds a new
\* container.
LEMMA ThreadRegister ==
  ASSUME Pre, NEW t \in Threads, ThreadStep(t)
  PROVE  \/ register' = register /\ (\A p \in DOMAIN register : id'[register[p]] = id[register[p]])
         \/ Add(t)
<1> USE DEF library, thread
<1>1. CASE AddFails(t)
  <2>1. id' = [id EXCEPT ![held[t]] = Hash[name[t]]] /\ register' = register
    BY <1>1, Zenon DEF AddFails
  <2>2. \A p \in DOMAIN register : register[p] # held[t]
    BY <1>1, Zenon DEF AddFails, Pre, ShapeInv, ThreadInv, ThreadOK
  <2>3. id \in [Containers -> Nat] /\ \A p \in DOMAIN register : register[p] \in Containers
    BY SeqFacts DEF Pre, ShapeInv, TypeOK
  <2>4. QED BY <2>1, <2>2, <2>3, Zenon
<1>2. CASE UNCHANGED <<register, id>>
  BY <1>2, Zenon
<1>3. QED
  BY <1>1, <1>2, Zenon DEF ThreadStep, CreateFound, CreateNew, BumpRead, BumpWrite, Check, UnrefRead,
                    UnrefWrite, Drop

\* SerialInv: what runs at the same time.
LEMMA SerialStep == Pre /\ [Next]_vars => SerialInv'
<1> SUFFICES ASSUME Pre, [Next]_vars PROVE SerialInv' OBVIOUS
<1>t. /\ SerialInv /\ counter \in Nat /\ loop \in Nat /\ Len(register) \in Nat
  BY SeqFacts, Zenon DEF Pre, ShapeInv, TypeOK
<1>e. Len(<< >>) = 0
  BY EmptyFacts, Zenon
<1>1. CASE HtInit
  BY <1>t, <1>e, <1>1 DEF HtInit, SerialInv, Quiet
<1>2. CASE HtDeinitNested
  BY <1>t, <1>2 DEF HtDeinitNested, SerialInv, Quiet
<1>3. CASE HtDeinit
  BY <1>t, <1>3 DEF Pre, HtDeinit, SerialInv, Quiet
<1>4. CASE DeinitUnref
  BY <1>t, <1>4 DEF DeinitUnref, SerialInv, Quiet
<1>5. CASE DeinitDone
  BY <1>t, <1>e, <1>5 DEF DeinitDone, SerialInv, Quiet
<1>6. ASSUME NEW t \in Threads, ThreadStep(t) PROVE SerialInv'
  <2>1. /\ loop = 0 /\ loop' = 0 /\ counter' = counter
        /\ \A u \in Threads : u # t => pc'[u] \in {"none", "has"}
    BY <1>6, ThreadMoves, Zenon
  <2>2. /\ Len(register') \in Nat
        /\ counter = 0 => register' = << >>
    <3>1. CASE Add(t)
      <4>1. counter > 0 /\ register' \in Seq(Containers)
        BY <3>1, TypeStep, CreatorFacts, Zenon DEF Add, TypeOK
      <4>2. QED BY <1>t, <4>1, SeqFacts
    <3>2. CASE register' = register
      BY <1>t, <2>1, <3>2, Zenon DEF SerialInv
    <3>3. QED BY <1>6, <3>1, <3>2, ThreadRegister, Zenon
  <2>3. ASSUME NEW u \in Threads, NEW v \in Threads, {pc'[u], pc'[v]} \cap {"none", "has"} = {}
        PROVE  u = v
    <3>1. pc'[u] \notin {"none", "has"} /\ pc'[v] \notin {"none", "has"}
      BY <2>3, Zenon
    <3>2. QED BY <2>1, <3>1, Zenon
  <2>4. 0 <= Len(register') + 1
    BY <2>2
  <2>5. QED BY <2>1, <2>2, <2>3, <2>4, Zenon DEF SerialInv
<1>7. CASE UNCHANGED vars
  BY <1>t, <1>7, Zenon DEF vars, SerialInv, Quiet
<1>8. QED
  BY <1>1, <1>2, <1>3, <1>4, <1>5, <1>6, <1>7, Zenon DEF Next

\* ThreadInv: what each thread holds.
LEMMA ThreadsStep == Pre /\ [Next]_vars => ThreadInv'
<1> SUFFICES ASSUME Pre, [Next]_vars PROVE ThreadInv' OBVIOUS
<1> USE DEF library, thread
<1>t. TypeOK /\ ThreadInv /\ inits \in Nat /\ counter \in Nat /\ loop \in Nat
      /\ born \in [Threads -> Nat]
  BY Zenon DEF Pre, ShapeInv, TypeOK
<1>1. ASSUME NEW u \in Threads, pc[u] \in {"none", "has"}, pc'[u] = pc[u], held'[u] = held[u],
             born'[u] = born[u], inits' \in {inits, inits + 1}
      PROVE  ThreadOK(u)'
  BY <1>t, <1>1 DEF ThreadInv, ThreadOK
<1>2. CASE Quiet /\ UNCHANGED <<pc, held, born>> /\ inits' \in {inits, inits + 1}
  BY <1>1, <1>2, Zenon DEF Quiet, ThreadInv
<1>3. CASE HtInit
  BY <1>2, <1>3, Zenon DEF HtInit
<1>4. CASE HtDeinitNested
  <2>1. /\ UNCHANGED <<inits, register, id, refcount, pc, held, tmp, name, born, refused>>
        /\ counter' > 0
    BY <1>t, <1>4 DEF HtDeinitNested
  <2>2. QED BY <1>t, <2>1 DEF ThreadInv, ThreadOK
<1>5. CASE HtDeinit
  BY <1>2, <1>5, Zenon DEF Pre, HtDeinit
<1>6. CASE DeinitUnref
  <2>1. loop # 0
    BY <1>6 DEF DeinitUnref
  <2>2. Quiet
    BY <2>1, Zenon DEF Pre, ShapeInv, SerialInv
  <2>3. QED BY <1>2, <1>6, <2>2, Zenon DEF DeinitUnref
<1>7. CASE DeinitDone
  <2>1. loop # 0
    BY <1>7, SeqFacts DEF DeinitDone, Pre, ShapeInv, TypeOK
  <2>2. Quiet
    BY <2>1 DEF Pre, ShapeInv, SerialInv
  <2>3. QED BY <1>2, <1>7, <2>2, Zenon DEF DeinitDone
<1>8. ASSUME NEW t \in Threads, ThreadStep(t) PROVE ThreadInv'
  <2>1. \A u \in Threads : u # t => ThreadOK(u)'
    BY <1>1, <1>8, ThreadMoves, Zenon
  <2>s. SUFFICES ThreadOK(t)'
    BY <2>1, Zenon DEF ThreadInv
  <2>f. /\ pc \in [Threads -> {"none", "has", "bump", "write", "check", "add", "drop"}]
        /\ held \in [Threads -> Containers \cup {NoContainer}]
        /\ name \in [Threads -> Names \cup {Anonymous}]
        /\ tmp \in [Threads -> Nat]
        /\ ThreadOK(t) /\ NoContainer \notin Containers /\ Anonymous \notin Names
    BY <1>t, ContainerRegistryAssumption, Zenon DEF TypeOK, ThreadInv
  <2>2. ASSUME NEW n \in Names, CreateFound(t, n) PROVE ThreadOK(t)'
    <3>c. PICK c \in Containers : FoundIs(t, n, c)
      BY <2>2, FoundFacts, Zenon
    <3>1. /\ \E p \in DOMAIN register : register[p] = c
          /\ counter > 0
          /\ name' = [name EXCEPT ![t] = n] /\ born' = [born EXCEPT ![t] = inits]
          /\ held' = [held EXCEPT ![t] = c] /\ pc' = [pc EXCEPT ![t] = "bump"]
          /\ UNCHANGED <<register, counter, inits>>
      BY <3>c, Zenon DEF FoundIs
    <3>2. pc'[t] = "bump" /\ held'[t] = c /\ born'[t] = inits
      BY <1>t, <2>f, <3>1, Zenon
    <3>3. QED BY <1>t, <2>f, <3>1, <3>2, SMTT(60) DEF ThreadOK
  <2>3. ASSUME NEW n \in Names \cup {Anonymous}, CreateNew(t, n) PROVE ThreadOK(t)'
    <3>c. PICK c \in Containers : NewIs(t, n, c)
      BY <2>3, NewFacts, Zenon
    <3>1. /\ memory[c] = "unused" /\ loop = 0 /\ counter > 0
          /\ n \in Names => \A p \in DOMAIN register : id[register[p]] # Hash[n]
          /\ name' = [name EXCEPT ![t] = n] /\ born' = [born EXCEPT ![t] = inits]
          /\ held' = [held EXCEPT ![t] = c]
          /\ pc' = [pc EXCEPT ![t] = IF n \in Names THEN "check" ELSE "has"]
          /\ UNCHANGED <<register, id, counter, inits, refused>>
      BY <3>c, Zenon DEF NewIs
    <3>2. /\ pc'[t] = (IF n \in Names THEN "check" ELSE "has") /\ held'[t] = c
          /\ born'[t] = inits /\ name'[t] = n
      BY <1>t, <2>f, <3>1, Zenon
    <3>3. /\ c \notin refused /\ \A p \in DOMAIN register : register[p] # c
          /\ \A u \in Threads : held[u] # c
      BY <3>1, UnusedFree, Zenon
    <3>4. \A u \in Threads : held'[u] = c => u = t
      BY <2>f, <3>1, <3>3, Zenon
    <3>5. QED BY <1>t, <2>f, <3>1, <3>2, <3>3, <3>4, SMTT(60) DEF ThreadOK
  <2>4. CASE BumpRead(t)
    <3>1. /\ pc[t] = "bump" /\ pc'[t] = "write" /\ tmp'[t] = refcount[held[t]]
          /\ UNCHANGED <<register, refcount, held, counter, inits, born>>
      BY <2>4, <2>f, Zenon DEF BumpRead
    <3>2. QED BY <2>f, <3>1, Zenon DEF ThreadOK
  <2>5. CASE BumpWrite(t) \/ Add(t) \/ AddFails(t)
    <3>1. pc[t] # "none" /\ pc'[t] = "has" /\ UNCHANGED <<held, inits, born>>
      BY <2>5, <2>f, Zenon DEF BumpWrite, Add, AddFails
    <3>2. QED BY <2>f, <3>1, Zenon DEF ThreadOK
  <2>6. CASE Check(t)
    <3>1. /\ pc[t] = "check" /\ pc'[t] \in {"add", "has"}
          /\ UNCHANGED <<register, id, held, name, counter, inits, born, refused>>
      BY <2>6, <2>f, Zenon DEF Check
    <3>2. QED BY <2>f, <3>1, Zenon DEF ThreadOK
  <2>7. CASE UnrefRead(t)
    <3>1. /\ pc[t] = "has" /\ pc'[t] = "drop" /\ tmp'[t] = refcount[held[t]]
          /\ UNCHANGED <<refcount, held, inits, born>>
      BY <2>7, <2>f, ZenonT(60) DEF UnrefRead
    <3>2. QED BY <2>f, <3>1, Zenon DEF ThreadOK
  <2>8. CASE UnrefWrite(t)
    <3>1. pc'[t] = "none" /\ held'[t] = NoContainer /\ born'[t] = 0 /\ inits' = inits
      BY <1>t, <2>8, <2>f, Zenon DEF UnrefWrite, Drop
    <3>2. QED BY <1>t, <3>1 DEF ThreadOK
  <2>9. QED
    BY <1>8, <2>2, <2>3, <2>4, <2>5, <2>6, <2>7, <2>8, Zenon DEF ThreadStep
<1>9. CASE UNCHANGED vars
  BY <1>t, <1>9, SMTT(60) DEF vars, ThreadInv, ThreadOK
<1>10. QED
  BY <1>3, <1>4, <1>5, <1>6, <1>7, <1>8, <1>9, Zenon DEF Next

\* RegisterInv: one container for each id, and every named timeline's is there.
LEMMA RegisterStep == Pre /\ [Next]_vars => RegisterInv'
<1> SUFFICES ASSUME Pre, [Next]_vars PROVE RegisterInv' OBVIOUS
<1> USE DEF library, thread
<1>t. /\ TypeOK /\ RegisterInv /\ inits \in Nat /\ counter \in Nat /\ loop \in Nat
      /\ born \in [Threads -> Nat]
  BY Zenon DEF Pre, ShapeInv, TypeOK
<1>e. DOMAIN << >> = {}
  OBVIOUS
<1>r. \A p \in DOMAIN register : register[p] \in Containers /\ register[p] # NoContainer
  BY <1>t, SeqFacts, ContainerRegistryAssumption, SMTT(60) DEF TypeOK
<1>1. CASE HtInit
  <2>1. register' = << >> /\ inits' = inits + 1 /\ born' = born
    BY <1>1, Zenon DEF HtInit
  <2>2. \A t \in Threads : born[t] # inits + 1
    BY <1>t DEF Pre, ShapeInv, ThreadInv, ThreadOK
  <2>3. QED BY <1>e, <2>1, <2>2, Zenon DEF RegisterInv
<1>2. CASE HtDeinitNested
  <2>1. counter > 0 /\ UNCHANGED <<inits, register, id, pc, held, name, born, refused>>
    BY <1>t, <1>2 DEF HtDeinitNested
  <2>2. QED BY <1>t, <2>1, Zenon DEF RegisterInv
<1>3. CASE HtDeinit
  <2>1. counter' = 0 /\ UNCHANGED <<register, id, held, name>>
    BY <1>3, Zenon DEF HtDeinit
  <2>2. QED BY <1>t, <2>1 DEF RegisterInv
<1>4. CASE DeinitUnref
  <2>1. counter' = counter /\ counter = 0 /\ UNCHANGED <<register, id, held, name>>
    BY <1>4 DEF DeinitUnref, Pre, ShapeInv, SerialInv
  <2>2. QED BY <1>t, <2>1 DEF RegisterInv
<1>5. CASE DeinitDone
  <2>1. loop # 0
    BY <1>5, SeqFacts DEF DeinitDone, Pre, ShapeInv, TypeOK
  <2>2. counter' = 0 /\ register' = << >>
    BY <1>5, <2>1, Zenon DEF DeinitDone, Pre, ShapeInv, SerialInv
  <2>3. QED BY <1>e, <2>2 DEF RegisterInv
<1>6. ASSUME NEW t \in Threads, ThreadStep(t) PROVE RegisterInv'
  <2>f. /\ pc \in [Threads -> {"none", "has", "bump", "write", "check", "add", "drop"}]
        /\ held \in [Threads -> Containers \cup {NoContainer}]
        /\ name \in [Threads -> Names \cup {Anonymous}]
        /\ id \in [Containers -> Nat]
        /\ ThreadOK(t) /\ Anonymous \notin Names
    BY <1>t, ContainerRegistryAssumption, Zenon DEF TypeOK, Pre, ShapeInv, ThreadInv
  <2>m. /\ \A u \in Threads : u # t => /\ pc'[u] = pc[u] /\ held'[u] = held[u]
                                       /\ name'[u] = name[u] /\ born'[u] = born[u]
        /\ counter' = counter /\ inits' = inits
    BY <1>6, ThreadMoves, Zenon
  <2>1. CASE Add(t)
    <3>1. /\ pc[t] = "add" /\ register' = Append(register, held[t])
          /\ id' = [id EXCEPT ![held[t]] = Hash[name[t]]] /\ pc' = [pc EXCEPT ![t] = "has"]
          /\ UNCHANGED <<held, name, born, refused>>
      BY <2>1, Zenon DEF Add
    <3>2. /\ held[t] \in Containers /\ name[t] \in Names
          /\ \A p \in DOMAIN register : register[p] # held[t] /\ id[register[p]] # Hash[name[t]]
          /\ \A u \in Threads : held[u] = held[t] => u = t
      BY <2>f, <3>1, CreatorFacts, Zenon DEF ThreadOK
    <3> DEFINE last == Len(register) + 1
    <3>3. /\ DOMAIN register' = DOMAIN register \cup {last}
          /\ \A p \in DOMAIN register : register'[p] = register[p]
          /\ register'[last] = held[t]
      <4>1. register \in Seq(Containers) /\ Len(register) \in Nat /\ DOMAIN register = 1..Len(register)
        BY <1>t, SeqFacts, Zenon DEF TypeOK
      <4>2. /\ register' \in Seq(Containers) /\ Len(register') = last
            /\ \A p \in 1..Len(register) : register'[p] = register[p]
            /\ register'[last] = held[t]
        BY <3>1, <3>2, <4>1, AppendFacts, SMTT(60)
      <4>3. DOMAIN register' = 1..last /\ 1..last = 1..Len(register) \cup {last}
        BY <4>1, <4>2, SeqFacts
      <4>4. QED BY <4>1, <4>2, <4>3, Zenon
    <3>4. \A p \in DOMAIN register : id'[register[p]] = id[register[p]]
      BY <1>r, <2>f, <3>1, <3>2, Zenon
    <3>5. id'[held[t]] = Hash[name[t]]
      BY <2>f, <3>1, <3>2, ZenonT(60)
    <3> HIDE DEF last
    <3>6. \A p, q \in DOMAIN register' :
            id'[register'[p]] = id'[register'[q]] => p = q
      BY <1>t, <3>2, <3>3, <3>4, <3>5, SMTT(60) DEF RegisterInv
    <3>7. \A u \in Threads, p \in DOMAIN register' :
            held[u] = register'[p] => name[u] \in Names /\ Hash[name[u]] = id'[register'[p]]
      BY <1>t, <3>2, <3>3, <3>4, <3>5 DEF RegisterInv
    <3>8. ASSUME counter > 0, NEW u \in Threads, pc'[u] = "has", name[u] \in Names,
                 born[u] = inits, held[u] \notin refused
          PROVE  \E p \in DOMAIN register' : register'[p] = held[u]
      <4>1. CASE u = t
        BY <3>3, <4>1, Zenon
      <4>2. CASE u # t
        BY <1>t, <2>m, <3>3, <3>8, <4>2, SMTT(60) DEF RegisterInv
      <4>3. QED BY <4>1, <4>2, Zenon
    <3>9. QED BY <2>m, <3>1, <3>6, <3>7, <3>8 DEF RegisterInv
  <2>2. ASSUME register' = register, \A p \in DOMAIN register : id'[register[p]] = id[register[p]],
               \A p \in DOMAIN register : held'[t] = register[p] =>
                 name'[t] \in Names /\ Hash[name'[t]] = id[register[p]],
               pc'[t] = "has" /\ name'[t] \in Names /\ held'[t] \notin refused' =>
                 \E p \in DOMAIN register : register[p] = held'[t],
               refused \subseteq refused'
        PROVE  RegisterInv'
    <3>1. \A u \in Threads, p \in DOMAIN register :
            held'[u] = register[p] => name'[u] \in Names /\ Hash[name'[u]] = id[register[p]]
      BY <1>t, <2>m, <2>2, SMTT(60) DEF RegisterInv
    <3>2. counter > 0 => \A u \in Threads :
            pc'[u] = "has" /\ name'[u] \in Names /\ born'[u] = inits /\ held'[u] \notin refused' =>
              \E p \in DOMAIN register : register[p] = held'[u]
      BY <1>t, <2>m, <2>2, SMTT(60) DEF RegisterInv
    <3>3. QED BY <1>t, <2>m, <2>2, <3>1, <3>2, SMTT(60) DEF RegisterInv
  <2>3. ASSUME NEW n \in Names, CreateFound(t, n) PROVE RegisterInv'
    <3>c. PICK c \in Containers : FoundIs(t, n, c)
      BY <2>3, FoundFacts, Zenon
    <3>1. /\ id[c] = Hash[n]
          /\ name' = [name EXCEPT ![t] = n]
          /\ held' = [held EXCEPT ![t] = c] /\ pc' = [pc EXCEPT ![t] = "bump"]
          /\ UNCHANGED <<register, id, refused>>
      BY <3>c, Zenon DEF FoundIs
    <3>2. pc'[t] = "bump" /\ held'[t] = c /\ name'[t] = n
      BY <2>f, <3>1, Zenon
    <3>3. QED BY <2>2, <3>1, <3>2, Zenon
  <2>4. ASSUME NEW n \in Names \cup {Anonymous}, CreateNew(t, n) PROVE RegisterInv'
    <3>c. PICK c \in Containers : NewIs(t, n, c)
      BY <2>4, NewFacts, Zenon
    <3>1. /\ memory[c] = "unused" /\ loop = 0
          /\ name' = [name EXCEPT ![t] = n]
          /\ held' = [held EXCEPT ![t] = c]
          /\ pc' = [pc EXCEPT ![t] = IF n \in Names THEN "check" ELSE "has"]
          /\ UNCHANGED <<register, id, refused>>
      BY <3>c, Zenon DEF NewIs
    <3>2. pc'[t] = (IF n \in Names THEN "check" ELSE "has") /\ held'[t] = c /\ name'[t] = n
      BY <2>f, <3>1, Zenon
    <3>3. \A p \in DOMAIN register : register[p] # c
      BY <3>1, UnusedFree, Zenon
    <3>4. QED BY <2>2, <3>1, <3>2, <3>3, SMTT(60)
  <2>5. ASSUME UNCHANGED <<register, held, name>>,
               \A p \in DOMAIN register : id'[register[p]] = id[register[p]],
               refused \subseteq refused',
               pc'[t] = "has" => held[t] \in refused' \/ \E p \in DOMAIN register : register[p] = held[t]
        PROVE  RegisterInv'
    <3>1. \A p \in DOMAIN register : held[t] = register[p] =>
            name[t] \in Names /\ Hash[name[t]] = id[register[p]]
      BY <1>t, Zenon DEF RegisterInv
    <3>2. QED BY <2>2, <2>5, <3>1, Zenon
  <2>6. CASE BumpRead(t) \/ UnrefRead(t)
    <3>1. pc'[t] # "has" /\ UNCHANGED <<register, held, name, id, refused>>
      BY <2>6, <2>f, Zenon DEF BumpRead, UnrefRead
    <3>2. QED BY <2>5, <3>1, Zenon
  <2>7. CASE BumpWrite(t)
    <3>1. pc[t] = "write" /\ UNCHANGED <<register, held, name, id, refused>>
      BY <2>7, Zenon DEF BumpWrite
    <3>2. QED BY <2>f, <2>5, <3>1, Zenon DEF ThreadOK
  <2>8. CASE Check(t)
    <3>1. /\ pc[t] = "check" /\ UNCHANGED <<register, held, name, id, refused>>
          /\ pc'[t] = IF Find(name[t]) = NoContainer THEN "add" ELSE "has"
      BY <2>8, <2>f, Zenon DEF Check
    <3>2. Find(name[t]) = NoContainer
      BY <1>t, <2>f, <3>1, FindSound DEF ThreadOK
    <3>3. QED BY <2>5, <3>1, <3>2, Zenon
  <2>9. CASE AddFails(t)
    <3>1. held[t] \in refused' /\ refused \subseteq refused' /\ UNCHANGED <<register, held, name>>
      BY <2>9, Zenon DEF AddFails
    <3>2. pc[t] = "add" /\ id' = [id EXCEPT ![held[t]] = Hash[name[t]]]
      BY <2>9, Zenon DEF AddFails
    <3>3. \A p \in DOMAIN register : id'[register[p]] = id[register[p]]
      BY <1>r, <2>f, <3>2, Zenon DEF ThreadOK
    <3>4. QED BY <2>5, <3>1, <3>3, Zenon
  <2>10. CASE UnrefWrite(t)
    <3>1. pc'[t] = "none" /\ held'[t] = NoContainer /\ UNCHANGED <<register, id, refused>>
      BY <2>10, <2>f, Zenon DEF UnrefWrite, Drop
    <3>2. QED BY <1>r, <2>2, <3>1, Zenon
  <2>11. QED
    BY <1>6, <2>1, <2>3, <2>4, <2>6, <2>7, <2>8, <2>9, <2>10, Zenon DEF ThreadStep
<1>7. CASE UNCHANGED vars
  BY <1>t, <1>7, Zenon DEF vars, RegisterInv
<1>8. QED
  BY <1>1, <1>2, <1>3, <1>4, <1>5, <1>6, <1>7, Zenon DEF Next

\* RightContainer.
LEMMA RightStep == Pre /\ [Next]_vars => RightContainer'
<1> SUFFICES ASSUME Pre, [Next]_vars PROVE RightContainer' OBVIOUS
<1> USE DEF library, thread
<1>t. TypeOK /\ RightContainer /\ RegisterInv' /\ TypeOK'
  BY RegisterStep, TypeStep, Zenon DEF Pre, ShapeInv
<1>1. CASE UNCHANGED <<pc, name, held, born, refused>>
  BY <1>t, <1>1, ZenonT(60) DEF RightContainer
<1>2. CASE HtInit \/ HtDeinitNested \/ HtDeinit \/ DeinitUnref \/ DeinitDone \/ UNCHANGED vars
  BY <1>1, <1>2, Zenon DEF HtInit, HtDeinitNested, HtDeinit, DeinitUnref, DeinitDone, vars
<1>3. ASSUME NEW t \in Threads, ThreadStep(t) PROVE RightContainer'
  <2>f. /\ pc \in [Threads -> {"none", "has", "bump", "write", "check", "add", "drop"}]
        /\ held \in [Threads -> Containers \cup {NoContainer}]
        /\ name \in [Threads -> Names \cup {Anonymous}]
        /\ born \in [Threads -> Nat]
        /\ name' \in [Threads -> Names \cup {Anonymous}]
        /\ ThreadOK(t) /\ Anonymous \notin Names
    BY <1>t, ContainerRegistryAssumption, Zenon DEF TypeOK, Pre, ShapeInv, ThreadInv
  <2>m. /\ \A u \in Threads : u # t => /\ pc'[u] = pc[u] /\ held'[u] = held[u]
                                       /\ name'[u] = name[u] /\ born'[u] = born[u]
        /\ counter' = counter /\ inits' = inits
    BY <1>3, ThreadMoves
  <2>1. refused \subseteq refused'
    BY <1>3, Zenon DEF ThreadStep, CreateFound, CreateNew, BumpRead, BumpWrite, Check, Add, AddFails,
                UnrefRead, UnrefWrite, Drop
  <2>2. pc'[t] = "has" /\ name'[t] # Anonymous => born'[t] = inits /\ counter > 0
    <3>1. CASE pc[t] \in {"write", "check", "add"} /\ UNCHANGED born
      BY <2>f, <3>1, Zenon DEF ThreadOK
    <3>2. CASE BumpWrite(t) \/ Check(t) \/ Add(t) \/ AddFails(t)
      BY <3>1, <3>2, Zenon DEF BumpWrite, Check, Add, AddFails
    <3>3. CASE \E n \in Names : CreateFound(t, n)
      BY <2>f, <3>3, Zenon DEF CreateFound, Start
    <3>4. ASSUME NEW n \in Names \cup {Anonymous}, CreateNew(t, n)
          PROVE  pc'[t] = "has" => name'[t] = Anonymous
      <4>1. name'[t] = n /\ pc'[t] = IF n \in Names THEN "check" ELSE "has"
        BY <2>f, <3>4, Zenon DEF CreateNew, Start
      <4>2. QED BY <4>1, Zenon
    <3>5. CASE BumpRead(t) \/ UnrefRead(t) \/ UnrefWrite(t)
      BY <2>f, <3>5, Zenon DEF BumpRead, UnrefRead, UnrefWrite, Drop
    <3>6. QED BY <1>3, <3>2, <3>3, <3>4, <3>5, Zenon DEF ThreadStep
  <2>3. ASSUME NEW u \in Threads, pc'[t] = "has", pc'[u] = "has", name'[t] = name'[u],
               name'[t] # Anonymous, born'[t] = born'[u],
               held'[t] \notin refused', held'[u] \notin refused'
        PROVE  held'[t] = held'[u]
    <3>1. /\ counter' > 0 /\ born'[t] = inits' /\ born'[u] = inits'
          /\ name'[t] \in Names /\ name'[u] \in Names
      BY <2>f, <2>m, <2>2, <2>3, Zenon
    <3>2. PICK p \in DOMAIN register' : register'[p] = held'[t]
      BY <1>t, <2>3, <3>1, Zenon DEF RegisterInv
    <3>3. PICK q \in DOMAIN register' : register'[q] = held'[u]
      BY <1>t, <2>3, <3>1, ZenonT(60) DEF RegisterInv
    <3>4. id'[register'[p]] = id'[register'[q]]
      BY <1>t, <2>3, <3>2, <3>3 DEF RegisterInv
    <3>5. QED BY <1>t, <3>2, <3>3, <3>4, Zenon DEF RegisterInv
  <2>4. ASSUME NEW u \in Threads, u # t, held'[t] # NoContainer, held'[t] = held'[u]
        PROVE  name'[t] # Anonymous /\ name'[u] # Anonymous /\ Hash[name'[t]] = Hash[name'[u]]
    <3>1. CASE UNCHANGED <<held, name>>
      BY <1>t, <2>4, <3>1, Zenon DEF RightContainer
    <3>2. CASE BumpRead(t) \/ BumpWrite(t) \/ Check(t) \/ Add(t) \/ AddFails(t) \/ UnrefRead(t)
      BY <3>1, <3>2, Zenon DEF BumpRead, BumpWrite, Check, Add, AddFails, UnrefRead
    <3>3. ASSUME NEW n \in Names, CreateFound(t, n)
          PROVE  name'[t] # Anonymous /\ name'[u] # Anonymous /\ Hash[name'[t]] = Hash[name'[u]]
      <4>1. \E p \in DOMAIN register' : register'[p] = held'[t]
        <5>c. PICK c \in Containers : FoundIs(t, n, c)
          BY <3>3, FoundFacts, Zenon
        <5>1. /\ \E p \in DOMAIN register : register[p] = c
              /\ held' = [held EXCEPT ![t] = c] /\ register' = register
          BY <5>c, Zenon DEF FoundIs
        <5>2. QED BY <2>f, <5>1, Zenon
      <4>2. PICK p \in DOMAIN register' : register'[p] = held'[t]
        BY <4>1, Zenon
      <4>3. \A v \in Threads : held'[v] = register'[p] =>
              name'[v] \in Names /\ Hash[name'[v]] = id'[register'[p]]
        BY <1>t, ZenonT(60) DEF RegisterInv
      <4>4. QED BY <2>4, <4>2, <4>3, ContainerRegistryAssumption, Zenon
    <3>4. ASSUME NEW n \in Names \cup {Anonymous}, CreateNew(t, n) PROVE FALSE
      <4>c. PICK c \in Containers : NewIs(t, n, c)
        BY <3>4, NewFacts, Zenon
      <4>1. memory[c] = "unused" /\ loop = 0 /\ held' = [held EXCEPT ![t] = c]
        BY <4>c, Zenon DEF NewIs
      <4>2. \A v \in Threads : held[v] # c
        BY <4>1, UnusedFree, Zenon
      <4>3. QED BY <2>f, <2>4, <4>1, <4>2, Zenon
    <3>5. CASE UnrefWrite(t)
      BY <2>f, <2>4, <3>5, Zenon DEF UnrefWrite, Drop
    <3>6. QED BY <1>3, <3>2, <3>3, <3>4, <3>5, Zenon DEF ThreadStep
  <2>5. ASSUME NEW u \in Threads, NEW v \in Threads
        PROVE  /\ /\ pc'[u] = "has" /\ pc'[v] = "has"
                  /\ name'[u] = name'[v] /\ name'[u] # Anonymous
                  /\ born'[u] = born'[v]
                  /\ held'[u] \notin refused' /\ held'[v] \notin refused'
                  => held'[u] = held'[v]
               /\ u # v /\ held'[u] # NoContainer /\ held'[u] = held'[v]
                  => /\ name'[u] # Anonymous /\ name'[v] # Anonymous
                     /\ Hash[name'[u]] = Hash[name'[v]]
    <3>1. CASE u = t
      BY <2>3, <2>4, <3>1, Zenon
    <3>2. CASE v = t
      BY <2>3, <2>4, <3>2, Zenon
    <3>3. CASE u # t /\ v # t
      <4>1. pc'[u] = pc[u] /\ held'[u] = held[u] /\ name'[u] = name[u] /\ born'[u] = born[u]
        BY <2>m, <3>3, Zenon
      <4>2. pc'[v] = pc[v] /\ held'[v] = held[v] /\ name'[v] = name[v] /\ born'[v] = born[v]
        BY <2>m, <3>3, Zenon
      <4>3. QED BY <1>t, <2>1, <4>1, <4>2 DEF RightContainer
    <3>4. QED BY <3>1, <3>2, <3>3, Zenon
  <2>6. QED BY <2>5, ZenonT(60) DEF RightContainer
<1>4. QED
  BY <1>2, <1>3, Zenon DEF Next

-----------------------------------------------------------------------------
(***************************************************************************)
(* The reference counts.                                                   *)
(***************************************************************************)

\* A set that gains or loses one element.
LEMMA OneMore ==
  ASSUME NEW S, IsFiniteSet(S), NEW x, x \notin S
  PROVE  IsFiniteSet(S \cup {x}) /\ Cardinality(S \cup {x}) = Cardinality(S) + 1
BY FS_AddElement, Zenon

LEMMA OneLess ==
  ASSUME NEW S, IsFiniteSet(S), NEW x \in S
  PROVE  /\ IsFiniteSet(S \ {x}) /\ Cardinality(S \ {x}) = Cardinality(S) - 1
BY FS_RemoveElement, Zenon

\* The sets of references are finite.
LEMMA RefsFinite ==
  ASSUME TypeOK, NEW c
  PROVE  /\ IsFiniteSet(Users(c)) /\ IsFiniteSet(Entries(c)) /\ IsFiniteSet(Stray(c))
         /\ Cardinality(Users(c)) \in Nat /\ Cardinality(Entries(c)) \in Nat
         /\ Cardinality(Stray(c)) \in Nat /\ Refs(c) \in Nat
<1>1. IsFiniteSet(Users(c))
  BY ContainerRegistryAssumption, FS_Subset, Zenon DEF Users
<1>2. IsFiniteSet(Entries(c))
  <2>1. Len(register) \in Nat /\ DOMAIN register = 1..Len(register)
    BY SeqFacts, Zenon DEF TypeOK
  <2>2. IsFiniteSet(DOMAIN register)
    BY <2>1, FS_Interval
  <2>3. Entries(c) \in SUBSET DOMAIN register
    BY Zenon DEF Entries
  <2>4. QED BY <2>2, <2>3, FS_Subset, Zenon
<1>3. IsFiniteSet(Stray(c))
  <2>1. Stray(c) \in SUBSET {c}
    BY Zenon DEF Stray
  <2>2. QED BY <2>1, FS_Singleton, FS_Subset, Zenon
<1>4. /\ Cardinality(Users(c)) \in Nat /\ Cardinality(Entries(c)) \in Nat
      /\ Cardinality(Stray(c)) \in Nat
  BY <1>1, <1>2, <1>3, FS_CardinalityType, Zenon
<1>5. QED BY <1>1, <1>2, <1>3, <1>4 DEF Refs

\* A container with a reference is live; in one that is not live nothing is left
\* of a reference.
LEMMA LiveFacts ==
  ASSUME TypeOK, CountInv, NEW c \in Containers
  PROVE  /\ Users(c) # {} \/ Entries(c) # {} \/ Stray(c) # {} => memory[c] = "live"
         /\ refcount[c] = 0 => Refs(c) = 0
<1>1. /\ memory[c] = "live" <=> refcount[c] > 0
      /\ refcount[c] >= Refs(c) /\ refcount[c] \in Nat
  BY Zenon DEF CountInv, CountOK, TypeOK
<1>2. Users(c) # {} => Cardinality(Users(c)) # 0
  BY RefsFinite, FS_EmptySet, Zenon
<1>3. Entries(c) # {} => Cardinality(Entries(c)) # 0
  BY RefsFinite, FS_EmptySet, Zenon
<1>4. Stray(c) # {} => Cardinality(Stray(c)) # 0
  BY RefsFinite, FS_EmptySet, Zenon
<1>5. QED BY <1>1, <1>2, <1>3, <1>4, RefsFinite DEF Refs

\* NoUseAfterFree follows from the counts.
LEMMA NothingDangles ==
  ASSUME IInv
  PROVE  NoUseAfterFree
<1>1. ASSUME NEW i \in DOMAIN register, i >= loop PROVE memory[register[i]] = "live"
  <2>1. register[i] \in Containers
    BY SeqFacts DEF IInv, ShapeInv, TypeOK
  <2>2. i \in Entries(register[i])
    BY <1>1, Zenon DEF Entries
  <2>3. QED BY <2>1, <2>2, LiveFacts, Zenon DEF IInv, ShapeInv
<1>2. ASSUME NEW t \in Threads, held[t] # NoContainer PROVE memory[held[t]] = "live"
  <2>1. held[t] \in Containers
    BY <1>2, Zenon DEF IInv, ShapeInv, TypeOK
  <2>2. CASE pc[t] \notin {"bump", "write"}
    <3>1. t \in Users(held[t])
      BY <2>2, Zenon DEF Users
    <3>2. QED BY <2>1, <3>1, LiveFacts, Zenon DEF IInv, ShapeInv
  <2>3. CASE pc[t] \in {"bump", "write"}
    <3>1. PICK p \in DOMAIN register : register[p] = held[t]
      BY <2>3, Zenon DEF IInv, ShapeInv, ThreadInv, ThreadOK
    <3>2. loop = 0
      BY <2>3, Zenon DEF IInv, ShapeInv, SerialInv, Quiet
    <3>3. p \in Nat
      BY SeqFacts DEF IInv, ShapeInv, TypeOK
    <3>4. QED BY <1>1, <3>1, <3>2, <3>3
  <2>4. QED BY <2>2, <2>3, Zenon
<1>3. QED BY <1>1, <1>2, Zenon DEF NoUseAfterFree

\* The counts give what the steps on the rest of the state start from.
LEMMA PreHolds ==
  ASSUME IInv, Serialized
  PROVE  Pre
<1>1. ASSUME NEW c \in refused PROVE memory[c] = "live"
  <2>1. c \in Containers
    BY Zenon DEF IInv, ShapeInv, TypeOK
  <2>2. c \in Stray(c)
    BY Zenon DEF Stray
  <2>3. QED BY <2>1, <2>2, LiveFacts, Zenon DEF IInv, ShapeInv
<1>2. QED BY <1>1, NothingDangles, Zenon DEF Pre, LiveInv, IInv

\* What becomes of the count of one container: nothing, a reference is added and
\* counted, or a reference is dropped and the container freed with the last one.
LEMMA CountSame ==
  ASSUME NEW c, CountOK(c), renewed' = 0 => renewed = 0,
         Users(c)' = Users(c), Entries(c)' = Entries(c), Stray(c)' = Stray(c),
         refcount'[c] = refcount[c], memory'[c] = memory[c]
  PROVE  CountOK(c)'
BY Zenon DEF CountOK, Refs

LEMMA CountMore ==
  ASSUME TypeOK, NEW c \in Containers, CountOK(c), renewed' = renewed,
         refcount'[c] = refcount[c] + 1, memory'[c] = "live", NEW x,
         \/ /\ x \notin Users(c) /\ Users(c)' = Users(c) \cup {x}
            /\ Entries(c)' = Entries(c) /\ Stray(c)' = Stray(c)
         \/ /\ x \notin Entries(c) /\ Entries(c)' = Entries(c) \cup {x}
            /\ Users(c)' = Users(c) /\ Stray(c)' = Stray(c)
         \/ /\ x \notin Stray(c) /\ Stray(c)' = Stray(c) \cup {x}
            /\ Users(c)' = Users(c) /\ Entries(c)' = Entries(c)
  PROVE  CountOK(c)'
<1>1. Refs(c)' = Refs(c) + 1
  <2>1. CASE /\ x \notin Users(c) /\ Users(c)' = Users(c) \cup {x}
             /\ Entries(c)' = Entries(c) /\ Stray(c)' = Stray(c)
    <3>1. Cardinality(Users(c))' = Cardinality(Users(c)) + 1
      BY <2>1, RefsFinite, OneMore, ZenonT(60)
    <3>2. QED BY <2>1, <3>1, RefsFinite DEF Refs
  <2>2. CASE /\ x \notin Entries(c) /\ Entries(c)' = Entries(c) \cup {x}
             /\ Users(c)' = Users(c) /\ Stray(c)' = Stray(c)
    <3>1. Cardinality(Entries(c))' = Cardinality(Entries(c)) + 1
      BY <2>2, RefsFinite, OneMore, ZenonT(60)
    <3>2. QED BY <2>2, <3>1, RefsFinite DEF Refs
  <2>3. CASE /\ x \notin Stray(c) /\ Stray(c)' = Stray(c) \cup {x}
             /\ Users(c)' = Users(c) /\ Entries(c)' = Entries(c)
    <3>1. Cardinality(Stray(c))' = Cardinality(Stray(c)) + 1
      BY <2>3, RefsFinite, OneMore, Zenon
    <3>2. QED BY <2>3, <3>1, RefsFinite DEF Refs
  <2>4. QED BY <2>1, <2>2, <2>3, Zenon
<1>2. refcount[c] \in Nat /\ Refs(c) \in Nat
  BY RefsFinite, Zenon DEF TypeOK
<1>3. QED BY <1>1, <1>2 DEF CountOK

LEMMA CountLess ==
  ASSUME TypeOK, NEW c \in Containers, CountOK(c), renewed' = renewed,
         refcount[c] > 0, refcount'[c] = refcount[c] - 1,
         memory'[c] = IF refcount[c] = 1 THEN "freed" ELSE memory[c], NEW x,
         Stray(c)' = Stray(c),
         \/ x \in Users(c) /\ Users(c)' = Users(c) \ {x} /\ Entries(c)' = Entries(c)
         \/ x \in Entries(c) /\ Entries(c)' = Entries(c) \ {x} /\ Users(c)' = Users(c)
  PROVE  CountOK(c)'
<1>1. Refs(c)' = Refs(c) - 1
  <2>1. CASE x \in Users(c) /\ Users(c)' = Users(c) \ {x} /\ Entries(c)' = Entries(c)
    <3>1. Cardinality(Users(c))' = Cardinality(Users(c)) - 1
      BY <2>1, RefsFinite, OneLess, ZenonT(60)
    <3>2. QED BY <2>1, <3>1, RefsFinite DEF Refs
  <2>2. CASE x \in Entries(c) /\ Entries(c)' = Entries(c) \ {x} /\ Users(c)' = Users(c)
    <3>1. Cardinality(Entries(c))' = Cardinality(Entries(c)) - 1
      BY <2>2, RefsFinite, OneLess, Zenon
    <3>2. QED BY <2>2, <3>1, RefsFinite DEF Refs
  <2>3. QED BY <2>1, <2>2, Zenon
<1>2. refcount[c] \in Nat /\ Refs(c) \in Nat
  BY RefsFinite, Zenon DEF TypeOK
<1>3. QED BY <1>1, <1>2 DEF CountOK

\* CountInv: the counts.
LEMMA CountStep == IInv /\ Serialized /\ [Next]_vars => CountInv'
<1> SUFFICES ASSUME IInv, Serialized, [Next]_vars, NEW c \in Containers PROVE CountOK(c)'
  BY Zenon DEF CountInv
<1> USE DEF library, thread
<1>p. Pre
  BY PreHolds, Zenon
<1>t. TypeOK /\ CountOK(c)
  BY Zenon DEF IInv, ShapeInv, CountInv
<1>n. loop \in Nat /\ Len(register) \in Nat /\ DOMAIN register = 1..Len(register)
  BY <1>t, SeqFacts, Zenon DEF TypeOK
<1>1. CASE HtInit
  <2>1. /\ register' = << >> /\ loop' = loop
        /\ UNCHANGED <<pc, held, refused, refcount, memory>>
    BY <1>1, Zenon DEF HtInit
  <2>2. Users(c)' = Users(c) /\ Stray(c)' = Stray(c) /\ Entries(c)' = {}
    BY <2>1, SMTT(60) DEF Users, Stray, Entries
  <2>3. CASE counter = 0
    <3>1. register' = register /\ renewed' = renewed
      BY <1>1, <2>1, <2>3 DEF HtInit, IInv, ShapeInv, SerialInv
    <3>2. Entries(c)' = Entries(c)
      BY <2>1, <3>1, Zenon DEF Entries
    <3>3. QED BY <1>t, <2>1, <2>2, <3>1, <3>2, CountSame, SMTT(60)
  <2>4. CASE counter # 0
    <3>1. renewed' = 1
      BY <1>1, <2>4, SMTT(60) DEF HtInit, IInv, ShapeInv, TypeOK
    <3>2. Refs(c)' <= Refs(c)
      <4>1. Refs(c)' = Cardinality(Users(c)) + 0 + Cardinality(Stray(c))
        BY <2>2, FS_EmptySet, Zenon DEF Refs
      <4>2. QED BY <1>t, <4>1, RefsFinite DEF Refs
    <3>3. Refs(c)' \in Nat /\ Refs(c) \in Nat /\ refcount[c] \in Nat
      <4>1. Refs(c)' = Cardinality(Users(c)) + 0 + Cardinality(Stray(c))
        BY <2>2, FS_EmptySet DEF Refs
      <4>2. refcount[c] \in Nat
        BY <1>t, Zenon DEF TypeOK
      <4>3. QED BY <1>t, <4>1, <4>2, RefsFinite, SMTT(60)
    <3>4. QED BY <1>t, <2>1, <3>1, <3>2, <3>3, SMTT(60) DEF CountOK
  <2>5. QED BY <2>3, <2>4, Zenon
<1>2. CASE HtDeinitNested \/ HtDeinit \/ UNCHANGED vars
  <2>1. /\ UNCHANGED <<pc, held, refused, refcount, memory, register, renewed>>
        /\ loop' = loop \/ (loop = 0 /\ loop' = 1)
    BY <1>2, Zenon DEF HtDeinitNested, HtDeinit, vars
  <2>2. Users(c)' = Users(c) /\ Stray(c)' = Stray(c)
    BY <2>1, Zenon DEF Users, Stray
  <2>3. Entries(c)' = Entries(c)
    BY <1>n, <2>1 DEF Entries
  <2>4. QED BY <1>t, <2>1, <2>2, <2>3, CountSame, Zenon
<1>3. CASE DeinitUnref
  <2>1. /\ loop \in DOMAIN register /\ register[loop] \in Containers /\ loop' = loop + 1
        /\ refcount[register[loop]] > 0
        /\ refcount' = [refcount EXCEPT ![register[loop]] = @ - 1]
        /\ memory' = IF refcount[register[loop]] = 1
                       THEN [memory EXCEPT ![register[loop]] = "freed"] ELSE memory
        /\ UNCHANGED <<pc, held, refused, register, renewed>>
    BY <1>t, <1>n, <1>3, SeqFacts, Zenon DEF DeinitUnref, TypeOK
  <2>2. Users(c)' = Users(c) /\ Stray(c)' = Stray(c)
    BY <2>1, Zenon DEF Users, Stray
  <2>3. refcount \in [Containers -> Nat] /\ memory \in [Containers -> {"unused", "live", "freed"}]
    BY <1>t, Zenon DEF TypeOK
  <2>4. CASE c = register[loop]
    <3>1. loop \in Entries(c) /\ Entries(c)' = Entries(c) \ {loop}
      BY <1>n, <2>1, <2>4 DEF Entries
    <3>2. /\ refcount'[c] = refcount[c] - 1
          /\ memory'[c] = IF refcount[c] = 1 THEN "freed" ELSE memory[c]
      BY <2>1, <2>3, <2>4, Zenon
    <3>3. QED BY <1>t, <2>1, <2>2, <2>4, <3>1, <3>2, CountLess, ZenonT(60)
  <2>5. CASE c # register[loop]
    <3>1. Entries(c)' = Entries(c)
      BY <1>n, <2>1, <2>5 DEF Entries
    <3>2. refcount'[c] = refcount[c] /\ memory'[c] = memory[c]
      BY <2>1, <2>3, <2>5, Zenon
    <3>3. QED BY <1>t, <2>1, <2>2, <3>1, <3>2, CountSame, ZenonT(60)
  <2>6. QED BY <2>4, <2>5, Zenon
<1>4. CASE DeinitDone
  <2>1. /\ loop > Len(register) /\ register' = << >>
        /\ UNCHANGED <<pc, held, refused, refcount, memory, renewed>>
    BY <1>4, Zenon DEF DeinitDone
  <2>2. Users(c)' = Users(c) /\ Stray(c)' = Stray(c)
    BY <2>1, Zenon DEF Users, Stray
  <2>3. Entries(c)' = {} /\ Entries(c) = {}
    BY <1>n, <2>1 DEF Entries
  <2>4. QED BY <1>t, <2>1, <2>2, <2>3, CountSame, Zenon
<1>5. ASSUME NEW t \in Threads, ThreadStep(t) PROVE CountOK(c)'
  <2>f. /\ pc \in [Threads -> {"none", "has", "bump", "write", "check", "add", "drop"}]
        /\ held \in [Threads -> Containers \cup {NoContainer}]
        /\ refcount \in [Containers -> Nat]
        /\ memory \in [Containers -> {"unused", "live", "freed"}]
        /\ ThreadOK(t) /\ NoContainer \notin Containers
    BY <1>t, ContainerRegistryAssumption, Zenon DEF TypeOK, IInv, ShapeInv, ThreadInv
  <2>m. /\ \A u \in Threads : u # t => pc'[u] = pc[u] /\ held'[u] = held[u]
        /\ loop = 0 /\ loop' = loop /\ renewed' = renewed
    BY <1>5, <1>p, ThreadMoves, Zenon
  <2>u. \A u \in Threads : u # t => (u \in Users(c)' <=> u \in Users(c))
    BY <2>m, Zenon DEF Users
  <2>1. ASSUME UNCHANGED <<register, refused>> PROVE Entries(c)' = Entries(c) /\ Stray(c)' = Stray(c)
    BY <2>m, <2>1, Zenon DEF Entries, Stray
  <2>2. ASSUME t \in Users(c)' <=> t \in Users(c) PROVE Users(c)' = Users(c)
    <3>1. Users(c)' \subseteq Threads /\ Users(c) \subseteq Threads
      BY Zenon DEF Users
    <3>2. QED BY <2>u, <2>2, <3>1
  <2>3. CASE UNCHANGED <<register, refused, refcount, memory>> /\ (t \in Users(c)' <=> t \in Users(c))
    BY <1>t, <2>m, <2>1, <2>2, <2>3, CountSame, Zenon
  <2>4. ASSUME NEW n \in Names, CreateFound(t, n) PROVE CountOK(c)'
    <3>c. PICK d \in Containers : FoundIs(t, n, d)
      BY <2>4, <1>p, FoundFacts, Zenon
    <3>1. /\ held[t] = NoContainer
          /\ held' = [held EXCEPT ![t] = d] /\ pc' = [pc EXCEPT ![t] = "bump"]
          /\ UNCHANGED <<register, refused, refcount, memory>>
      BY <3>c, Zenon DEF FoundIs
    <3>2. pc'[t] = "bump"
      BY <2>f, <3>1, Zenon
    <3>3. t \notin Users(c)' /\ t \notin Users(c)
      BY <2>f, <3>1, <3>2, Zenon DEF Users
    <3>4. QED BY <2>3, <3>1, <3>3, Zenon
  <2>5. ASSUME NEW n \in Names \cup {Anonymous}, CreateNew(t, n) PROVE CountOK(c)'
    <3>c. PICK d \in Containers : NewIs(t, n, d)
      BY <2>5, <1>p, NewFacts, Zenon
    <3>1. /\ memory[d] = "unused" /\ held[t] = NoContainer
          /\ held' = [held EXCEPT ![t] = d]
          /\ pc' = [pc EXCEPT ![t] = IF n \in Names THEN "check" ELSE "has"]
          /\ memory' = [memory EXCEPT ![d] = "live"]
          /\ refcount' = [refcount EXCEPT ![d] = 1]
          /\ UNCHANGED <<register, refused>>
      BY <3>c, Zenon DEF NewIs
    <3>2. pc'[t] \in {"check", "has"} /\ held'[t] = d
      BY <2>f, <3>1, Zenon
    <3>3. t \notin Users(c) /\ (t \in Users(c)' <=> c = d)
      BY <2>f, <3>1, <3>2, Zenon DEF Users
    <3>4. CASE c # d
      <4>1. refcount'[c] = refcount[c] /\ memory'[c] = memory[c]
        BY <2>f, <3>1, <3>4, Zenon
      <4>2. Users(c)' = Users(c)
        BY <2>2, <3>3, <3>4, Zenon
      <4>3. QED BY <1>t, <2>m, <2>1, <3>1, <4>1, <4>2, CountSame, ZenonT(60)
    <3>5. CASE c = d
      <4>1. refcount[c] = 0
        BY <1>t, <2>f, <3>1, <3>5, SMTT(60) DEF CountOK
      <4>2. refcount'[c] = refcount[c] + 1 /\ memory'[c] = "live"
        BY <2>f, <3>1, <3>5, <4>1
      <4>3. Users(c)' = Users(c) \cup {t}
        <5>1. Users(c)' \subseteq Threads /\ Users(c) \subseteq Threads
          BY Zenon DEF Users
        <5>2. QED BY <2>u, <3>3, <3>5, <5>1, Zenon
      <4>4. QED BY <1>t, <2>m, <2>1, <3>1, <3>3, <4>2, <4>3, CountMore, SMTT(60)
    <3>6. QED BY <3>4, <3>5, Zenon
  <2>6. CASE BumpRead(t) \/ Check(t) \/ UnrefRead(t)
    <3>1. /\ UNCHANGED <<register, refused, refcount, memory, held>>
          /\ pc[t] \in {"bump", "write"} <=> pc'[t] \in {"bump", "write"}
      BY <2>f, <2>6, Zenon DEF BumpRead, Check, UnrefRead
    <3>2. QED BY <2>3, <3>1, Zenon DEF Users
  <2>7. CASE BumpWrite(t)
    <3>1. /\ pc[t] = "write" /\ pc'[t] = "has" /\ held[t] \in Containers
          /\ refcount' = [refcount EXCEPT ![held[t]] = refcount[held[t]] + 1]
          /\ UNCHANGED <<register, refused, memory, held>>
      BY <2>f, <2>7, Zenon DEF BumpWrite, ThreadOK
    <3>2. t \notin Users(c) /\ (t \in Users(c)' <=> c = held[t])
      BY <3>1, Zenon DEF Users
    <3>3. CASE c # held[t]
      <4>1. refcount'[c] = refcount[c] /\ memory'[c] = memory[c]
        BY <2>f, <3>1, <3>3, Zenon
      <4>2. Users(c)' = Users(c)
        BY <2>2, <3>2, <3>3, ZenonT(60)
      <4>3. QED BY <1>t, <2>m, <2>1, <3>1, <4>1, <4>2, CountSame, ZenonT(60)
    <3>4. CASE c = held[t]
      <4>1. memory[c] = "live"
        BY <2>f, <3>4, NothingDangles, Zenon DEF NoUseAfterFree
      <4>2. refcount'[c] = refcount[c] + 1 /\ memory'[c] = "live"
        BY <2>f, <3>1, <3>4, <4>1, Zenon
      <4>3. Users(c)' = Users(c) \cup {t}
        <5>1. Users(c)' \subseteq Threads /\ Users(c) \subseteq Threads
          BY DEF Users
        <5>2. QED BY <2>u, <3>2, <3>4, <5>1, Zenon
      <4>4. QED BY <1>t, <2>m, <2>1, <3>1, <3>2, <4>2, <4>3, CountMore, SMTT(60)
    <3>5. QED BY <3>3, <3>4, Zenon
  <2>8. ASSUME pc[t] = "add", pc'[t] = "has", UNCHANGED <<memory, held>>,
               refcount' = [refcount EXCEPT ![held[t]] = @ + 1]
        PROVE  /\ Users(c)' = Users(c) /\ memory'[c] = memory[c] /\ held[t] \in Containers
               /\ refcount'[c] = IF c = held[t] THEN refcount[c] + 1 ELSE refcount[c]
               /\ c = held[t] => memory[c] = "live"
    <3>1. Users(c)' = Users(c)
      BY <2>2, <2>8, Zenon DEF Users
    <3>2. held[t] \in Containers /\ memory[held[t]] = "live"
      BY <2>f, <2>8, NothingDangles, Zenon DEF ThreadOK, NoUseAfterFree
    <3>3. QED BY <2>f, <2>8, <3>1, <3>2, Zenon
  <2>9. CASE Add(t)
    <3>1. /\ pc[t] = "add" /\ pc'[t] = "has" /\ UNCHANGED <<memory, held, refused>>
          /\ refcount' = [refcount EXCEPT ![held[t]] = @ + 1]
          /\ register' = Append(register, held[t])
      BY <2>f, <2>9, Zenon DEF Add
    <3>2. /\ Users(c)' = Users(c) /\ memory'[c] = memory[c] /\ held[t] \in Containers
          /\ refcount'[c] = IF c = held[t] THEN refcount[c] + 1 ELSE refcount[c]
          /\ c = held[t] => memory[c] = "live"
      BY <2>8, <3>1, Zenon
    <3> DEFINE last == Len(register) + 1
    <3>3. /\ DOMAIN register' = DOMAIN register \cup {last} /\ last \notin DOMAIN register
          /\ \A p \in DOMAIN register : register'[p] = register[p]
          /\ register'[last] = held[t] /\ last >= 0
      <4>1. register \in Seq(Containers)
        BY <1>t, ZenonT(60) DEF TypeOK
      <4>2. /\ register' \in Seq(Containers) /\ Len(register') = last
            /\ \A p \in 1..Len(register) : register'[p] = register[p]
            /\ register'[last] = held[t]
        BY <3>1, <3>2, <4>1, AppendFacts, SMTT(60)
      <4>3. DOMAIN register' = 1..last /\ 1..last = 1..Len(register) \cup {last}
            /\ last \notin 1..Len(register) /\ last >= 0
        BY <1>n, <4>2, SeqFacts
      <4>4. QED BY <1>n, <4>2, <4>3, Zenon
    <3> HIDE DEF last
    <3>4. Stray(c)' = Stray(c)
      BY <3>1, Zenon DEF Stray
    <3>5. CASE c = held[t]
      <4>1. last \notin Entries(c) /\ Entries(c)' = Entries(c) \cup {last}
        BY <1>n, <2>m, <3>3, <3>5, Zenon DEF Entries
      <4>2. QED BY <1>t, <2>m, <3>2, <3>4, <3>5, <4>1, CountMore, ZenonT(60)
    <3>6. CASE c # held[t]
      <4>1. Entries(c)' = Entries(c)
        BY <1>n, <2>m, <3>3, <3>6, Zenon DEF Entries
      <4>2. QED BY <1>t, <2>m, <3>2, <3>4, <3>6, <4>1, CountSame, ZenonT(60)
    <3>7. QED BY <3>5, <3>6, Zenon
  <2>10. CASE AddFails(t)
    <3>1. /\ pc[t] = "add" /\ pc'[t] = "has" /\ UNCHANGED <<memory, held, register>>
          /\ refcount' = [refcount EXCEPT ![held[t]] = @ + 1]
          /\ refused' = refused \cup {held[t]}
      BY <2>f, <2>10, Zenon DEF AddFails
    <3>2. /\ Users(c)' = Users(c) /\ memory'[c] = memory[c] /\ held[t] \in Containers
          /\ refcount'[c] = IF c = held[t] THEN refcount[c] + 1 ELSE refcount[c]
          /\ c = held[t] => memory[c] = "live"
      BY <2>8, <3>1, Zenon
    <3>3. Entries(c)' = Entries(c)
      BY <2>m, <3>1, Zenon DEF Entries
    <3>4. held[t] \notin refused
      BY <2>f, <3>1, Zenon DEF ThreadOK
    <3>5. CASE c = held[t]
      <4>1. c \notin Stray(c) /\ Stray(c)' = Stray(c) \cup {c}
        BY <3>1, <3>4, <3>5, Zenon DEF Stray
      <4>2. QED BY <1>t, <2>m, <3>2, <3>3, <3>5, <4>1, CountMore, ZenonT(60)
    <3>6. CASE c # held[t]
      <4>1. Stray(c)' = Stray(c)
        BY <3>1, <3>6, Zenon DEF Stray
      <4>2. QED BY <1>t, <2>m, <3>2, <3>3, <3>6, <4>1, CountSame, ZenonT(60)
    <3>7. QED BY <3>5, <3>6
  <2>11. CASE UnrefWrite(t)
    <3>1. /\ pc[t] = "drop" /\ held'[t] = NoContainer /\ held[t] \in Containers
          /\ refcount[held[t]] > 0
          /\ refcount' = [refcount EXCEPT ![held[t]] = refcount[held[t]] - 1]
          /\ memory' = IF refcount[held[t]] = 1 THEN [memory EXCEPT ![held[t]] = "freed"] ELSE memory
          /\ UNCHANGED <<register, refused>>
      BY <2>f, <2>11, <1>p, UnrefFacts, Zenon DEF UnrefWrite, Drop
    <3>2. t \notin Users(c)' /\ (t \in Users(c) <=> c = held[t])
      BY <2>f, <3>1, Zenon DEF Users
    <3>3. CASE c # held[t]
      <4>1. refcount'[c] = refcount[c] /\ memory'[c] = memory[c]
        BY <2>f, <3>1, <3>3, Zenon
      <4>2. Users(c)' = Users(c)
        BY <2>2, <3>2, <3>3, ZenonT(60)
      <4>3. QED BY <1>t, <2>m, <2>1, <3>1, <4>1, <4>2, CountSame, ZenonT(60)
    <3>4. CASE c = held[t]
      <4>1. /\ refcount[c] > 0 /\ refcount'[c] = refcount[c] - 1
            /\ memory'[c] = IF refcount[c] = 1 THEN "freed" ELSE memory[c]
        BY <2>f, <3>1, <3>4, Zenon
      <4>2. Users(c)' = Users(c) \ {t}
        <5>1. Users(c)' \subseteq Threads /\ Users(c) \subseteq Threads
          BY DEF Users
        <5>2. QED BY <2>u, <3>2, <3>4, <5>1, Zenon
      <4>3. QED BY <1>t, <2>m, <2>1, <3>1, <3>2, <3>4, <4>1, <4>2, CountLess, SMTT(60)
    <3>5. QED BY <3>3, <3>4
  <2>12. QED
    BY <1>5, <2>4, <2>5, <2>6, <2>7, <2>9, <2>10, <2>11, ZenonT(60) DEF ThreadStep
<1>6. QED
  BY <1>1, <1>2, <1>3, <1>4, <1>5, Zenon DEF Next

LEMMA InitIInv == Init => IInv
<1> SUFFICES ASSUME Init PROVE IInv BY Zenon
<1> USE ContainerRegistryAssumption DEF Init
<1>e. << >> \in Seq(Containers) /\ Len(<< >>) = 0 /\ DOMAIN << >> = {}
  BY EmptyFacts, Zenon
<1>1. TypeOK
  BY <1>e, Zenon DEF TypeOK
<1>2. SerialInv
  <2>1. \A t \in Threads : pc[t] = "none"
    BY Zenon
  <2>2. \A t, u \in Threads : {pc[t], pc[u]} \cap {"none", "has"} # {}
    BY <2>1, Zenon
  <2>3. QED BY <1>e, <2>2 DEF SerialInv, Quiet
<1>3. ThreadInv
  BY <1>e DEF ThreadInv, ThreadOK
<1>4. RegisterInv
  BY <1>e, Zenon DEF RegisterInv
<1>5. ASSUME NEW c \in Containers PROVE CountOK(c)
  <2>1. Users(c) = {} /\ Entries(c) = {} /\ Stray(c) = {}
    BY <1>e, Zenon DEF Users, Entries, Stray
  <2>2. Refs(c) = 0
    BY <2>1, FS_EmptySet DEF Refs
  <2>3. QED BY <2>2 DEF CountOK
<1>6. RightContainer
  BY Zenon DEF RightContainer
<1>7. QED BY <1>1, <1>2, <1>3, <1>4, <1>5, <1>6, ZenonT(60) DEF IInv, ShapeInv, CountInv

-----------------------------------------------------------------------------
\* The inductive invariant holds as long as timelines are created and destroyed
\* one at a time.
THEOREM Invariant ==
  ASSUME Serialized
  PROVE  Spec => []IInv
<1>1. IInv /\ [Next]_vars => IInv'
  BY PreHolds, TypeStep, SerialStep, ThreadsStep, RegisterStep, RightStep, CountStep, ZenonT(60)
     DEF IInv, ShapeInv
<1>2. QED BY InitIInv, <1>1, PTL DEF Spec

\* ht_timeline_listener_container_unref frees no container that a timeline or the
\* register still points to, in particular when ht_deinit comes before the last
\* timelines are destroyed, and when ht_init forgets a register.
THEOREM NoUseAfterFreeTheorem ==
  ASSUME Serialized
  PROVE  Spec => []NoUseAfterFree
<1>1. IInv => NoUseAfterFree
  BY NothingDangles, Zenon
<1>2. QED BY Invariant, <1>1, PTL

\* ht_find_or_create_listener gives timelines of one name one container, and
\* timelines whose names have different hashes different ones.
THEOREM RightContainerTheorem ==
  ASSUME Serialized
  PROVE  Spec => []RightContainer
<1>1. IInv => RightContainer
  BY Zenon DEF IInv, ShapeInv
<1>2. QED BY Invariant, <1>1, PTL

\* The reference counts are exact, and no container leaks.
THEOREM RefsExactTheorem ==
  ASSUME Serialized
  PROVE  Spec => []RefsExact
<1>1. IInv => RefsExact
  <2> SUFFICES ASSUME IInv, renewed = 0 PROVE
        /\ \A c \in Containers :
             refcount[c] = Cardinality(Users(c)) + Cardinality(Entries(c)) + Cardinality(Stray(c))
        /\ counter = 0 /\ loop = 0 /\ (\A t \in Threads : pc[t] = "none")
           => \A c \in Containers \ refused : memory[c] # "live"
    BY Zenon DEF RefsExact
  <2>1. \A c \in Containers :
          refcount[c] = Cardinality(Users(c)) + Cardinality(Entries(c)) + Cardinality(Stray(c))
    BY Zenon DEF IInv, ShapeInv, CountInv, CountOK, Refs
  <2>2. ASSUME counter = 0, loop = 0, \A t \in Threads : pc[t] = "none",
               NEW c \in Containers \ refused
        PROVE  memory[c] # "live"
    <3>1. register = << >>
      BY <2>2, ZenonT(60) DEF IInv, ShapeInv, SerialInv
    <3>2. \A t \in Threads : held[t] # c
      BY <2>2, ContainerRegistryAssumption, SMTT(60) DEF IInv, ShapeInv, ThreadInv, ThreadOK
    <3>3. Users(c) = {} /\ Entries(c) = {} /\ Stray(c) = {}
      BY <3>1, <3>2 DEF Users, Entries, Stray
    <3>4. refcount[c] = 0
      BY <2>1, <3>3, FS_EmptySet
    <3>5. QED BY <3>4 DEF IInv, ShapeInv, CountInv, CountOK
  <2>3. QED BY <2>1, <2>2, Zenon
<1>2. QED BY Invariant, <1>1, PTL

=============================================================================
