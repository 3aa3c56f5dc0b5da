------------------------ MODULE KlassRegistryProofs ------------------------
(***************************************************************************)
(* Proofs about KlassRegistry, for any number of threads, listeners and    *)
(* klasses, descriptions of any length and every size of the buffer:       *)
(* where no klass is registered by two threads at once, the id of a klass  *)
(* is its place in the register, and a new listener is told all klasses    *)
(* once, in order, before it gets an event of one of them.                 *)
(***************************************************************************)
EXTENDS KlassRegistry, TLAPS

LEMMA SeqFacts ==
  ASSUME NEW S, NEW s \in Seq(S)
  PROVE  Len(s) \in Nat /\ DOMAIN s = 1..Len(s) /\ \A k \in 1..Len(s) : s[k] \in S
OBVIOUS

LEMMA AppendFacts ==
  ASSUME NEW S, NEW s \in Seq(S), NEW x \in S
  PROVE  /\ Append(s, x) \in Seq(S) /\ Len(Append(s, x)) = Len(s) + 1
         /\ \A k \in 1..Len(s) : Append(s, x)[k] = s[k]
         /\ Append(s, x)[Len(s) + 1] = x
         /\ << >> \in Seq(S) /\ Append(<< >>, x) = <<x>>
OBVIOUS

LEMMA CatFacts ==
  ASSUME NEW S, NEW s \in Seq(S), NEW t \in Seq(S)
  PROVE  s \o t \in Seq(S) /\ Len(s \o t) = Len(s) + Len(t)
OBVIOUS

LEMMA CatPrefix ==
  ASSUME NEW S, NEW s \in Seq(S), NEW t \in Seq(S)
  PROVE  \A p \in DOMAIN s : p \in DOMAIN (s \o t) /\ (s \o t)[p] = s[p]
OBVIOUS

LEMMA CatEmpty ==
  ASSUME NEW S, NEW s \in Seq(S)
  PROVE  << >> \in Seq(S) /\ s \o << >> = s /\ << >> \o s = s
OBVIOUS

LEMMA CatAppend ==
  ASSUME NEW S, NEW s \in Seq(S), NEW t \in Seq(S), NEW x \in S
  PROVE  /\ s \o Append(t, x) = Append(s \o t, x)
         /\ (s \o t) \o Append(<< >>, x) = Append(s \o t, x)
OBVIOUS

-----------------------------------------------------------------------------
(***************************************************************************)
(* The inductive invariant.                                                *)
(***************************************************************************)

\* What a listener receives: an info event, or an event of a klass.
Message == {"info", "event"} \X Klasses \X Nat \X Nat

TypeOK ==
  /\ inits \in Nat /\ boot \in 0..(Len(Core) + 1) /\ up \in BOOLEAN
  /\ klasses \in Seq(Klasses)
  /\ id \in [Klasses -> Nat \cup {Invalid}]
  /\ mtx \in Listeners \cup {Nobody}
  /\ pc \in [Threads -> {"idle", "add"}]
  /\ adding \in [Threads -> Klasses \cup {NoKlass}]
  /\ at \in [Listeners -> {"new", "push", "tail", "attached"}]
  /\ i \in [Listeners -> Nat \ {0}] /\ j \in [Listeners -> Nat \ {0}]
  /\ data \in [Listeners -> Seq(Message)]
  /\ pos \in [Listeners -> Nat]
  /\ stream \in [Listeners -> Seq(Message)]
  /\ known \in [Listeners -> SUBSET Klasses]

\* Where the threads are, and who holds the mutex.
ThreadInv ==
  /\ boot # 0 => ~up
  /\ ~up => Quiet
  /\ \A l \in Listeners : at[l] = "push" <=> mtx = l
  /\ \A t \in Threads :
       IF pc[t] = "idle"
       THEN adding[t] = NoKlass
       ELSE adding[t] \in Klasses /\ id[adding[t]] = Invalid
  /\ \A t, u \in Threads : adding[t] = adding[u] /\ adding[t] # NoKlass => t = u

\* A klass in the register has its place as its id.
PlaceInv == \A n \in DOMAIN klasses : id[klasses[n]] = n - 1

\* With a single call of ht_init, a klass that has an id is in the register.
OnceInv ==
  /\ inits = 0 => /\ ~up /\ boot = 0
                  /\ \A k \in Klasses : id[k] = Invalid
  /\ up \/ boot # 0 => \A k \in Klasses : id[k] # Invalid =>
                         id[k] + 1 \in DOMAIN klasses /\ klasses[id[k] + 1] = k

\* The pushing loop of listener l.
LoopInv ==
  \A l \in Listeners :
    /\ at[l] = "new" => stream[l] = << >> /\ known[l] = {} /\ i[l] = 1 /\ j[l] = 1
    /\ at[l] \in {"new", "attached"} => data[l] = << >>
    /\ at[l] = "push" =>
         /\ known[l] = Range(klasses)
         /\ i[l] <= Len(klasses) + 1
         /\ i[l] <= Len(klasses) => j[l] <= Len(Infos[klasses[i[l]]])
    /\ \A k \in known[l] : id[k] # Invalid

\* Info event m of klass k is behind the loop of listener l.
Described(l, k, m) ==
  \/ at[l] \in {"tail", "attached"}
  \/ \E n \in DOMAIN klasses :
       klasses[n] = k /\ (n < i[l] \/ (n = i[l] /\ m < j[l]))

\* What the listener was told lies before what the loop handles next ...
OrderInv ==
  /\ ToldInOrder
  /\ \A l \in Listeners : at[l] = "push" =>
       \A p \in DOMAIN Told(l) : Told(l)[p][1] = "info" =>
         \/ Told(l)[p][3] + 1 < i[l]
         \/ Told(l)[p][3] + 1 = i[l] /\ Told(l)[p][4] < j[l]

\* ... and all that lies before it the listener was told, and nothing else as
\* long as it is not attached.
ToldInv ==
  \A l \in Listeners :
    /\ \A k \in known[l] : \A m \in DOMAIN Infos[k] :
         Described(l, k, m) =>
           \E p \in DOMAIN Told(l) : Told(l)[p] = <<"info", k, id[k], m>>
    /\ at[l] # "attached" => \A p \in DOMAIN Told(l) : Told(l)[p][1] = "info"

IInv ==
  /\ TypeOK /\ ThreadInv /\ PlaceInv /\ LoopInv
  /\ OrderInv /\ ToldInv /\ AnnouncedFirst /\ BufferFits

-----------------------------------------------------------------------------
(***************************************************************************)
(* Steps that register klasses leave the listeners alone.                  *)
(***************************************************************************)

Registration ==
  \/ HtInit \/ InitKlass \/ InitDone \/ HtDeinit
  \/ \E t \in Threads : Add(t) \/ AddFails(t) \/ \E k \in User : Register(t, k)
  \/ UNCHANGED vars

\* The core klasses.
LEMMA CoreFacts ==
  /\ Len(Core) \in Nat /\ DOMAIN Core = 1..Len(Core)
  /\ \A n \in DOMAIN Core : Core[n] \in Klasses
<1>1. Core \in Seq(Range(Core))
  BY KlassRegistryAssumption, Zenon
<1>2. \A n \in DOMAIN Core : Core[n] \in Range(Core)
  BY Zenon DEF Range
<1>3. QED BY <1>1, <1>2, SeqFacts, Zenon DEF Klasses

\* The threads and the loops are where they are when no function is running.
LEMMA QuietFacts ==
  ASSUME TypeOK, ThreadInv, Quiet
  PROVE  /\ \A t \in Threads : pc[t] = "idle" /\ adding[t] = NoKlass
         /\ \A l \in Listeners : at[l] # "push" /\ at[l] # "tail"
BY Zenon DEF ThreadInv, Quiet

\* A thread that adds a klass adds one without an id, and no listener is being
\* told.
LEMMA AddFacts ==
  ASSUME TypeOK, ThreadInv, NEW t \in Threads, AddEnds(t)
  PROVE  /\ adding[t] \in Klasses /\ id[adding[t]] = Invalid /\ up
         /\ \A l \in Listeners : at[l] # "push"
<1>1. pc[t] # "idle" /\ mtx = Nobody
  BY Zenon DEF AddEnds
<1>2. up
  BY <1>1, Zenon DEF ThreadInv, Quiet, TypeOK
<1>3. Nobody \notin Listeners
  BY KlassRegistryAssumption, Zenon
<1>4. QED BY <1>1, <1>2, <1>3, Zenon DEF ThreadInv

\* So is ht_init when it registers the core klasses.
LEMMA BootFacts ==
  ASSUME TypeOK, ThreadInv, boot # 0
  PROVE  ~up /\ Quiet
BY Zenon DEF ThreadInv

\* No registration touches a listener or changes an id, and the register stays
\* as it is while a listener is being told.
LEMMA RegistrationFrame ==
  ASSUME TypeOK, ThreadInv, Registration
  PROVE  /\ UNCHANGED <<mtx, at, i, j, data, pos, known, stream>>
         /\ UNCHANGED klasses \/ \A l \in Listeners : at[l] # "push"
         /\ \A k \in Klasses : id[k] # Invalid => id'[k] = id[k]
<1> USE DEF pushing
<1>1. CASE HtInit
  BY <1>1, QuietFacts, Zenon DEF HtInit
<1>2. CASE InitKlass
  <2>1. boot \in DOMAIN Core
    BY <1>2, Zenon DEF InitKlass
  <2>2. boot # 0
    BY <2>1, CoreFacts
  <2>3. \A l \in Listeners : at[l] # "push"
    BY <2>2, BootFacts, QuietFacts, Zenon
  <2>4. \A k \in Klasses : id[k] # Invalid => id'[k] = id[k]
    BY <1>2, Zenon DEF InitKlass, Enter, TypeOK
  <2>5. QED BY <1>2, <2>3, <2>4, Zenon DEF InitKlass
<1>3. CASE InitDone
  BY <1>3, Zenon DEF InitDone
<1>4. CASE HtDeinit
  BY <1>4, QuietFacts, Zenon DEF HtDeinit
<1>5. ASSUME NEW t \in Threads, Add(t)
      PROVE  /\ UNCHANGED <<mtx, at, i, j, data, pos, known, stream>>
             /\ \A l \in Listeners : at[l] # "push"
             /\ \A k \in Klasses : id[k] # Invalid => id'[k] = id[k]
  <2>1. AddEnds(t)
    BY <1>5, Zenon DEF Add
  <2>2. QED BY <1>5, <2>1, AddFacts, Zenon DEF Add, Enter, AddEnds, TypeOK
<1>6. ASSUME NEW t \in Threads, AddFails(t)
      PROVE  UNCHANGED <<mtx, at, i, j, data, pos, known, stream, klasses, id>>
  BY <1>6, Zenon DEF AddFails, AddEnds
<1>7. ASSUME NEW t \in Threads, NEW k \in User, Register(t, k)
      PROVE  UNCHANGED <<mtx, at, i, j, data, pos, known, stream, klasses, id>>
  BY <1>7, Zenon DEF Register
<1>8. CASE UNCHANGED vars
  BY <1>8, Zenon DEF vars
<1>9. QED BY <1>1, <1>2, <1>3, <1>4, <1>5, <1>6, <1>7, <1>8, Zenon DEF Registration

-----------------------------------------------------------------------------
(***************************************************************************)
(* What the steps of a listener and of a timeline do to the streams.       *)
(***************************************************************************)

\* What the loop handles next: an info event of a registered klass whose id is
\* its place, which fits into an empty buffer.
LEMMA LoopFacts ==
  ASSUME TypeOK, PlaceInv, LoopInv, NEW l \in Listeners, at[l] = "push",
         i[l] <= Len(klasses)
  PROVE  /\ i[l] \in DOMAIN klasses /\ i[l] \in Nat /\ j[l] \in Nat
         /\ klasses[i[l]] \in Klasses /\ klasses[i[l]] \in known[l]
         /\ id[klasses[i[l]]] = i[l] - 1 /\ i[l] - 1 \in Nat
         /\ j[l] \in DOMAIN Infos[klasses[i[l]]]
         /\ Len(Infos[klasses[i[l]]]) \in Nat
         /\ Infos[klasses[i[l]]][j[l]] \in 1..BuffSize
         /\ Info(klasses[i[l]], j[l]) \in Message
<1> DEFINE k == klasses[i[l]]
<1>1. i[l] \in Nat \ {0} /\ j[l] \in Nat \ {0} /\ Len(klasses) \in Nat
  BY SeqFacts, Zenon DEF TypeOK
<1>2. DOMAIN klasses = 1..Len(klasses)
  BY SeqFacts, Zenon DEF TypeOK
<1>3. i[l] \in DOMAIN klasses /\ i[l] - 1 \in Nat
  BY <1>1, <1>2
<1>4. k \in Klasses
  BY <1>2, <1>3, SeqFacts, Zenon DEF TypeOK
<1>5. id[k] = i[l] - 1
  BY <1>3, Zenon DEF PlaceInv
<1>6. k \in known[l] /\ j[l] <= Len(Infos[k])
  BY <1>3, ZenonT(60) DEF LoopInv, Range
<1>7. Infos[k] \in Seq(1..BuffSize)
  BY <1>4, KlassRegistryAssumption, Zenon
<1>8. Len(Infos[k]) \in Nat /\ DOMAIN Infos[k] = 1..Len(Infos[k])
      /\ \A n \in 1..Len(Infos[k]) : Infos[k][n] \in 1..BuffSize
  BY <1>7, SeqFacts, Zenon
<1> HIDE DEF k
<1>9. j[l] \in DOMAIN Infos[k]
  BY <1>1, <1>6, <1>8
<1>10. Infos[k][j[l]] \in 1..BuffSize
  BY <1>8, <1>9, Zenon
<1>11. <<"info", k, id[k], j[l]>> \in Message
  BY <1>1, <1>3, <1>4, <1>5, Zenon DEF Message
<1>12. QED
  BY <1>1, <1>3, <1>4, <1>5, <1>6, <1>8, <1>9, <1>10, <1>11, Zenon DEF k, Info

\* An info event goes behind what the listener was told, whether or not the
\* buffer is handed over before.
LEMMA PushInfoTold ==
  ASSUME TypeOK, PlaceInv, LoopInv, NEW l \in Listeners, PushInfo(l)
  PROVE  /\ Told(l)' = Append(Told(l), Info(klasses[i[l]], j[l]))
         /\ \A o \in Listeners : o # l => Told(o)' = Told(o)
         /\ stream' \in [Listeners -> Seq(Message)]
         /\ data' \in [Listeners -> Seq(Message)]
         /\ \A o \in Listeners : at[o] # "push" => stream'[o] = stream[o] /\ data'[o] = data[o]
<1> DEFINE x == Info(klasses[i[l]], j[l])
           full == Full(l, Infos[klasses[i[l]]][j[l]])
<1>1. at[l] = "push" /\ i[l] <= Len(klasses)
  BY Zenon DEF PushInfo, Step
<1>2. x \in Message
  BY <1>1, LoopFacts, Zenon
<1>3. /\ stream' = IF full THEN [stream EXCEPT ![l] = stream[l] \o data[l]] ELSE stream
      /\ data' = [data EXCEPT ![l] = Append(IF full THEN << >> ELSE data[l], x)]
  BY Zenon DEF PushInfo, Step
<1> HIDE DEF x, full
<1>4. /\ stream \in [Listeners -> Seq(Message)] /\ data \in [Listeners -> Seq(Message)]
      /\ stream[l] \in Seq(Message) /\ data[l] \in Seq(Message)
  BY Zenon DEF TypeOK
<1>5. /\ stream[l] \o data[l] \in Seq(Message) /\ << >> \in Seq(Message)
      /\ Append(data[l], x) \in Seq(Message) /\ Append(<< >>, x) \in Seq(Message)
  BY <1>2, <1>4, CatFacts, AppendFacts, Zenon
<1>6. /\ stream[l] \o Append(data[l], x) = Append(stream[l] \o data[l], x)
      /\ (stream[l] \o data[l]) \o Append(<< >>, x) = Append(stream[l] \o data[l], x)
  BY <1>2, <1>4, CatAppend, SMT
<1>7. CASE full
  <2>1. /\ stream' = [stream EXCEPT ![l] = stream[l] \o data[l]]
        /\ data' = [data EXCEPT ![l] = Append(<< >>, x)]
    BY <1>3, <1>7, Zenon
  <2>2. QED BY <1>1, <2>1, <1>4, <1>5, <1>6, Zenon DEF Told, x
<1>8. CASE ~full
  <2>1. stream' = stream /\ data' = [data EXCEPT ![l] = Append(data[l], x)]
    BY <1>3, <1>8, Zenon
  <2>2. QED BY <1>1, <2>1, <1>4, <1>5, <1>6, Zenon DEF Told, x
<1>9. QED BY <1>7, <1>8, Zenon

\* The rest of the buffer is handed over.
LEMMA PushTailTold ==
  ASSUME TypeOK, NEW l \in Listeners, PushTail(l)
  PROVE  /\ \A o \in Listeners : Told(o)' = Told(o)
         /\ stream'[l] = Told(l) /\ data'[l] = << >>
         /\ stream' \in [Listeners -> Seq(Message)]
         /\ data' \in [Listeners -> Seq(Message)]
<1>1. /\ stream' = [stream EXCEPT ![l] = stream[l] \o data[l]]
      /\ data' = [data EXCEPT ![l] = << >>]
  BY Zenon DEF PushTail
<1>2. /\ stream \in [Listeners -> Seq(Message)] /\ data \in [Listeners -> Seq(Message)]
      /\ stream[l] \in Seq(Message) /\ data[l] \in Seq(Message)
  BY Zenon DEF TypeOK
<1>3. stream[l] \o data[l] \in Seq(Message)
  BY <1>2, CatFacts, Zenon
<1>4. << >> \in Seq(Message) /\ (stream[l] \o data[l]) \o << >> = stream[l] \o data[l]
  BY <1>3, CatEmpty, Zenon
<1>5. QED BY <1>1, <1>2, <1>3, <1>4, Zenon DEF Told

\* An event of a klass goes behind what the attached listeners were told.
LEMMA DeliverTold ==
  ASSUME TypeOK, LoopInv, NEW k \in Klasses, Deliver(k)
  PROVE  /\ id[k] \in Nat /\ Event(k) \in Message
         /\ stream' \in [Listeners -> Seq(Message)]
         /\ \A l \in Listeners :
              /\ Told(l)' = IF at[l] = "attached" THEN Append(Told(l), Event(k)) ELSE Told(l)
              /\ stream'[l] = IF at[l] = "attached" THEN Append(stream[l], Event(k))
                                                    ELSE stream[l]
         /\ UNCHANGED <<inits, boot, up, klasses, id, pc, adding, mtx, at, i, j, data, pos, known>>
<1>1. id[k] \in Nat
  BY Zenon DEF Deliver, TypeOK
<1>2. Event(k) \in Message
  <2>1. 0 \in Nat
    OBVIOUS
  <2>2. QED BY <1>1, <2>1, Zenon DEF Event, Message
<1>3. /\ stream' = [l \in Listeners |->
                      IF at[l] = "attached" THEN Append(stream[l], Event(k)) ELSE stream[l]]
      /\ UNCHANGED <<inits, boot, up, klasses, id, pc, adding, mtx, at, i, j, data, pos, known>>
  BY Zenon DEF Deliver, library, threads, pushing
<1>4. ASSUME NEW l \in Listeners
      PROVE  /\ stream[l] \in Seq(Message) /\ data[l] \in Seq(Message)
             /\ Append(stream[l], Event(k)) \in Seq(Message)
             /\ stream'[l] = IF at[l] = "attached" THEN Append(stream[l], Event(k))
                                                   ELSE stream[l]
  BY <1>2, <1>3, AppendFacts, Zenon DEF TypeOK
<1>5. stream' \in [Listeners -> Seq(Message)]
  BY <1>3, <1>4, Zenon
<1>6. ASSUME NEW l \in Listeners
      PROVE  Told(l)' = IF at[l] = "attached" THEN Append(Told(l), Event(k)) ELSE Told(l)
  <2>1. CASE at[l] = "attached"
    <3>1. data[l] = << >>
      BY <2>1, Zenon DEF LoopInv
    <3>2. /\ stream[l] \o << >> = stream[l]
          /\ Append(stream[l], Event(k)) \o << >> = Append(stream[l], Event(k))
      BY <1>4, CatEmpty, Zenon
    <3>3. QED BY <1>3, <1>4, <2>1, <3>1, <3>2, Zenon DEF Told
  <2>2. CASE at[l] # "attached"
    BY <1>3, <1>4, <2>2, Zenon DEF Told
  <2>3. QED BY <2>1, <2>2, Zenon
<1>7. QED BY <1>1, <1>2, <1>3, <1>4, <1>5, <1>6, Zenon

-----------------------------------------------------------------------------
(***************************************************************************)
(* Every step keeps the invariant, one conjunct after the other.           *)
(***************************************************************************)

\* A listener that is told the klasses leaves the register alone.
LEMMA TellingFrame ==
  ASSUME NEW l \in Listeners, PushBegin(l) \/ PushInfo(l) \/ PushEnd(l) \/ PushTail(l)
  PROVE  UNCHANGED <<inits, boot, up, klasses, id, pc, adding>>
BY Zenon DEF PushBegin, PushInfo, Step, PushEnd, PushTail, library, threads

\* The steps of the system.
LEMMA StepCases ==
  ASSUME [Next]_vars
  PROVE  \/ Registration
         \/ \E l \in Listeners : PushBegin(l)
         \/ \E l \in Listeners : PushInfo(l)
         \/ \E l \in Listeners : PushEnd(l)
         \/ \E l \in Listeners : PushTail(l)
         \/ \E k \in Klasses : Deliver(k)
BY Zenon DEF Next, Registration

\* The register gets a klass at its end.
LEMMA EnterFacts ==
  ASSUME TypeOK, NEW k \in Klasses, Enter(k)
  PROVE  /\ klasses' \in Seq(Klasses) /\ Len(klasses') = Len(klasses) + 1
         /\ Len(klasses) \in Nat
         /\ DOMAIN klasses = 1..Len(klasses) /\ DOMAIN klasses' = 1..(Len(klasses) + 1)
         /\ \A n \in 1..Len(klasses) : klasses'[n] = klasses[n]
         /\ klasses'[Len(klasses) + 1] = k
         /\ id' \in [Klasses -> Nat \cup {Invalid}]
         /\ id'[k] = Len(klasses)
         /\ \A c \in Klasses : c # k => id'[c] = id[c]
<1>1. klasses \in Seq(Klasses) /\ klasses' = Append(klasses, k)
  BY Zenon DEF TypeOK, Enter
<1>2. /\ klasses' \in Seq(Klasses) /\ Len(klasses') = Len(klasses) + 1
      /\ \A n \in 1..Len(klasses) : klasses'[n] = klasses[n]
      /\ klasses'[Len(klasses) + 1] = k
  BY <1>1, AppendFacts, SMT
<1>3. /\ DOMAIN klasses = 1..Len(klasses) /\ DOMAIN klasses' = 1..(Len(klasses) + 1)
      /\ Len(klasses) \in Nat
  BY <1>1, <1>2, SeqFacts, Zenon
<1>4. /\ id' \in [Klasses -> Nat \cup {Invalid}] /\ id'[k] = Len(klasses)
      /\ \A c \in Klasses : c # k => id'[c] = id[c]
  BY <1>3, Zenon DEF TypeOK, Enter
<1>5. QED BY <1>2, <1>3, <1>4, Zenon

\* The variables of the registration keep their types.
LEMMA RegistrationType ==
  ASSUME TypeOK, ThreadInv, Registration
  PROVE  TypeOK'
<1>f. UNCHANGED <<mtx, at, i, j, data, pos, known, stream>>
  BY RegistrationFrame, Zenon
<1> DEFINE R == /\ inits \in Nat /\ boot \in 0..(Len(Core) + 1) /\ up \in BOOLEAN
                /\ klasses \in Seq(Klasses)
                /\ id \in [Klasses -> Nat \cup {Invalid}]
                /\ pc \in [Threads -> {"idle", "add"}]
                /\ adding \in [Threads -> Klasses \cup {NoKlass}]
<1>r. R
  BY Zenon DEF TypeOK
<1>e. << >> \in Seq(Klasses) /\ 0 \in 0..(Len(Core) + 1) /\ 1 \in 0..(Len(Core) + 1)
  BY CoreFacts
<1>1. CASE HtInit
  <2>1. inits' \in Nat
    BY <1>1, <1>r DEF HtInit
  <2>2. QED BY <1>f, <1>r, <1>e, <1>1, <2>1, Zenon DEF HtInit, threads, TypeOK
<1>2. CASE InitKlass
  <2>1. boot \in DOMAIN Core /\ boot' = boot + 1 /\ UNCHANGED <<inits, up, pc, adding>>
    BY <1>2, Zenon DEF InitKlass, threads
  <2>2. boot' \in 0..(Len(Core) + 1)
    BY <2>1, CoreFacts
  <2>3. klasses' \in Seq(Klasses) /\ id' \in [Klasses -> Nat \cup {Invalid}]
    BY <1>2, <1>r, <2>1, CoreFacts, EnterFacts, Zenon DEF InitKlass
  <2>4. QED BY <1>f, <1>r, <2>1, <2>2, <2>3, Zenon DEF TypeOK
<1>3. CASE InitDone
  BY <1>f, <1>r, <1>e, <1>3, Zenon DEF InitDone, threads, TypeOK
<1>4. CASE HtDeinit
  BY <1>f, <1>r, <1>e, <1>4, Zenon DEF HtDeinit, threads, TypeOK
<1>5. ASSUME NEW t \in Threads, Add(t) \/ AddFails(t)
      PROVE  TypeOK'
  <2>1. AddEnds(t)
    BY <1>5, Zenon DEF Add, AddFails
  <2>2. adding[t] \in Klasses
    BY <2>1, AddFacts, Zenon
  <2>3. klasses' \in Seq(Klasses) /\ id' \in [Klasses -> Nat \cup {Invalid}]
    BY <1>5, <1>r, <2>2, EnterFacts, Zenon DEF Add, AddFails
  <2>4. /\ UNCHANGED <<inits, boot, up>>
        /\ pc' \in [Threads -> {"idle", "add"}]
        /\ adding' \in [Threads -> Klasses \cup {NoKlass}]
    BY <1>r, <2>1, Zenon DEF AddEnds, library
  <2>5. QED BY <1>f, <1>r, <2>3, <2>4, Zenon DEF TypeOK
<1>6. ASSUME NEW t \in Threads, NEW k \in User, Register(t, k)
      PROVE  TypeOK'
  <2>1. k \in Klasses
    BY Zenon DEF Klasses
  <2>2. /\ UNCHANGED <<inits, boot, up, klasses, id>>
        /\ pc' \in [Threads -> {"idle", "add"}]
        /\ adding' \in [Threads -> Klasses \cup {NoKlass}]
    BY <1>r, <1>6, <2>1, Zenon DEF Register, library
  <2>3. QED BY <1>f, <1>r, <2>2, Zenon DEF TypeOK
<1>7. CASE UNCHANGED vars
  BY <1>f, <1>r, <1>7, Zenon DEF vars, TypeOK
<1>8. QED BY <1>1, <1>2, <1>3, <1>4, <1>5, <1>6, <1>7, Zenon DEF Registration

\* The place of the loop and of the next event in the buffer: the buffer never
\* overflows, for an event that does not fit goes into the emptied buffer.
LEMMA PushInfoPlace ==
  ASSUME TypeOK, PlaceInv, LoopInv, BufferFits, NEW l \in Listeners, PushInfo(l)
  PROVE  /\ pos' \in [Listeners -> Nat] /\ \A o \in Listeners : pos'[o] <= BuffSize
         /\ i' \in [Listeners -> Nat \ {0}] /\ j' \in [Listeners -> Nat \ {0}]
<1> DEFINE size == Infos[klasses[i[l]]][j[l]]
           full == Full(l, size)
           last == j[l] = Len(Infos[klasses[i[l]]])
<1>1. at[l] = "push" /\ i[l] <= Len(klasses)
  BY Zenon DEF PushInfo, Step
<1>2. size \in 1..BuffSize /\ i[l] \in Nat /\ j[l] \in Nat
  BY <1>1, LoopFacts, Zenon
<1>3. /\ pos' = [pos EXCEPT ![l] = IF full THEN size ELSE pos[l] + size]
      /\ i' = IF last THEN [i EXCEPT ![l] = i[l] + 1] ELSE i
      /\ j' = [j EXCEPT ![l] = IF last THEN 1 ELSE j[l] + 1]
  BY Zenon DEF PushInfo, Step
<1>4. BuffSize \in Nat
  BY KlassRegistryAssumption, Zenon
<1>5. /\ pos \in [Listeners -> Nat] /\ pos[l] \in Nat /\ pos[l] <= BuffSize
      /\ \A o \in Listeners : pos[o] <= BuffSize
      /\ i \in [Listeners -> Nat \ {0}] /\ j \in [Listeners -> Nat \ {0}]
  BY Zenon DEF TypeOK, BufferFits
<1>6. full <=> size > BuffSize - pos[l]
  BY Zenon DEF Full
<1> HIDE DEF size, full, last
<1>7. (IF full THEN size ELSE pos[l] + size) \in Nat
      /\ (IF full THEN size ELSE pos[l] + size) <= BuffSize
  <2>1. CASE full
    BY <1>2, <2>1
  <2>2. CASE ~full
    BY <1>2, <1>4, <1>5, <1>6, <2>2
  <2>3. QED BY <2>1, <2>2, Zenon
<1>8. i[l] + 1 \in Nat \ {0} /\ (IF last THEN 1 ELSE j[l] + 1) \in Nat \ {0}
  BY <1>2
<1>9. QED BY <1>3, <1>5, <1>7, <1>8, Zenon

LEMMA TypeStep ==
  ASSUME IInv, [Next]_vars
  PROVE  TypeOK' /\ BufferFits'
<1>t. TypeOK /\ ThreadInv /\ PlaceInv /\ LoopInv /\ BufferFits
  BY Zenon DEF IInv
<1>1. CASE Registration
  <2>1. pos' = pos
    BY <1>1, <1>t, RegistrationFrame, Zenon
  <2>2. QED BY <1>1, <1>t, <2>1, RegistrationType, Zenon DEF BufferFits
<1>2. ASSUME NEW l \in Listeners, PushBegin(l)
      PROVE  TypeOK' /\ BufferFits'
  <2>1. Range(klasses) \subseteq Klasses
    <3>1. klasses \in Seq(Klasses)
      BY <1>t, Zenon DEF TypeOK
    <3>2. \A n \in DOMAIN klasses : klasses[n] \in Klasses
      BY <3>1, SeqFacts, Zenon
    <3>3. QED BY <3>2, Zenon DEF Range
  <2>2. QED BY <1>2, <1>t, <2>1, TellingFrame, Zenon DEF PushBegin, TypeOK, BufferFits
<1>3. ASSUME NEW l \in Listeners, PushInfo(l)
      PROVE  TypeOK' /\ BufferFits'
  <2>1. UNCHANGED <<mtx, at, known>>
    BY <1>3, Zenon DEF PushInfo, Step
  <2>2. UNCHANGED <<inits, boot, up, klasses, id, pc, adding>>
    BY <1>3, TellingFrame, Zenon
  <2>3. /\ pos' \in [Listeners -> Nat] /\ \A o \in Listeners : pos'[o] <= BuffSize
        /\ i' \in [Listeners -> Nat \ {0}] /\ j' \in [Listeners -> Nat \ {0}]
    BY <1>3, <1>t, PushInfoPlace, Zenon
  <2>4. stream' \in [Listeners -> Seq(Message)] /\ data' \in [Listeners -> Seq(Message)]
    BY <1>3, <1>t, PushInfoTold, Zenon
  <2>5. QED BY <1>t, <2>1, <2>2, <2>3, <2>4, Zenon DEF TypeOK, BufferFits
<1>4. ASSUME NEW l \in Listeners, PushEnd(l)
      PROVE  TypeOK' /\ BufferFits'
  BY <1>4, <1>t, TellingFrame, Zenon DEF PushEnd, TypeOK, BufferFits
<1>5. ASSUME NEW l \in Listeners, PushTail(l)
      PROVE  TypeOK' /\ BufferFits'
  <2>1. stream' \in [Listeners -> Seq(Message)] /\ data' \in [Listeners -> Seq(Message)]
    BY <1>5, <1>t, PushTailTold, Zenon
  <2>2. QED BY <1>5, <1>t, <2>1, TellingFrame, Zenon DEF PushTail, TypeOK, BufferFits
<1>6. ASSUME NEW k \in Klasses, Deliver(k)
      PROVE  TypeOK' /\ BufferFits'
  BY <1>6, <1>t, DeliverTold, Zenon DEF TypeOK, BufferFits
<1>7. QED BY <1>1, <1>2, <1>3, <1>4, <1>5, <1>6, StepCases, Zenon

\* A klass that is being registered is registered by one thread, and no other
\* step gives it an id.
LEMMA ThreadStep ==
  ASSUME OneByOne, IInv, [Next]_vars
  PROVE  ThreadInv'
<1>t. TypeOK /\ ThreadInv
  BY Zenon DEF IInv
<1>k. NoKlass \notin Klasses /\ Nobody \notin Listeners
  BY KlassRegistryAssumption, Zenon
<1>1. CASE HtInit
  <2>1. ~up' /\ Quiet /\ UNCHANGED <<id, pc, adding, at, mtx>>
    BY <1>1, Zenon DEF HtInit, threads, pushing
  <2>2. QED BY <1>t, <2>1, Zenon DEF ThreadInv, Quiet
<1>2. CASE InitKlass
  <2>1. boot \in DOMAIN Core /\ UNCHANGED <<up, pc, adding, at, mtx>>
    BY <1>2, Zenon DEF InitKlass, threads, pushing
  <2>2. boot # 0
    BY <2>1, CoreFacts
  <2>3. ~up /\ Quiet
    BY <1>t, <2>2, BootFacts, Zenon
  <2>4. QED BY <1>t, <2>1, <2>3, Zenon DEF ThreadInv, Quiet
<1>3. CASE InitDone
  BY <1>3, <1>t, Zenon DEF InitDone, threads, pushing, ThreadInv
<1>4. CASE HtDeinit
  BY <1>4, <1>t, Zenon DEF HtDeinit, threads, pushing, ThreadInv, Quiet
<1>5. ASSUME NEW t \in Threads, Add(t) \/ AddFails(t)
      PROVE  ThreadInv'
  <2>1. AddEnds(t)
    BY <1>5, Zenon DEF Add, AddFails
  <2>2. adding[t] \in Klasses /\ up
    BY <1>t, <2>1, AddFacts, Zenon
  <2>3. /\ UNCHANGED <<boot, up, at, mtx>>
        /\ pc' = [pc EXCEPT ![t] = "idle"] /\ adding' = [adding EXCEPT ![t] = NoKlass]
    BY <2>1, Zenon DEF AddEnds, library, pushing
  <2>4. \A c \in Klasses : c # adding[t] => id'[c] = id[c]
    BY <1>t, <1>5, <2>2, EnterFacts, Zenon DEF Add, AddFails
  <2>5. ASSUME NEW u \in Threads
        PROVE  IF pc'[u] = "idle"
               THEN adding'[u] = NoKlass
               ELSE adding'[u] \in Klasses /\ id'[adding'[u]] = Invalid
    BY <1>t, <1>k, <2>2, <2>3, <2>4, ZenonT(60) DEF ThreadInv, TypeOK
  <2>6. \A u, v \in Threads : adding'[u] = adding'[v] /\ adding'[u] # NoKlass => u = v
    BY <1>t, <2>3, Zenon DEF ThreadInv, TypeOK
  <2>7. QED BY <1>t, <2>2, <2>3, <2>5, <2>6, Zenon DEF ThreadInv
<1>6. ASSUME NEW t \in Threads, NEW k \in User, Register(t, k)
      PROVE  ThreadInv'
  <2>1. /\ up /\ id[k] = Invalid /\ \A u \in Threads : adding[u] # k
        /\ UNCHANGED <<boot, up, id, at, mtx>>
        /\ pc' = [pc EXCEPT ![t] = "add"] /\ adding' = [adding EXCEPT ![t] = k]
    BY <1>6, Zenon DEF Register, MayRegister, library, pushing
  <2>2. k \in Klasses
    BY Zenon DEF Klasses
  <2>3. ASSUME NEW u \in Threads
        PROVE  IF pc'[u] = "idle"
               THEN adding'[u] = NoKlass
               ELSE adding'[u] \in Klasses /\ id'[adding'[u]] = Invalid
    BY <1>t, <2>1, <2>2, Zenon DEF ThreadInv, TypeOK
  <2>4. \A u, v \in Threads : adding'[u] = adding'[v] /\ adding'[u] # NoKlass => u = v
    BY <1>t, <2>1, Zenon DEF ThreadInv, TypeOK
  <2>5. QED BY <1>t, <2>1, <2>3, <2>4, Zenon DEF ThreadInv
<1>7. CASE UNCHANGED vars
  BY <1>7, <1>t, Zenon DEF vars, ThreadInv, Quiet
<1>8. ASSUME NEW l \in Listeners, PushBegin(l)
      PROVE  ThreadInv'
  <2>1. /\ up /\ mtx = Nobody /\ at' = [at EXCEPT ![l] = "push"] /\ mtx' = l
        /\ UNCHANGED <<boot, up, id, pc, adding>>
    BY <1>8, TellingFrame, Zenon DEF PushBegin
  <2>2. \A o \in Listeners : at'[o] = "push" <=> mtx' = o
    BY <1>t, <1>k, <2>1, Zenon DEF ThreadInv, TypeOK
  <2>3. QED BY <1>t, <2>1, <2>2, Zenon DEF ThreadInv
<1>9. ASSUME NEW l \in Listeners, PushInfo(l)
      PROVE  ThreadInv'
  <2>1. UNCHANGED <<at, mtx, boot, up, id, pc, adding>>
    BY <1>9, TellingFrame, Zenon DEF PushInfo, Step
  <2>2. QED BY <1>t, <2>1, Zenon DEF ThreadInv, Quiet
<1>10. ASSUME NEW l \in Listeners, PushEnd(l)
       PROVE  ThreadInv'
  <2>1. /\ at[l] = "push" /\ at' = [at EXCEPT ![l] = "tail"] /\ mtx' = Nobody
        /\ UNCHANGED <<boot, up, id, pc, adding>>
    BY <1>10, TellingFrame, Zenon DEF PushEnd
  <2>2. up /\ mtx = l
    BY <1>t, <2>1, QuietFacts, Zenon DEF ThreadInv
  <2>3. \A o \in Listeners : at'[o] = "push" <=> mtx' = o
    BY <1>t, <1>k, <2>1, <2>2, Zenon DEF ThreadInv, TypeOK
  <2>4. QED BY <1>t, <2>1, <2>2, <2>3, Zenon DEF ThreadInv
<1>11. ASSUME NEW l \in Listeners, PushTail(l)
       PROVE  ThreadInv'
  <2>1. /\ at[l] = "tail" /\ at' = [at EXCEPT ![l] = "attached"] /\ mtx' = mtx
        /\ UNCHANGED <<boot, up, id, pc, adding>>
    BY <1>11, TellingFrame, Zenon DEF PushTail
  <2>2. up /\ mtx # l
    BY <1>t, <2>1, QuietFacts, Zenon DEF ThreadInv
  <2>3. \A o \in Listeners : at'[o] = "push" <=> mtx' = o
    BY <1>t, <2>1, <2>2, Zenon DEF ThreadInv, TypeOK
  <2>4. QED BY <1>t, <2>1, <2>2, <2>3, Zenon DEF ThreadInv
<1>12. ASSUME NEW k \in Klasses, Deliver(k)
       PROVE  ThreadInv'
  <2>1. UNCHANGED <<at, mtx, boot, up, id, pc, adding>>
    BY <1>12, Zenon DEF Deliver, library, threads, pushing
  <2>2. QED BY <1>t, <2>1, Zenon DEF ThreadInv, Quiet
<1>13. QED
  BY <1>1, <1>2, <1>3, <1>4, <1>5, <1>6, <1>7, <1>8, <1>9, <1>10, <1>11, <1>12,
     StepCases, Zenon DEF Registration

\* A klass that enters the register at its end gets the place as its id.
LEMMA EnterPlace ==
  ASSUME TypeOK, PlaceInv, NEW k \in Klasses, id[k] = Invalid, Enter(k)
  PROVE  PlaceInv'
<1>1. /\ Len(klasses) \in Nat
      /\ DOMAIN klasses = 1..Len(klasses) /\ DOMAIN klasses' = 1..(Len(klasses) + 1)
      /\ \A n \in 1..Len(klasses) : klasses'[n] = klasses[n]
      /\ klasses'[Len(klasses) + 1] = k /\ id'[k] = Len(klasses)
      /\ \A c \in Klasses : c # k => id'[c] = id[c]
  BY EnterFacts, Zenon
<1>2. Invalid \notin Nat
  BY KlassRegistryAssumption, Zenon
<1>3. ASSUME NEW n \in DOMAIN klasses' PROVE id'[klasses'[n]] = n - 1
  <2>1. CASE n \in 1..Len(klasses)
    <3>1. klasses[n] \in Klasses /\ id[klasses[n]] = n - 1 /\ klasses'[n] = klasses[n]
      BY <1>1, <2>1, SeqFacts, Zenon DEF TypeOK, PlaceInv
    <3>2. n - 1 \in Nat
      BY <2>1
    <3>3. klasses[n] # k
      BY <1>2, <3>1, <3>2, Zenon
    <3>4. QED BY <1>1, <3>1, <3>3, Zenon
  <2>2. CASE n \notin 1..Len(klasses)
    <3>1. n = Len(klasses) + 1 /\ n - 1 = Len(klasses)
      BY <1>1, <2>2, <1>3
    <3>2. QED BY <1>1, <3>1, Zenon
  <2>3. QED BY <2>1, <2>2, Zenon
<1>4. QED BY <1>3, Zenon DEF PlaceInv

LEMMA PlaceStep ==
  ASSUME IInv, [Next]_vars
  PROVE  PlaceInv'
<1>t. TypeOK /\ ThreadInv /\ PlaceInv /\ LoopInv
  BY Zenon DEF IInv
<1>e. DOMAIN << >> = {}
  OBVIOUS
<1>1. CASE HtInit \/ HtDeinit
  <2>1. klasses' = << >>
    BY <1>1, Zenon DEF HtInit, HtDeinit
  <2>2. QED BY <2>1, <1>e, Zenon DEF PlaceInv
<1>2. CASE InitKlass
  BY <1>2, <1>t, CoreFacts, EnterPlace, Zenon DEF InitKlass, PlaceInv
<1>3. CASE InitDone
  BY <1>3, <1>t, Zenon DEF InitDone, PlaceInv
<1>4. ASSUME NEW t \in Threads, Add(t)
      PROVE  PlaceInv'
  <2>1. AddEnds(t) /\ Enter(adding[t])
    BY <1>4, Zenon DEF Add
  <2>2. QED BY <1>t, <2>1, AddFacts, EnterPlace, Zenon
<1>5. ASSUME UNCHANGED <<klasses, id>>
      PROVE  PlaceInv'
  BY <1>5, <1>t, Zenon DEF PlaceInv
<1>6. ASSUME NEW t \in Threads, AddFails(t) \/ \E k \in User : Register(t, k)
      PROVE  UNCHANGED <<klasses, id>>
  BY <1>6, Zenon DEF AddFails, Register
<1>7. CASE UNCHANGED vars
  BY <1>7, <1>5, Zenon DEF vars
<1>8. CASE Registration
  BY <1>8, <1>1, <1>2, <1>3, <1>4, <1>5, <1>6, <1>7, Zenon DEF Registration
<1>9. ASSUME NEW l \in Listeners, PushBegin(l) \/ PushInfo(l) \/ PushEnd(l) \/ PushTail(l)
      PROVE  PlaceInv'
  BY <1>9, <1>5, TellingFrame, Zenon
<1>10. ASSUME NEW k \in Klasses, Deliver(k)
       PROVE  PlaceInv'
  BY <1>10, <1>t, <1>5, DeliverTold, Zenon
<1>11. QED BY <1>8, <1>9, <1>10, StepCases, Zenon

\* With a single call of ht_init the register loses no klass that has an id.
LEMMA OnceStep ==
  ASSUME MaxInits = 1, IInv, OnceInv, [Next]_vars
  PROVE  OnceInv'
<1>t. TypeOK /\ ThreadInv /\ LoopInv /\ OnceInv
  BY Zenon DEF IInv
<1> DEFINE Placed(k) == id[k] + 1 \in DOMAIN klasses /\ klasses[id[k] + 1] = k
<1>e. ASSUME NEW c \in Klasses, Enter(c), inits # 0, UNCHANGED inits, up \/ boot # 0
      PROVE  OnceInv'
  <2>1. /\ Len(klasses) \in Nat
        /\ DOMAIN klasses = 1..Len(klasses) /\ DOMAIN klasses' = 1..(Len(klasses) + 1)
        /\ \A n \in 1..Len(klasses) : klasses'[n] = klasses[n]
        /\ klasses'[Len(klasses) + 1] = c /\ id'[c] = Len(klasses)
        /\ \A k \in Klasses : k # c => id'[k] = id[k]
    BY <1>t, <1>e, EnterFacts, Zenon
  <2>2. Len(klasses) + 1 \in DOMAIN klasses' /\ DOMAIN klasses \subseteq DOMAIN klasses'
    BY <2>1
  <2>3. ASSUME NEW k \in Klasses, id'[k] # Invalid PROVE Placed(k)'
    <3>1. CASE k = c
      BY <2>1, <2>2, <3>1, Zenon
    <3>2. CASE k # c
      BY <1>t, <1>e, <2>1, <2>2, <2>3, <3>2, Zenon DEF OnceInv
    <3>3. QED BY <3>1, <3>2, Zenon
  <2>4. QED BY <1>e, <2>3, Zenon DEF OnceInv
<1>u. ASSUME UNCHANGED <<klasses, id, inits>>,
             up' \/ boot' # 0 => up \/ boot # 0
      PROVE  OnceInv'
  BY <1>t, <1>u, Zenon DEF OnceInv
<1>1. CASE HtInit
  <2>1. inits < 1 /\ inits \in Nat /\ inits' = inits + 1 /\ UNCHANGED id
    BY <1>1, <1>t, Zenon DEF HtInit, TypeOK
  <2>2. inits = 0 /\ inits' # 0
    BY <2>1
  <2>3. QED BY <1>t, <2>1, <2>2, Zenon DEF OnceInv
<1>2. CASE InitKlass
  <2>1. boot \in DOMAIN Core /\ boot' = boot + 1 /\ UNCHANGED <<inits, up>>
    BY <1>2, Zenon DEF InitKlass
  <2>2. boot # 0 /\ boot' # 0 /\ Core[boot] \in Klasses
    BY <2>1, CoreFacts
  <2>3. inits # 0
    BY <1>t, <2>2, Zenon DEF OnceInv
  <2>4. CASE Enter(Core[boot])
    BY <1>e, <2>1, <2>2, <2>3, <2>4, Zenon
  <2>5. CASE UNCHANGED <<klasses, id>>
    BY <1>u, <2>1, <2>2, <2>5, Zenon
  <2>6. QED BY <1>2, <2>4, <2>5, Zenon DEF InitKlass
<1>3. CASE InitDone
  <2>1. boot = Len(Core) + 1 /\ UNCHANGED <<klasses, id, inits>>
    BY <1>3, Zenon DEF InitDone
  <2>2. boot # 0
    BY <2>1, CoreFacts
  <2>3. QED BY <1>u, <2>1, <2>2, Zenon
<1>4. CASE HtDeinit
  <2>1. up /\ ~up' /\ boot' = boot /\ UNCHANGED <<id, inits>>
    BY <1>4, Zenon DEF HtDeinit
  <2>2. QED BY <1>t, <2>1, Zenon DEF OnceInv, ThreadInv
<1>5. ASSUME NEW t \in Threads, Add(t)
      PROVE  OnceInv'
  <2>1. AddEnds(t) /\ Enter(adding[t]) /\ UNCHANGED <<inits, boot, up>>
    BY <1>5, Zenon DEF Add, AddEnds, library
  <2>2. adding[t] \in Klasses /\ up
    BY <1>t, <2>1, AddFacts, Zenon
  <2>3. inits # 0
    BY <1>t, <2>2, Zenon DEF OnceInv
  <2>4. QED BY <1>e, <2>1, <2>2, <2>3, Zenon
<1>6. ASSUME NEW t \in Threads, AddFails(t) \/ \E k \in User : Register(t, k)
      PROVE  OnceInv'
  <2>1. UNCHANGED <<klasses, id, inits, boot, up>>
    BY <1>6, Zenon DEF AddFails, AddEnds, Register, library
  <2>2. QED BY <1>u, <2>1, Zenon
<1>7. CASE UNCHANGED vars
  <2>1. UNCHANGED <<klasses, id, inits, boot, up>>
    BY <1>7, Zenon DEF vars
  <2>2. QED BY <1>u, <2>1, Zenon
<1>8. CASE Registration
  BY <1>8, <1>1, <1>2, <1>3, <1>4, <1>5, <1>6, <1>7, Zenon DEF Registration
<1>9. ASSUME NEW l \in Listeners, PushBegin(l) \/ PushInfo(l) \/ PushEnd(l) \/ PushTail(l)
      PROVE  OnceInv'
  <2>1. UNCHANGED <<klasses, id, inits, boot, up>>
    BY <1>9, TellingFrame, Zenon
  <2>2. QED BY <1>u, <2>1, Zenon
<1>10. ASSUME NEW k \in Klasses, Deliver(k)
       PROVE  OnceInv'
  <2>1. UNCHANGED <<klasses, id, inits, boot, up>>
    BY <1>10, <1>t, DeliverTold, Zenon
  <2>2. QED BY <1>u, <2>1, Zenon
<1>11. QED BY <1>8, <1>9, <1>10, StepCases, Zenon

\* Ids are kept, so what a listener was told of a klass stays true.
LEMMA IdKept ==
  ASSUME IInv, [Next]_vars
  PROVE  \A k \in Klasses : id[k] # Invalid => id'[k] = id[k]
<1>t. TypeOK /\ ThreadInv /\ LoopInv
  BY Zenon DEF IInv
<1>1. CASE Registration
  BY <1>1, <1>t, RegistrationFrame, Zenon
<1>2. ASSUME NEW l \in Listeners, PushBegin(l) \/ PushInfo(l) \/ PushEnd(l) \/ PushTail(l)
      PROVE  id' = id
  BY <1>2, TellingFrame, Zenon
<1>3. ASSUME NEW k \in Klasses, Deliver(k)
      PROVE  id' = id
  BY <1>3, <1>t, DeliverTold, Zenon
<1>4. QED BY <1>1, <1>2, <1>3, StepCases, Zenon

\* The loop goes to the next info event of the klass or to the next klass.
LEMMA PushInfoGoesOn ==
  ASSUME TypeOK, PlaceInv, LoopInv, NEW l \in Listeners, PushInfo(l)
  PROVE  LET k == klasses[i[l]]
         IN  /\ \/ j[l] = Len(Infos[k]) /\ i'[l] = i[l] + 1 /\ j'[l] = 1
                \/ j[l] < Len(Infos[k]) /\ i'[l] = i[l] /\ j'[l] = j[l] + 1
             /\ \A o \in Listeners : o # l => i'[o] = i[o] /\ j'[o] = j[o]
             /\ UNCHANGED <<at, known, klasses, id>>
             /\ at[l] = "push" /\ i[l] <= Len(klasses)
<1> DEFINE k == klasses[i[l]]
           last == j[l] = Len(Infos[k])
<1>1. at[l] = "push" /\ i[l] <= Len(klasses) /\ UNCHANGED <<at, known, klasses, id>>
  BY Zenon DEF PushInfo, Step
<1>2. j[l] \in DOMAIN Infos[k] /\ Len(Infos[k]) \in Nat /\ k \in Klasses
  BY <1>1, LoopFacts, Zenon
<1>3. DOMAIN Infos[k] = 1..Len(Infos[k])
  BY <1>2, SeqFacts, KlassRegistryAssumption, Zenon
<1>4. /\ i' = IF last THEN [i EXCEPT ![l] = i[l] + 1] ELSE i
      /\ j' = [j EXCEPT ![l] = IF last THEN 1 ELSE j[l] + 1]
      /\ i \in [Listeners -> Nat \ {0}] /\ j \in [Listeners -> Nat \ {0}]
  BY Zenon DEF PushInfo, Step, TypeOK
<1> HIDE DEF k
<1>5. ~last => j[l] < Len(Infos[k])
  BY <1>2, <1>3
<1>6. \/ j[l] = Len(Infos[k]) /\ i'[l] = i[l] + 1 /\ j'[l] = 1
      \/ j[l] < Len(Infos[k]) /\ i'[l] = i[l] /\ j'[l] = j[l] + 1
  BY <1>4, <1>5, Zenon
<1>7. \A o \in Listeners : o # l => i'[o] = i[o] /\ j'[o] = j[o]
  BY <1>4, Zenon
<1>8. QED BY <1>1, <1>6, <1>7, Zenon DEF k

\* What LoopInv says of one listener.
LoopOf(l) ==
  /\ at[l] = "new" => stream[l] = << >> /\ known[l] = {} /\ i[l] = 1 /\ j[l] = 1
  /\ at[l] \in {"new", "attached"} => data[l] = << >>
  /\ at[l] = "push" =>
       /\ known[l] = Range(klasses)
       /\ i[l] <= Len(klasses) + 1
       /\ i[l] <= Len(klasses) => j[l] <= Len(Infos[klasses[i[l]]])
  /\ \A k \in known[l] : id[k] # Invalid

\* A description has at least one event.
LEMMA InfosNonempty ==
  ASSUME NEW k \in Klasses
  PROVE  Len(Infos[k]) \in Nat /\ Len(Infos[k]) >= 1 /\ DOMAIN Infos[k] = 1..Len(Infos[k])
<1>1. Infos[k] \in Seq(1..BuffSize) /\ Infos[k] # << >>
  BY KlassRegistryAssumption, Zenon
<1>2. QED BY <1>1

LEMMA LoopStep ==
  ASSUME IInv, [Next]_vars
  PROVE  LoopInv'
<1>t. TypeOK /\ ThreadInv /\ PlaceInv /\ LoopInv
  BY Zenon DEF IInv
<1>d. LoopInv <=> \A l \in Listeners : LoopOf(l)
  BY Zenon DEF LoopInv, LoopOf
<1>i. \A k \in Klasses : id[k] # Invalid => id'[k] = id[k]
  BY IdKept, Zenon
<1>v. \A l \in Listeners : \A k \in known[l] : k \in Klasses /\ id'[k] # Invalid
  BY <1>t, <1>i, Zenon DEF LoopInv, TypeOK
<1>k. \A l \in Listeners : at[l] \in {"new", "push", "tail", "attached"}
  BY <1>t, Zenon DEF TypeOK
<1>1. CASE Registration
  <2>1. /\ UNCHANGED <<at, i, j, data, known, stream>>
        /\ UNCHANGED klasses \/ \A l \in Listeners : at[l] # "push"
    BY <1>1, <1>t, RegistrationFrame, Zenon
  <2>2. CASE UNCHANGED klasses
    BY <1>t, <1>v, <2>1, <2>2, Zenon DEF LoopInv
  <2>3. CASE \A l \in Listeners : at[l] # "push"
    BY <1>t, <1>v, <2>1, <2>3, Zenon DEF LoopInv
  <2>4. QED BY <2>1, <2>2, <2>3, Zenon
<1>o. ASSUME NEW l \in Listeners, UNCHANGED <<klasses, id>>, at'[l] = at[l], i'[l] = i[l],
             j'[l] = j[l], data'[l] = data[l], stream'[l] = stream[l], known'[l] = known[l]
      PROVE  LoopOf(l)'
  BY <1>t, <1>o, Zenon DEF LoopInv, LoopOf
<1>2. ASSUME NEW l \in Listeners, PushBegin(l)
      PROVE  LoopInv'
  <2>1. /\ at[l] = "new" /\ at' = [at EXCEPT ![l] = "push"]
        /\ known' = [known EXCEPT ![l] = Range(klasses)]
        /\ UNCHANGED <<klasses, id, i, j, data, stream>>
    BY <1>2, Zenon DEF PushBegin
  <2>2. ASSUME NEW o \in Listeners, o # l PROVE LoopOf(o)'
    <3>1. at'[o] = at[o] /\ known'[o] = known[o]
      BY <1>t, <2>1, <2>2, Zenon DEF TypeOK
    <3>2. QED BY <1>o, <2>1, <3>1, Zenon
  <2>3. at'[l] = "push" /\ known'[l] = Range(klasses) /\ i'[l] = 1 /\ j'[l] = 1
    BY <1>t, <2>1, Zenon DEF TypeOK, LoopInv
  <2>4. klasses \in Seq(Klasses)
    BY <1>t, Zenon DEF TypeOK
  <2>5. ASSUME NEW k \in Range(klasses) PROVE id[k] # Invalid
    <3>1. PICK n \in DOMAIN klasses : k = klasses[n]
      BY <2>5, Zenon DEF Range
    <3>2. id[k] = n - 1 /\ n \in 1..Len(klasses)
      BY <1>t, <2>4, <3>1, SeqFacts, Zenon DEF PlaceInv
    <3>3. n - 1 \in Nat
      BY <3>2, <2>4
    <3>4. QED BY <3>2, <3>3, KlassRegistryAssumption, Zenon
  <2>6. /\ 1 <= Len(klasses) + 1
        /\ 1 <= Len(klasses) => klasses[1] \in Klasses
    BY <2>4
  <2>7. 1 <= Len(klasses) => 1 <= Len(Infos[klasses[1]])
    BY <2>6, InfosNonempty
  <2>8. LoopOf(l)'
    BY <2>1, <2>3, <2>5, <2>6, <2>7, Zenon DEF LoopOf
  <2>9. QED BY <2>2, <2>8, Zenon DEF LoopInv, LoopOf
<1>3. ASSUME NEW l \in Listeners, PushInfo(l)
      PROVE  LoopInv'
  <2> DEFINE c == klasses[i[l]]
  <2>1. /\ \/ j[l] = Len(Infos[c]) /\ i'[l] = i[l] + 1 /\ j'[l] = 1
           \/ j[l] < Len(Infos[c]) /\ i'[l] = i[l] /\ j'[l] = j[l] + 1
        /\ \A o \in Listeners : o # l => i'[o] = i[o] /\ j'[o] = j[o]
        /\ UNCHANGED <<at, known, klasses, id>>
        /\ at[l] = "push" /\ i[l] <= Len(klasses)
    BY <1>3, <1>t, PushInfoGoesOn, Zenon
  <2>2. ASSUME NEW o \in Listeners, o # l PROVE LoopOf(o)'
    <3>1. at[o] # "push"
      BY <1>t, <2>1, <2>2, Zenon DEF ThreadInv
    <3>2. stream'[o] = stream[o] /\ data'[o] = data[o]
      BY <1>t, <1>3, <3>1, PushInfoTold, Zenon
    <3>3. QED BY <1>o, <2>1, <2>2, <3>2, Zenon
  <2>3. /\ klasses \in Seq(Klasses) /\ i[l] \in Nat \ {0} /\ j[l] \in Nat \ {0}
    BY <1>t, Zenon DEF TypeOK
  <2>4. \A n \in 1..Len(klasses) : Len(Infos[klasses[n]]) >= 1 /\ Len(Infos[klasses[n]]) \in Nat
    BY <2>3, SeqFacts, InfosNonempty, Zenon
  <2>5. i'[l] <= Len(klasses) + 1 /\ (i'[l] <= Len(klasses) => j'[l] <= Len(Infos[klasses[i'[l]]]))
    <3>1. i[l] \in 1..Len(klasses) /\ Len(klasses) \in Nat
      BY <2>1, <2>3
    <3>2. CASE j[l] = Len(Infos[c]) /\ i'[l] = i[l] + 1 /\ j'[l] = 1
      <4>1. i'[l] <= Len(klasses) + 1
        BY <3>1, <3>2
      <4>2. i'[l] <= Len(klasses) => i'[l] \in 1..Len(klasses)
        BY <3>1, <3>2
      <4>3. QED BY <2>4, <3>2, <4>1, <4>2
    <3>3. CASE j[l] < Len(Infos[c]) /\ i'[l] = i[l] /\ j'[l] = j[l] + 1
      <4>1. Len(Infos[c]) \in Nat
        BY <2>4, <3>1, Zenon
      <4> HIDE DEF c
      <4>2. j[l] + 1 <= Len(Infos[c]) /\ i[l] <= Len(klasses) + 1
        BY <2>3, <3>1, <3>3, <4>1
      <4>3. QED BY <3>3, <4>2, Zenon DEF c
    <3>4. QED BY <2>1, <3>2, <3>3, Zenon
  <2>6. LoopOf(l)'
    BY <1>t, <2>1, <2>5, Zenon DEF LoopInv, LoopOf
  <2>7. QED BY <2>2, <2>6, Zenon DEF LoopInv, LoopOf
<1>4. ASSUME NEW l \in Listeners, PushEnd(l)
      PROVE  LoopInv'
  <2>1. /\ at' = [at EXCEPT ![l] = "tail"] /\ UNCHANGED <<klasses, id, i, j, data, stream, known>>
    BY <1>4, Zenon DEF PushEnd
  <2>2. ASSUME NEW o \in Listeners, o # l PROVE LoopOf(o)'
    <3>1. at'[o] = at[o]
      BY <1>t, <2>1, <2>2, Zenon DEF TypeOK
    <3>2. QED BY <1>o, <2>1, <3>1, Zenon
  <2>3. at'[l] = "tail"
    BY <1>t, <2>1, Zenon DEF TypeOK
  <2>4. LoopOf(l)'
    BY <1>t, <2>1, <2>3, Zenon DEF LoopInv, LoopOf
  <2>5. QED BY <2>2, <2>4, Zenon DEF LoopInv, LoopOf
<1>5. ASSUME NEW l \in Listeners, PushTail(l)
      PROVE  LoopInv'
  <2>1. /\ at' = [at EXCEPT ![l] = "attached"] /\ UNCHANGED <<klasses, id, i, j, known>>
        /\ stream' = [stream EXCEPT ![l] = stream[l] \o data[l]]
        /\ data' = [data EXCEPT ![l] = << >>]
    BY <1>5, Zenon DEF PushTail
  <2>2. ASSUME NEW o \in Listeners, o # l PROVE LoopOf(o)'
    <3>1. at'[o] = at[o] /\ stream'[o] = stream[o] /\ data'[o] = data[o]
      BY <1>t, <2>1, <2>2, Zenon DEF TypeOK
    <3>2. QED BY <1>o, <2>1, <3>1, Zenon
  <2>3. at'[l] = "attached" /\ data'[l] = << >>
    BY <1>t, <2>1, Zenon DEF TypeOK
  <2>4. LoopOf(l)'
    BY <1>t, <2>1, <2>3, Zenon DEF LoopInv, LoopOf
  <2>5. QED BY <2>2, <2>4, Zenon DEF LoopInv, LoopOf
<1>6. ASSUME NEW k \in Klasses, Deliver(k)
      PROVE  LoopInv'
  <2>1. /\ UNCHANGED <<klasses, id, at, i, j, data, known>>
        /\ \A l \in Listeners : at[l] # "attached" => stream'[l] = stream[l]
    BY <1>6, <1>t, DeliverTold, Zenon
  <2>2. QED BY <1>t, <2>1, Zenon DEF LoopInv
<1>7. QED BY <1>1, <1>2, <1>3, <1>4, <1>5, <1>6, StepCases, Zenon

\* The order of info events, and that all of a stream come before a place of
\* the loop.
Before(x, y) == x[3] < y[3] \/ (x[3] = y[3] /\ x[4] < y[4])

InOrder(s) ==
  \A n, m \in DOMAIN s :
    n < m /\ s[n][1] = "info" /\ s[m][1] = "info" => Before(s[n], s[m])

Behind(s, a, b) ==
  \A p \in DOMAIN s : s[p][1] = "info" =>
    s[p][3] + 1 < a \/ (s[p][3] + 1 = a /\ s[p][4] < b)

LEMMA OrderDef ==
  OrderInv <=> \A l \in Listeners : /\ InOrder(Told(l))
                                    /\ at[l] = "push" => Behind(Told(l), i[l], j[l])
BY Zenon DEF OrderInv, ToldInOrder, InOrder, Before, Behind

LEMMA MessageFacts ==
  ASSUME NEW x \in Message
  PROVE  x[3] \in Nat /\ x[4] \in Nat
BY DEF Message

\* A stream that gets a message at its end: its places and what is there.
LEMMA Appended ==
  ASSUME NEW s \in Seq(Message), NEW x \in Message
  PROVE  /\ Len(s) \in Nat /\ DOMAIN s = 1..Len(s)
         /\ Append(s, x) \in Seq(Message) /\ DOMAIN Append(s, x) = 1..(Len(s) + 1)
         /\ \A p \in DOMAIN s : s[p] \in Message /\ p \in DOMAIN Append(s, x) /\ p < Len(s) + 1
         /\ \A p \in DOMAIN Append(s, x) :
              \/ p \in DOMAIN s /\ Append(s, x)[p] = s[p]
              \/ p = Len(s) + 1 /\ Append(s, x)[p] = x
<1>1. Len(s) \in Nat /\ DOMAIN s = 1..Len(s) /\ \A p \in 1..Len(s) : s[p] \in Message
  BY SeqFacts, Zenon
<1>2. /\ Append(s, x) \in Seq(Message) /\ Len(Append(s, x)) = Len(s) + 1
      /\ \A p \in 1..Len(s) : Append(s, x)[p] = s[p]
      /\ Append(s, x)[Len(s) + 1] = x
  BY AppendFacts, SMT
<1>3. DOMAIN Append(s, x) = 1..(Len(s) + 1)
  BY <1>2, SeqFacts, Zenon
<1>4. \A p \in 1..Len(s) : p \in 1..(Len(s) + 1) /\ p < Len(s) + 1
  BY <1>1
<1>5. \A p \in 1..(Len(s) + 1) : p \in 1..Len(s) \/ p = Len(s) + 1
  BY <1>1
<1>6. QED BY <1>1, <1>2, <1>3, <1>4, <1>5, Zenon

\* The info event the loop handles goes behind all others, and is behind the
\* next place of the loop.
LEMMA AppendInfo ==
  ASSUME NEW s \in Seq(Message), NEW x \in Message, NEW a \in Nat, NEW b \in Nat,
         NEW a2, NEW b2, InOrder(s), Behind(s, a, b), x[3] + 1 = a, x[4] = b,
         a2 = a + 1 \/ (a2 = a /\ b2 = b + 1)
  PROVE  InOrder(Append(s, x)) /\ Behind(Append(s, x), a2, b2)
<1> DEFINE r == Append(s, x)
<1>1. /\ \A p \in DOMAIN s : s[p] \in Message
      /\ DOMAIN r = 1..(Len(s) + 1) /\ DOMAIN s = 1..Len(s) /\ Len(s) \in Nat
      /\ \A p \in DOMAIN r : \/ p \in DOMAIN s /\ r[p] = s[p]
                             \/ p = Len(s) + 1 /\ r[p] = x
  BY Appended, Zenon
<1> HIDE DEF r
<1>2. x[3] \in Nat /\ x[4] \in Nat
  BY MessageFacts, Zenon
<1>3. ASSUME NEW p \in DOMAIN s, s[p][1] = "info"
      PROVE  /\ Before(s[p], x)
             /\ s[p][3] + 1 < a2 \/ (s[p][3] + 1 = a2 /\ s[p][4] < b2)
  <2>1. s[p][3] \in Nat /\ s[p][4] \in Nat
    BY <1>1, MessageFacts, Zenon
  <2>2. s[p][3] + 1 < a \/ (s[p][3] + 1 = a /\ s[p][4] < b)
    BY <1>3, Zenon DEF Behind
  <2>3. QED BY <1>2, <2>1, <2>2, SMTT(60) DEF Before
<1>4. x[3] + 1 < a2 \/ (x[3] + 1 = a2 /\ x[4] < b2)
  BY <1>2
<1>5. Behind(r, a2, b2)
  BY <1>1, <1>3, <1>4, Zenon DEF Behind
<1>6. ASSUME NEW n \in DOMAIN r, NEW m \in DOMAIN r, n < m, r[n][1] = "info", r[m][1] = "info"
      PROVE  Before(r[n], r[m])
  <2>1. n \in DOMAIN s /\ r[n] = s[n]
    BY <1>1, <1>6
  <2>2. CASE m \in DOMAIN s /\ r[m] = s[m]
    BY <1>6, <2>1, <2>2, Zenon DEF InOrder
  <2>3. CASE r[m] = x
    BY <1>3, <1>6, <2>1, <2>3, Zenon
  <2>4. QED BY <1>1, <1>6, <2>2, <2>3, Zenon
<1>7. QED BY <1>5, <1>6, Zenon DEF InOrder, r

\* An event that is no info event disturbs no order.
LEMMA AppendEvent ==
  ASSUME NEW s \in Seq(Message), NEW x \in Message, InOrder(s), x[1] # "info"
  PROVE  InOrder(Append(s, x))
<1> DEFINE r == Append(s, x)
<1>1. \A p \in DOMAIN r : \/ p \in DOMAIN s /\ r[p] = s[p]
                          \/ p = Len(s) + 1 /\ r[p] = x
  BY Appended, Zenon
<1> HIDE DEF r
<1>2. InOrder(r)
  BY <1>1, Zenon DEF InOrder
<1>3. QED BY <1>2, Zenon DEF r

\* What a listener was told is a sequence of messages.
LEMMA ToldType ==
  ASSUME TypeOK, NEW l \in Listeners
  PROVE  Told(l) \in Seq(Message)
BY CatFacts, Zenon DEF TypeOK, Told

LEMMA OrderStep ==
  ASSUME IInv, [Next]_vars
  PROVE  OrderInv'
<1>t. TypeOK /\ ThreadInv /\ PlaceInv /\ LoopInv
  BY Zenon DEF IInv
<1>o. \A l \in Listeners : InOrder(Told(l)) /\ (at[l] = "push" => Behind(Told(l), i[l], j[l]))
  BY OrderDef, Zenon DEF IInv
<1> DEFINE Goal(l) == InOrder(Told(l)) /\ (at[l] = "push" => Behind(Told(l), i[l], j[l]))
<1>g. ASSUME \A l \in Listeners : Goal(l)' PROVE OrderInv'
  BY <1>g, Zenon DEF OrderInv, ToldInOrder, InOrder, Before, Behind
<1>s. ASSUME NEW l \in Listeners, Told(l)' = Told(l),
             at'[l] = "push" => at[l] = "push" /\ i'[l] = i[l] /\ j'[l] = j[l]
      PROVE  Goal(l)'
  <2>1. InOrder(Told(l))'
    BY <1>o, <1>s, Zenon DEF InOrder
  <2>2. CASE at'[l] = "push"
    <3>1. Behind(Told(l), i[l], j[l])
      BY <1>o, <1>s, <2>2, Zenon
    <3>2. Behind(Told(l), i[l], j[l])'
      BY <1>s, <2>2, <3>1, Zenon DEF Behind
    <3>3. QED BY <2>1, <3>2, Zenon
  <2>3. QED BY <2>1, <2>2, Zenon
<1> HIDE DEF Goal
<1>1. CASE Registration
  <2>1. UNCHANGED <<at, i, j, data, stream>>
    BY <1>1, <1>t, RegistrationFrame, Zenon
  <2>2. \A l \in Listeners : Told(l)' = Told(l)
    BY <2>1, Zenon DEF Told
  <2>3. QED BY <1>s, <1>g, <2>1, <2>2, Zenon
<1>2. ASSUME NEW l \in Listeners, PushBegin(l)
      PROVE  OrderInv'
  <2>1. at[l] = "new" /\ at' = [at EXCEPT ![l] = "push"] /\ UNCHANGED <<i, j, data, stream>>
    BY <1>2, Zenon DEF PushBegin
  <2>2. \A o \in Listeners : Told(o)' = Told(o) /\ (o # l => at'[o] = at[o])
    BY <1>t, <2>1, Zenon DEF Told, TypeOK
  <2>3. Told(l) = << >>
    <3>1. stream[l] = << >> /\ data[l] = << >>
      BY <1>t, <2>1, Zenon DEF LoopInv
    <3>2. stream[l] \o << >> = stream[l]
      BY <1>t, CatEmpty, Zenon DEF TypeOK
    <3>3. QED BY <3>1, <3>2, Zenon DEF Told
  <2>4. DOMAIN << >> = {}
    OBVIOUS
  <2>5. Goal(l)'
    BY <2>2, <2>3, <2>4, Zenon DEF Goal, InOrder, Behind
  <2>6. \A o \in Listeners : o # l => Goal(o)'
    BY <1>s, <2>1, <2>2, Zenon
  <2>7. QED BY <1>g, <2>5, <2>6, Zenon
<1>3. ASSUME NEW l \in Listeners, PushInfo(l)
      PROVE  OrderInv'
  <2> DEFINE c == klasses[i[l]]
             x == Info(c, j[l])
  <2>1. /\ \/ i'[l] = i[l] + 1
           \/ i'[l] = i[l] /\ j'[l] = j[l] + 1
        /\ \A o \in Listeners : o # l => i'[o] = i[o] /\ j'[o] = j[o]
        /\ at' = at /\ at[l] = "push" /\ i[l] <= Len(klasses)
    BY <1>3, <1>t, PushInfoGoesOn, Zenon
  <2>2. /\ x \in Message /\ id[c] = i[l] - 1 /\ i[l] \in Nat /\ j[l] \in Nat
    BY <1>t, <2>1, LoopFacts, Zenon
  <2>3. Told(l)' = Append(Told(l), x) /\ \A o \in Listeners : o # l => Told(o)' = Told(o)
    BY <1>t, <1>3, PushInfoTold, Zenon
  <2>4. x[3] = id[c] /\ x[4] = j[l]
    BY Zenon DEF Info
  <2> HIDE DEF x, c
  <2>5. x[3] + 1 = i[l]
    BY <2>2, <2>4
  <2>6. InOrder(Append(Told(l), x)) /\ Behind(Append(Told(l), x), i'[l], j'[l])
    BY <1>t, <1>o, <2>1, <2>2, <2>4, <2>5, ToldType, AppendInfo, Zenon
  <2>7. Goal(l)'
    BY <2>3, <2>6, Zenon DEF Goal, InOrder, Behind
  <2>8. \A o \in Listeners : o # l => Goal(o)'
    BY <1>s, <2>1, <2>3, Zenon
  <2>9. QED BY <1>g, <2>7, <2>8, Zenon
<1>4. ASSUME NEW l \in Listeners, PushEnd(l)
      PROVE  OrderInv'
  <2>1. at' = [at EXCEPT ![l] = "tail"] /\ UNCHANGED <<i, j, data, stream>>
    BY <1>4, Zenon DEF PushEnd
  <2>2. \A o \in Listeners : Told(o)' = Told(o) /\ (at'[o] = "push" => at[o] = "push")
    BY <1>t, <2>1, Zenon DEF Told, TypeOK
  <2>3. QED BY <1>s, <1>g, <2>1, <2>2, Zenon
<1>5. ASSUME NEW l \in Listeners, PushTail(l)
      PROVE  OrderInv'
  <2>1. at' = [at EXCEPT ![l] = "attached"] /\ UNCHANGED <<i, j>>
    BY <1>5, Zenon DEF PushTail
  <2>2. \A o \in Listeners : Told(o)' = Told(o) /\ (at'[o] = "push" => at[o] = "push")
    BY <1>t, <1>5, <2>1, PushTailTold, Zenon DEF TypeOK
  <2>3. QED BY <1>s, <1>g, <2>1, <2>2, Zenon
<1>6. ASSUME NEW k \in Klasses, Deliver(k)
      PROVE  OrderInv'
  <2>1. /\ Event(k) \in Message /\ UNCHANGED <<at, i, j>>
        /\ \A l \in Listeners :
             Told(l)' = IF at[l] = "attached" THEN Append(Told(l), Event(k)) ELSE Told(l)
    BY <1>6, <1>t, DeliverTold, Zenon
  <2>2. Event(k)[1] # "info"
    BY DEF Event
  <2>3. ASSUME NEW l \in Listeners PROVE Goal(l)'
    <3>1. CASE at[l] = "attached"
      <4>1. InOrder(Append(Told(l), Event(k)))
        BY <1>t, <1>o, <2>1, <2>2, ToldType, AppendEvent, Zenon
      <4>2. QED BY <2>1, <3>1, <4>1, Zenon DEF Goal, InOrder
    <3>2. CASE at[l] # "attached"
      BY <1>o, <2>1, <3>2, Zenon DEF Goal, InOrder, Behind
    <3>3. QED BY <3>1, <3>2, Zenon
  <2>4. QED BY <1>g, <2>3, Zenon
<1>7. QED BY <1>1, <1>2, <1>3, <1>4, <1>5, <1>6, StepCases, Zenon

\* A stream has a message.
Has(s, x) == \E p \in DOMAIN s : s[p] = x

AllInfo(s) == \A p \in DOMAIN s : s[p][1] = "info"

\* What ToldInv says of one listener.
ToldOf(l) ==
  /\ \A k \in known[l] : \A m \in DOMAIN Infos[k] :
       Described(l, k, m) => Has(Told(l), <<"info", k, id[k], m>>)
  /\ at[l] # "attached" => AllInfo(Told(l))

LEMMA AppendHas ==
  ASSUME NEW s \in Seq(Message), NEW x \in Message
  PROVE  /\ \A y : Has(s, y) => Has(Append(s, x), y)
         /\ Has(Append(s, x), x)
         /\ AllInfo(s) /\ x[1] = "info" => AllInfo(Append(s, x))
<1> DEFINE r == Append(s, x)
<1>1. /\ \A p \in DOMAIN s : p \in DOMAIN r /\ r[p] = s[p]
      /\ Len(s) + 1 \in DOMAIN r /\ r[Len(s) + 1] = x
      /\ \A p \in DOMAIN r : r[p] = x \/ (p \in DOMAIN s /\ r[p] = s[p])
  <2>1. /\ Len(s) \in Nat /\ DOMAIN s = 1..Len(s) /\ DOMAIN r = 1..(Len(s) + 1)
        /\ \A p \in DOMAIN s : p \in DOMAIN r /\ p < Len(s) + 1
        /\ \A p \in DOMAIN r : \/ p \in DOMAIN s /\ r[p] = s[p]
                               \/ p = Len(s) + 1 /\ r[p] = x
    BY Appended, Zenon
  <2> HIDE DEF r
  <2>2. Len(s) + 1 \in DOMAIN r /\ Len(s) + 1 \notin DOMAIN s
    BY <2>1
  <2>3. QED BY <2>1, <2>2, Zenon
<1> HIDE DEF r
<1>2. /\ \A y : Has(s, y) => Has(r, y)
      /\ Has(r, x)
      /\ AllInfo(s) /\ x[1] = "info" => AllInfo(r)
  BY <1>1, Zenon DEF Has, AllInfo
<1>3. QED BY <1>2, Zenon DEF r

\* The only info event the loop adds to what is described is the one it pushes.
LEMMA DescribedByPush ==
  ASSUME TypeOK, PlaceInv, LoopInv, NEW l \in Listeners, PushInfo(l),
         NEW k \in Klasses, NEW m \in DOMAIN Infos[k], Described(l, k, m)'
  PROVE  Described(l, k, m) \/ (k = klasses[i[l]] /\ m = j[l])
<1> DEFINE c == klasses[i[l]]
<1>1. /\ \/ j[l] = Len(Infos[c]) /\ i'[l] = i[l] + 1 /\ j'[l] = 1
         \/ j[l] < Len(Infos[c]) /\ i'[l] = i[l] /\ j'[l] = j[l] + 1
      /\ UNCHANGED <<at, klasses>> /\ at[l] = "push" /\ i[l] <= Len(klasses)
  BY PushInfoGoesOn, Zenon
<1>2. i[l] \in Nat /\ j[l] \in Nat /\ Len(Infos[c]) \in Nat
  BY <1>1, LoopFacts, Zenon
<1>3. m \in Nat /\ m >= 1 /\ m <= Len(Infos[k])
  BY InfosNonempty
<1>4. PICK n \in DOMAIN klasses : klasses[n] = k /\ (n < i'[l] \/ (n = i'[l] /\ m < j'[l]))
  BY <1>1, Zenon DEF Described
<1>5. n \in Nat
  BY SeqFacts, SMTT(60) DEF TypeOK
<1> HIDE DEF c
<1>6. CASE n = i[l]
  <2>1. k = c
    BY <1>4, <1>6, Zenon DEF c
  <2>2. m <= j[l]
    BY <1>1, <1>2, <1>3, <1>4, <1>6, <2>1
  <2>3. m < j[l] \/ m = j[l]
    BY <1>2, <1>3, <2>2
  <2>4. QED BY <1>4, <1>6, <2>1, <2>3, Zenon DEF Described, c
<1>7. CASE n # i[l]
  <2>1. n < i[l]
    BY <1>1, <1>2, <1>3, <1>4, <1>5, <1>7, SMTT(60)
  <2>2. QED BY <1>4, <2>1, Zenon DEF Described
<1>8. QED BY <1>6, <1>7, Zenon

LEMMA ToldStep ==
  ASSUME IInv, [Next]_vars
  PROVE  ToldInv'
<1>t. TypeOK /\ ThreadInv /\ PlaceInv /\ LoopInv
  BY Zenon DEF IInv
<1>o. \A l \in Listeners : ToldOf(l)
  BY Zenon DEF IInv, ToldInv, ToldOf, Has, AllInfo
<1>g. ASSUME \A l \in Listeners : ToldOf(l)' PROVE ToldInv'
  BY <1>g, Zenon DEF ToldInv, ToldOf, Has, AllInfo
<1>i. \A l \in Listeners : \A k \in known[l] : k \in Klasses /\ id'[k] = id[k]
  BY <1>t, IdKept, Zenon DEF LoopInv, TypeOK
<1>s. ASSUME NEW l \in Listeners, known'[l] = known[l],
             \A y : Has(Told(l), y) => Has(Told(l)', y),
             at'[l] # "attached" => at[l] # "attached" /\ Told(l)' = Told(l),
             \A k \in known[l] : \A m \in DOMAIN Infos[k] :
               Described(l, k, m)' => Described(l, k, m)
      PROVE  ToldOf(l)'
  <2>1. ASSUME NEW k \in known[l], NEW m \in DOMAIN Infos[k], Described(l, k, m)'
        PROVE  Has(Told(l)', <<"info", k, id'[k], m>>)
    BY <1>o, <1>i, <1>s, <2>1, Zenon DEF ToldOf
  <2>2. at'[l] # "attached" => AllInfo(Told(l)')
    BY <1>o, <1>s, Zenon DEF ToldOf
  <2>3. QED BY <1>s, <2>1, <2>2, Zenon DEF ToldOf, Has, AllInfo
<1>1. CASE Registration
  <2>1. /\ UNCHANGED <<at, i, j, data, stream, known>>
        /\ UNCHANGED klasses \/ \A l \in Listeners : at[l] # "push"
    BY <1>1, <1>t, RegistrationFrame, Zenon
  <2>2. \A l \in Listeners : Told(l)' = Told(l)
    BY <2>1, Zenon DEF Told
  <2>3. ASSUME NEW l \in Listeners, NEW k \in known[l], NEW m \in DOMAIN Infos[k],
               Described(l, k, m)'
        PROVE  Described(l, k, m)
    <3>1. CASE UNCHANGED klasses
      BY <2>1, <2>3, <3>1, Zenon DEF Described
    <3>2. CASE at[l] # "push"
      BY <1>t, <2>3, <3>2, Zenon DEF Described, LoopInv, TypeOK
    <3>3. QED BY <2>1, <3>1, <3>2, Zenon
  <2>4. QED BY <1>s, <1>g, <2>1, <2>2, <2>3, Zenon
<1>2. ASSUME NEW l \in Listeners, PushBegin(l)
      PROVE  ToldInv'
  <2>1. /\ at[l] = "new" /\ at' = [at EXCEPT ![l] = "push"]
        /\ known' = [known EXCEPT ![l] = Range(klasses)]
        /\ UNCHANGED <<klasses, i, j, data, stream>>
    BY <1>2, Zenon DEF PushBegin
  <2>2. \A o \in Listeners : /\ Told(o)' = Told(o)
                             /\ o # l => at'[o] = at[o] /\ known'[o] = known[o]
    BY <1>t, <2>1, Zenon DEF Told, TypeOK
  <2>3. \A o \in Listeners : o # l => ToldOf(o)'
    BY <1>s, <2>1, <2>2, Zenon DEF Described
  <2>4. at'[l] = "push" /\ i'[l] = 1 /\ j'[l] = 1
    BY <1>t, <2>1, Zenon DEF TypeOK, LoopInv
  <2>5. klasses \in Seq(Klasses)
    BY <1>t, Zenon DEF TypeOK
  <2>6. \A k \in Range(klasses) : k \in Klasses
    <3>1. \A n \in DOMAIN klasses : klasses[n] \in Klasses
      BY <2>5, SeqFacts, Zenon
    <3>2. QED BY <3>1, Zenon DEF Range
  <2>7. ASSUME NEW k \in Range(klasses), NEW m \in DOMAIN Infos[k] PROVE ~Described(l, k, m)'
    <3>1. ~(m < 1)
      BY <2>6, InfosNonempty
    <3>2. \A n \in DOMAIN klasses : ~(n < 1)
      BY <2>5
    <3>3. QED BY <2>1, <2>4, <3>1, <3>2, Zenon DEF Described
  <2>8. known'[l] = Range(klasses) /\ AllInfo(Told(l)')
    <3>1. AllInfo(Told(l))
      BY <1>o, <2>1, Zenon DEF ToldOf
    <3>2. QED BY <1>t, <2>1, <2>2, <3>1, Zenon DEF TypeOK
  <2>9. ToldOf(l)'
    BY <2>7, <2>8, Zenon DEF ToldOf, AllInfo
  <2>10. QED BY <1>g, <2>3, <2>9, Zenon
<1>3. ASSUME NEW l \in Listeners, PushInfo(l)
      PROVE  ToldInv'
  <2> DEFINE x == Info(klasses[i[l]], j[l])
  <2>1. /\ \A o \in Listeners : o # l => i'[o] = i[o] /\ j'[o] = j[o]
        /\ UNCHANGED <<at, known, klasses, id>> /\ at[l] = "push" /\ i[l] <= Len(klasses)
    BY <1>3, <1>t, PushInfoGoesOn, Zenon
  <2>2. x \in Message /\ Told(l) \in Seq(Message)
    BY <1>t, <2>1, LoopFacts, ToldType, Zenon
  <2>3. Told(l)' = Append(Told(l), x) /\ \A o \in Listeners : o # l => Told(o)' = Told(o)
    BY <1>t, <1>3, PushInfoTold, Zenon
  <2>4. /\ \A y : Has(Told(l), y) => Has(Told(l)', y)
        /\ Has(Told(l)', x)
        /\ AllInfo(Told(l)) /\ x[1] = "info" => AllInfo(Told(l)')
    <3>1. /\ \A y : Has(Told(l), y) => Has(Append(Told(l), x), y)
          /\ Has(Append(Told(l), x), x)
          /\ AllInfo(Told(l)) /\ x[1] = "info" => AllInfo(Append(Told(l), x))
      BY <2>2, AppendHas, Zenon
    <3>2. QED BY <2>3, <3>1, Zenon
  <2>5. x = <<"info", klasses[i[l]], id[klasses[i[l]]], j[l]>> /\ x[1] = "info"
    BY Zenon DEF Info
  <2> HIDE DEF x
  <2>6. ASSUME NEW k \in known[l], NEW m \in DOMAIN Infos[k], Described(l, k, m)'
        PROVE  Has(Told(l)', <<"info", k, id[k], m>>)
    <3>1. Described(l, k, m) \/ (k = klasses[i[l]] /\ m = j[l])
      BY <1>t, <1>i, <1>3, <2>6, DescribedByPush, Zenon
    <3>2. QED BY <1>o, <2>4, <2>5, <3>1, Zenon DEF ToldOf
  <2>7. AllInfo(Told(l)')
    BY <1>o, <2>1, <2>4, <2>5, Zenon DEF ToldOf
  <2>8. ToldOf(l)'
    BY <2>1, <2>6, <2>7, Zenon DEF ToldOf, Has, AllInfo
  <2>9. \A o \in Listeners : o # l => ToldOf(o)'
    BY <1>s, <2>1, <2>3, Zenon DEF Described
  <2>10. QED BY <1>g, <2>8, <2>9, Zenon
<1>4. ASSUME NEW l \in Listeners, PushEnd(l)
      PROVE  ToldInv'
  <2>1. /\ at[l] = "push" /\ i[l] > Len(klasses) /\ at' = [at EXCEPT ![l] = "tail"]
        /\ UNCHANGED <<klasses, i, j, data, stream, known>>
    BY <1>4, Zenon DEF PushEnd
  <2>2. \A o \in Listeners : Told(o)' = Told(o) /\ (o # l => at'[o] = at[o])
    BY <1>t, <2>1, Zenon DEF Told, TypeOK
  <2>3. \A n \in DOMAIN klasses : n < i[l]
    BY <1>t, <2>1 DEF TypeOK
  <2>4. \A k \in known[l] : \A m \in DOMAIN Infos[k] : Described(l, k, m)
    BY <1>t, <2>1, <2>3, ZenonT(60) DEF LoopInv, Described, Range
  <2>5. ToldOf(l)'
    BY <1>s, <2>1, <2>2, <2>4, Zenon
  <2>6. \A o \in Listeners : o # l => ToldOf(o)'
    BY <1>s, <2>1, <2>2, Zenon DEF Described
  <2>7. QED BY <1>g, <2>5, <2>6, Zenon
<1>5. ASSUME NEW l \in Listeners, PushTail(l)
      PROVE  ToldInv'
  <2>1. /\ at[l] = "tail" /\ at' = [at EXCEPT ![l] = "attached"]
        /\ UNCHANGED <<klasses, i, j, known>>
    BY <1>5, Zenon DEF PushTail
  <2>2. \A o \in Listeners : Told(o)' = Told(o)
    BY <1>t, <1>5, PushTailTold, Zenon
  <2>3. at'[l] = "attached" /\ \A o \in Listeners : o # l => at'[o] = at[o]
    BY <1>t, <2>1, Zenon DEF TypeOK
  <2>4. ToldOf(l)'
    BY <1>s, <2>1, <2>2, <2>3, Zenon DEF Described
  <2>5. \A o \in Listeners : o # l => ToldOf(o)'
    BY <1>s, <2>1, <2>2, <2>3, Zenon DEF Described
  <2>6. QED BY <1>g, <2>4, <2>5, Zenon
<1>6. ASSUME NEW k \in Klasses, Deliver(k)
      PROVE  ToldInv'
  <2>1. /\ Event(k) \in Message /\ UNCHANGED <<at, i, j, klasses, known>>
        /\ \A l \in Listeners :
             Told(l)' = IF at[l] = "attached" THEN Append(Told(l), Event(k)) ELSE Told(l)
    BY <1>6, <1>t, DeliverTold, Zenon
  <2>2. ASSUME NEW l \in Listeners PROVE ToldOf(l)'
    <3>1. \A y : Has(Told(l), y) => Has(Append(Told(l), Event(k)), y)
      BY <1>t, <2>1, ToldType, AppendHas, Zenon
    <3>2. \A y : Has(Told(l), y) => Has(Told(l)', y)
      BY <2>1, <3>1, Zenon
    <3>3. at'[l] # "attached" => at[l] # "attached" /\ Told(l)' = Told(l)
      BY <2>1, Zenon
    <3>4. QED BY <1>s, <2>1, <3>2, <3>3, Zenon DEF Described
  <2>3. QED BY <1>g, <2>2, Zenon
<1>7. QED BY <1>1, <1>2, <1>3, <1>4, <1>5, <1>6, StepCases, Zenon

\* What AnnouncedFirst says of one listener.
Announced(s, K) ==
  \A n \in DOMAIN s : s[n][1] = "event" /\ s[n][2] \in K =>
    \A m \in DOMAIN Infos[s[n][2]] : \E p \in 1..(n - 1) :
      s[p] = <<"info", s[n][2], s[n][3], m>>

\* A stream stays announced if it gets an event whose klass is announced in it
\* or was not known.
LEMMA AppendAnnounced ==
  ASSUME NEW s \in Seq(Message), NEW K, NEW k \in Klasses, NEW h \in Nat,
         Announced(s, K),
         k \in K => \A m \in DOMAIN Infos[k] : Has(s, <<"info", k, h, m>>)
  PROVE  Announced(Append(s, <<"event", k, h, 0>>), K)
<1> DEFINE x == <<"event", k, h, 0>>
           r == Append(s, x)
<1>0. x \in Message
  <2>1. 0 \in Nat
    OBVIOUS
  <2>2. QED BY <2>1, Zenon DEF Message
<1>x. x[2] = k /\ x[3] = h
  BY Zenon
<1> HIDE DEF x
<1>1. /\ Len(s) \in Nat /\ DOMAIN s = 1..Len(s) /\ DOMAIN r = 1..(Len(s) + 1)
      /\ \A p \in DOMAIN s : p \in DOMAIN r /\ p < Len(s) + 1
      /\ \A p \in DOMAIN r : \/ p \in DOMAIN s /\ r[p] = s[p]
                             \/ p = Len(s) + 1 /\ r[p] = x
  BY <1>0, Appended, Zenon
<1> HIDE DEF r
<1>2. \A p \in DOMAIN s : r[p] = s[p] /\ p \in 1..(Len(s) + 1 - 1)
  BY <1>1
<1>3. ASSUME NEW n \in DOMAIN r, r[n][1] = "event", r[n][2] \in K,
             NEW m \in DOMAIN Infos[r[n][2]]
      PROVE  \E p \in 1..(n - 1) : r[p] = <<"info", r[n][2], r[n][3], m>>
  <2>1. CASE n \in DOMAIN s /\ r[n] = s[n]
    <3>1. PICK p \in 1..(n - 1) : s[p] = <<"info", s[n][2], s[n][3], m>>
      BY <1>3, <2>1, Zenon DEF Announced
    <3>2. p \in DOMAIN s
      BY <1>1, <2>1
    <3>3. QED BY <1>2, <2>1, <3>1, <3>2, Zenon
  <2>2. CASE n = Len(s) + 1 /\ r[n] = x
    <3>1. PICK p \in DOMAIN s : s[p] = <<"info", k, h, m>>
      BY <1>3, <1>x, <2>2, Zenon DEF Has
    <3>2. p \in 1..(n - 1) /\ r[p] = s[p]
      <4>1. p \in 1..Len(s)
        BY <1>1, <3>1, Zenon
      <4>2. p \in 1..(n - 1)
        BY <1>1, <2>2, <4>1
      <4>3. QED BY <1>2, <4>2, Zenon
    <3>3. r[n][2] = k /\ r[n][3] = h
      BY <1>x, <2>2, Zenon
    <3>4. QED BY <3>1, <3>2, <3>3, Zenon
  <2>3. QED BY <1>1, <1>3, <2>1, <2>2, Zenon
<1>4. Announced(r, K)
  BY <1>3, Zenon DEF Announced
<1>5. QED BY <1>4, Zenon DEF r, x

\* The stream begins what the listener was told.
LEMMA StreamOfTold ==
  ASSUME TypeOK, NEW l \in Listeners, AllInfo(Told(l))
  PROVE  AllInfo(stream[l])
<1>1. stream[l] \in Seq(Message) /\ data[l] \in Seq(Message)
  BY Zenon DEF TypeOK
<1>2. \A p \in DOMAIN stream[l] :
        p \in DOMAIN (stream[l] \o data[l]) /\ (stream[l] \o data[l])[p] = stream[l][p]
  BY <1>1, CatPrefix, Zenon
<1>3. QED BY <1>2, Zenon DEF AllInfo, Told

LEMMA AnnouncedStep ==
  ASSUME IInv, [Next]_vars, TypeOK', ToldInv'
  PROVE  AnnouncedFirst'
<1>t. TypeOK /\ ThreadInv /\ PlaceInv /\ LoopInv
  BY Zenon DEF IInv
<1>o. \A l \in Listeners : Announced(stream[l], known[l])
  BY Zenon DEF IInv, AnnouncedFirst, Announced
<1>g. ASSUME \A l \in Listeners : Announced(stream'[l], known'[l]) PROVE AnnouncedFirst'
  BY <1>g, Zenon DEF AnnouncedFirst, Announced
<1>a. \A s, K : AllInfo(s) => Announced(s, K)
  <2>1. "info" # "event"
    OBVIOUS
  <2>2. QED BY <2>1, Zenon DEF AllInfo, Announced
<1>n. ASSUME NEW l \in Listeners, at'[l] # "attached"
      PROVE  Announced(stream'[l], known'[l])
  <2>1. AllInfo(Told(l))'
    BY <1>n, Zenon DEF ToldInv, AllInfo
  <2>2. AllInfo(stream[l])'
    BY <2>1, StreamOfTold, PTL
  <2>3. QED BY <1>a, <2>2, Zenon DEF AllInfo
<1>s. ASSUME NEW l \in Listeners, at'[l] = at[l], stream'[l] = stream[l], known'[l] = known[l]
      PROVE  Announced(stream'[l], known'[l])
  BY <1>o, <1>s, Zenon
<1>1. CASE Registration
  <2>1. UNCHANGED <<at, stream, known>>
    BY <1>1, <1>t, RegistrationFrame, Zenon
  <2>2. QED BY <1>s, <1>g, <2>1, Zenon
<1>2. ASSUME NEW l \in Listeners, PushBegin(l)
      PROVE  AnnouncedFirst'
  <2>1. /\ at' = [at EXCEPT ![l] = "push"] /\ known' = [known EXCEPT ![l] = Range(klasses)]
        /\ UNCHANGED stream
    BY <1>2, Zenon DEF PushBegin
  <2>2. at'[l] # "attached" /\ \A o \in Listeners : o # l => at'[o] = at[o] /\ known'[o] = known[o]
    BY <1>t, <2>1, ZenonT(60) DEF TypeOK
  <2>3. QED BY <1>n, <1>s, <1>g, <2>1, <2>2, Zenon
<1>3. ASSUME NEW l \in Listeners, PushInfo(l)
      PROVE  AnnouncedFirst'
  <2>1. UNCHANGED <<at, known>> /\ at[l] = "push"
    BY <1>3, Zenon DEF PushInfo, Step
  <2>2. \A o \in Listeners : at[o] # "push" => stream'[o] = stream[o]
    BY <1>t, <1>3, PushInfoTold, Zenon
  <2>3. \A o \in Listeners : at[o] = "push" => at'[o] # "attached"
    BY <2>1, Zenon
  <2>4. QED BY <1>n, <1>s, <1>g, <2>1, <2>2, <2>3, Zenon
<1>4. ASSUME NEW l \in Listeners, PushEnd(l)
      PROVE  AnnouncedFirst'
  <2>1. at' = [at EXCEPT ![l] = "tail"] /\ UNCHANGED <<stream, known>>
    BY <1>4, Zenon DEF PushEnd
  <2>2. at'[l] # "attached" /\ \A o \in Listeners : o # l => at'[o] = at[o]
    BY <1>t, <2>1, Zenon DEF TypeOK
  <2>3. QED BY <1>n, <1>s, <1>g, <2>1, <2>2, Zenon
<1>5. ASSUME NEW l \in Listeners, PushTail(l)
      PROVE  AnnouncedFirst'
  <2>1. /\ at[l] = "tail" /\ at' = [at EXCEPT ![l] = "attached"] /\ UNCHANGED known
        /\ stream' = [stream EXCEPT ![l] = stream[l] \o data[l]]
    BY <1>5, Zenon DEF PushTail
  <2>2. \A o \in Listeners : o # l => at'[o] = at[o] /\ stream'[o] = stream[o]
    BY <1>t, <2>1, ZenonT(60) DEF TypeOK
  <2>3. AllInfo(Told(l))
    BY <2>1, Zenon DEF IInv, ToldInv, AllInfo
  <2>4. stream'[l] = Told(l)
    BY <1>t, <1>5, PushTailTold, Zenon
  <2>5. Announced(stream'[l], known'[l])
    BY <1>a, <2>3, <2>4, Zenon
  <2>6. QED BY <1>s, <1>g, <2>1, <2>2, <2>5, Zenon
<1>6. ASSUME NEW k \in Klasses, Deliver(k)
      PROVE  AnnouncedFirst'
  <2>1. /\ id[k] \in Nat /\ UNCHANGED <<at, known>>
        /\ \A l \in Listeners :
             stream'[l] = IF at[l] = "attached" THEN Append(stream[l], Event(k)) ELSE stream[l]
    BY <1>6, <1>t, DeliverTold, Zenon
  <2>2. ASSUME NEW l \in Listeners, at[l] = "attached"
        PROVE  Announced(stream'[l], known'[l])
    <3>1. stream[l] \in Seq(Message) /\ data[l] = << >>
      BY <1>t, <2>2, Zenon DEF TypeOK, LoopInv
    <3>2. Told(l) = stream[l]
      BY <3>1, CatEmpty, Zenon DEF Told
    <3>3. k \in known[l] =>
            \A m \in DOMAIN Infos[k] : Has(stream[l], <<"info", k, id[k], m>>)
      BY <2>2, <3>2, ZenonT(60) DEF IInv, ToldInv, Described, Has
    <3>4. Announced(Append(stream[l], <<"event", k, id[k], 0>>), known[l])
      BY <1>o, <2>1, <3>1, <3>3, AppendAnnounced, Zenon
    <3>5. QED BY <2>1, <2>2, <3>4, Zenon DEF Event
  <2>3. QED BY <1>s, <1>g, <2>1, <2>2, Zenon
<1>7. QED BY <1>1, <1>2, <1>3, <1>4, <1>5, <1>6, StepCases, Zenon

-----------------------------------------------------------------------------
(***************************************************************************)
(* The theorems.                                                           *)
(***************************************************************************)

LEMMA InitInv == Init => IInv /\ OnceInv
<1> SUFFICES ASSUME Init PROVE IInv /\ OnceInv
  OBVIOUS
<1>1. \A S : << >> \in Seq(S)
  OBVIOUS
<1>2. DOMAIN << >> = {} /\ << >> \o << >> = << >>
  OBVIOUS
<1>3. Len(Core) + 1 \in Nat /\ 0 \in 0..(Len(Core) + 1) /\ 0 \in Nat /\ 1 \in Nat \ {0}
  BY CoreFacts
<1>4. BuffSize \in Nat /\ 0 <= BuffSize
  BY KlassRegistryAssumption
<1>5. TypeOK
  BY <1>1, <1>3, Zenon DEF Init, TypeOK
<1>6. Nobody \notin Listeners
  BY KlassRegistryAssumption, Zenon
<1>7. ThreadInv
  BY <1>6, Zenon DEF Init, ThreadInv, Quiet
<1>8. PlaceInv
  BY <1>2, Zenon DEF Init, PlaceInv
<1>9. LoopInv
  BY Zenon DEF Init, LoopInv
<1>10. \A l \in Listeners : Told(l) = << >> /\ at[l] = "new" /\ known[l] = {}
  BY <1>2, Zenon DEF Init, Told
<1>11. OrderInv
  BY <1>2, <1>10, Zenon DEF OrderInv, ToldInOrder
<1>12. ToldInv
  BY <1>2, <1>10, Zenon DEF ToldInv
<1>13. AnnouncedFirst
  BY <1>2, Zenon DEF Init, AnnouncedFirst
<1>14. BufferFits
  BY <1>4, Zenon DEF Init, BufferFits
<1>15. OnceInv
  BY Zenon DEF Init, OnceInv
<1>16. QED
  BY <1>5, <1>7, <1>8, <1>9, <1>11, <1>12, <1>13, <1>14, <1>15, Zenon DEF IInv

LEMMA InvStep ==
  ASSUME OneByOne
  PROVE  IInv /\ [Next]_vars => IInv'
<1> SUFFICES ASSUME IInv, [Next]_vars PROVE IInv'
  OBVIOUS
<1>1. TypeOK' /\ BufferFits'
  BY TypeStep, Zenon
<1>2. ThreadInv' /\ PlaceInv' /\ LoopInv'
  BY ThreadStep, PlaceStep, LoopStep, Zenon
<1>3. OrderInv' /\ ToldInv'
  BY OrderStep, ToldStep, Zenon
<1>4. AnnouncedFirst'
  BY <1>1, <1>3, AnnouncedStep, Zenon
<1>5. QED BY <1>1, <1>2, <1>3, <1>4, Zenon DEF IInv

\* Every state of a program that registers no klass in two threads at once
\* satisfies the inductive invariant.
THEOREM Invariant ==
  ASSUME OneByOne
  PROVE  Spec => []IInv
<1>1. Init => IInv
  BY InitInv, Zenon
<1>2. IInv /\ [Next]_vars => IInv'
  BY InvStep
<1>3. QED BY <1>1, <1>2, PTL DEF Spec

\* The local buffer of the pushing loop (registry.c, REGISTRY_LISETNER_BUFF_SIZE)
\* never overflows, whatever klasses are registered, if each of their info events
\* fits into it alone.
THEOREM BufferFitsTheorem ==
  ASSUME OneByOne
  PROVE  Spec => []BufferFits
<1>1. IInv => BufferFits
  BY Zenon DEF IInv
<1>2. QED BY <1>1, Invariant, PTL

\* ht_registry_push_registry_klasses_to_listener tells a listener every klass once
\* and in the order of the ids, wherever it hands its buffer over.
THEOREM ToldInOrderTheorem ==
  ASSUME OneByOne
  PROVE  Spec => []ToldInOrder
<1>1. IInv => ToldInOrder
  BY Zenon DEF IInv, OrderInv
<1>2. QED BY <1>1, Invariant, PTL

\* A listener gets an event of a klass that was registered when the listener was
\* created only after the whole description of the klass, with the id the event
\* carries: also after any number of calls of ht_init and ht_deinit.
THEOREM AnnouncedFirstTheorem ==
  ASSUME OneByOne
  PROVE  Spec => []AnnouncedFirst
<1>1. IInv => AnnouncedFirst
  BY Zenon DEF IInv
<1>2. QED BY <1>1, Invariant, PTL

\* If ht_init is called once, the id of a klass is its place in the register as
\* long as the library is initialized.
THEOREM IdIsPlaceTheorem ==
  ASSUME OneByOne, MaxInits = 1
  PROVE  Spec => []IdIsPlace
<1>1. Init => IInv /\ OnceInv
  BY InitInv, Zenon
<1>2. IInv /\ OnceInv /\ [Next]_vars => IInv' /\ OnceInv'
  BY InvStep, OnceStep, Zenon
<1>3. OnceInv => IdIsPlace
  BY Zenon DEF OnceInv, IdIsPlace
<1>4. QED BY <1>1, <1>2, <1>3, PTL DEF Spec

=============================================================================
