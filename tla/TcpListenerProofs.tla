------------------------- MODULE TcpListenerProofs -------------------------
(***************************************************************************)
(* Proofs about TcpListener, for any number of threads and clients, events *)
(* of any length and every buffer size: what is written is what was        *)
(* accepted, in order, and every client gets a prefix of it behind the     *)
(* metadata.                                                               *)
(***************************************************************************)
EXTENDS TcpListener, ListenerBufferProofs

\* The bytes of an event, and the metadata.
LEMMA BytesType ==
  ASSUME NEW e \in Events
  PROVE  /\ BytesOf(e) \in Seq(Byte) /\ Len(BytesOf(e)) = Length[e]
         /\ Len(BytesOf(e)) >= 1 /\ BytesOf(e)[1][2] = 1
<1>1. Length[e] \in Nat /\ Length[e] >= 1
  BY TcpListenerAssumption
<1>2. \A k \in 1..Length[e] : <<e, k>> \in Byte
  BY <1>1 DEF Byte
<1>3. BytesOf(e) \in Seq(Byte) /\ Len(BytesOf(e)) = Length[e]
  BY <1>1, <1>2 DEF BytesOf
<1>4. BytesOf(e)[1] = <<e, 1>>
  BY <1>1 DEF BytesOf
<1>5. QED BY <1>1, <1>3, <1>4

LEMMA MetaType ==
  /\ MetaBytes \in Seq(Byte) /\ Len(MetaBytes) = MetaPieces
  /\ MetaPieces \in Nat /\ MetaPieces >= 1
  /\ \A k \in 1..MetaPieces : MetaBytes[k] \in Byte
<1>1. MetaPieces \in Nat /\ MetaPieces >= 1
  BY TcpListenerAssumption
<1>2. \A k \in 1..MetaPieces : <<Meta, k>> \in Byte
  BY <1>1 DEF Byte
<1>3. QED BY <1>1, <1>2 DEF MetaBytes

\* The bag without its n-th client.
LEMMA RemoveFacts ==
  ASSUME NEW S, NEW s \in Seq(S), NEW n \in 1..Len(s)
  PROVE  /\ RemoveNth(s, n) \in Seq(S) /\ Len(RemoveNth(s, n)) = Len(s) - 1
         /\ DOMAIN RemoveNth(s, n) = 1..(Len(s) - 1)
         /\ \A k \in 1..(Len(s) - 1) :
              RemoveNth(s, n)[k] = IF k = n THEN s[Len(s)] ELSE s[k]
<1>1. Len(s) \in Nat /\ Len(s) >= 1 /\ \A k \in 1..Len(s) : s[k] \in S
  BY SeqFacts
<1>2. DOMAIN SubSeq(s, 1, Len(s) - 1) = 1..(Len(s) - 1)
  OBVIOUS
<1>3. RemoveNth(s, n) = [k \in 1..(Len(s) - 1) |-> IF k = n THEN s[Len(s)] ELSE s[k]]
  BY <1>2, Zenon DEF RemoveNth
<1>4. QED BY <1>1, <1>3

\* It is a bag without duplicates if the other one is, and its clients from place n
\* on had places behind n.
Places(s, n, r) ==
  /\ \A p, q \in DOMAIN r : r[p] = r[q] => p = q
  /\ \A p \in DOMAIN r : \E q \in DOMAIN s :
       /\ q # n /\ s[q] # s[n] /\ r[p] = s[q]
       /\ p < n => q = p
       /\ p >= n => q > n

LEMMA RemovedPlaces ==
  ASSUME NEW S, NEW s \in Seq(S), NEW n \in 1..Len(s),
         \A p, q \in DOMAIN s : s[p] = s[q] => p = q
  PROVE  Places(s, n, RemoveNth(s, n))
<1> DEFINE r == RemoveNth(s, n)
           m == Len(s)
<1>1. /\ m \in Nat /\ n \in 1..m /\ DOMAIN s = 1..m
      /\ DOMAIN r = 1..(m - 1)
      /\ \A k \in 1..(m - 1) : r[k] = IF k = n THEN s[m] ELSE s[k]
  <2>1. m \in Nat /\ n \in 1..m /\ DOMAIN s = 1..m
    BY SeqFacts, Zenon
  <2>2. /\ DOMAIN r = 1..(m - 1)
        /\ \A k \in 1..(m - 1) : r[k] = IF k = n THEN s[m] ELSE s[k]
    BY RemoveFacts, ZenonT(60)
  <2>3. QED BY <2>1, <2>2, Zenon
<1>0. ASSUME NEW p \in 1..m, NEW q \in 1..m, s[p] = s[q] PROVE p = q
  <2>1. p \in DOMAIN s /\ q \in DOMAIN s
    BY <1>1, Zenon
  <2>2. QED BY <1>0, <2>1, Zenon
<1> HIDE DEF r, m
<1>2. ASSUME NEW p \in 1..(m - 1) PROVE p \in 1..m /\ p < m /\ p # m /\ m \in 1..m
  BY <1>1
<1>3. ASSUME NEW p \in 1..(m - 1), NEW q \in 1..(m - 1), r[p] = r[q] PROVE p = q
  <2>1. /\ r[p] = IF p = n THEN s[m] ELSE s[p]
        /\ r[q] = IF q = n THEN s[m] ELSE s[q]
    BY <1>1, Zenon
  <2>2. QED BY <1>0, <1>1, <1>2, <1>3, <2>1, Zenon
<1>4. ASSUME NEW p \in 1..(m - 1)
      PROVE  \E q \in 1..m : /\ q # n /\ s[q] # s[n] /\ r[p] = s[q]
                             /\ p < n => q = p
                             /\ p >= n => q > n
  <2>1. CASE p = n
    <3>1. m # n /\ m > n /\ ~(p < n) /\ m \in 1..m
      BY <1>1, <1>2, <2>1
    <3>2. r[p] = s[m]
      BY <1>1, <2>1, Zenon
    <3>3. s[m] # s[n]
      BY <1>0, <1>1, <3>1, Zenon
    <3>4. QED BY <3>1, <3>2, <3>3, Zenon
  <2>2. CASE p # n
    <3>1. p \in 1..m /\ (p >= n => p > n)
      BY <1>1, <1>2, <2>2
    <3>2. r[p] = s[p]
      BY <1>1, <2>2, Zenon
    <3>3. s[p] # s[n]
      BY <1>0, <1>1, <2>2, <3>1, Zenon
    <3>4. QED BY <2>2, <3>1, <3>2, <3>3, Zenon
  <2>3. QED BY <2>1, <2>2, Zenon
<1>5. QED BY <1>1, <1>3, <1>4, Zenon DEF r, Places

\* The bag with one more client.
Added(s, x, r) ==
  /\ \A p \in DOMAIN r : (p \in DOMAIN s /\ r[p] = s[p]) \/ (p = Len(s) + 1 /\ r[p] = x)
  /\ (\A p, q \in DOMAIN s : s[p] = s[q] => p = q) /\ (\A p \in DOMAIN s : s[p] # x)
       => \A p, q \in DOMAIN r : r[p] = r[q] => p = q

LEMMA AddedPlaces ==
  ASSUME NEW S, NEW s \in Seq(S), NEW x \in S
  PROVE  Added(s, x, Append(s, x))
<1> DEFINE r == Append(s, x)
           m == Len(s)
<1>1. /\ m \in Nat /\ DOMAIN s = 1..m /\ r \in Seq(S)
      /\ DOMAIN r = 1..(m + 1) /\ r[m + 1] = x
      /\ \A k \in 1..m : r[k] = s[k]
  OBVIOUS
<1> HIDE DEF r, m
<1>2. ASSUME NEW p \in 1..(m + 1)
      PROVE  (p \in 1..m /\ r[p] = s[p]) \/ (p = m + 1 /\ r[p] = x)
  <2>1. CASE p \in 1..m
    BY <1>1, <2>1, Zenon
  <2>2. CASE p = m + 1
    BY <1>1, <2>2, Zenon
  <2>3. QED BY <1>1, <2>1, <2>2
<1>3. \A p \in DOMAIN r : (p \in DOMAIN s /\ r[p] = s[p]) \/ (p = m + 1 /\ r[p] = x)
  BY <1>1, <1>2, Zenon
<1>4. QED BY <1>1, <1>3, Zenon DEF r, m, Added

\* The iteration of a process function that Copy makes, ...
StepOf(t) ==
  CASE MaxSize = 0 -> BypassStep(buf, rest[t])
    [] MaxSize > 0 /\ event[t] \in Raw -> UnserializedStep(MaxSize, buf, rest[t], Len(rest[t]))
    [] OTHER -> SerializedStep(MaxSize, buf, rest[t])

\* ... which is sound: an event that is not serialized fits into the buffer.
LEMMA CopySound ==
  ASSUME TypeOK, RestInv, NEW t \in Threads, Copy(t)
  PROVE  /\ StepSound(Byte, MaxSize, buf, rest[t], StepOf(t))
         /\ event[t] \in Raw => StepOf(t).rest = << >>
<1>1. /\ buf \in Seq(Byte) /\ rest[t] \in Seq(Byte) /\ Len(buf) <= MaxSize
      /\ MaxSize \in Nat
      /\ event[t] \in Raw => Len(rest[t]) <= MaxSize
  BY TcpListenerAssumption, Zenon DEF TypeOK, RestInv, Actors
<1>2. CASE MaxSize = 0
  <2>1. StepOf(t) = BypassStep(buf, rest[t])
    BY <1>2 DEF StepOf
  <2>2. buf = << >>
    BY <1>1, <1>2, EmptyFacts
  <2>3. StepSound(Byte, MaxSize, buf, rest[t], BypassStep(buf, rest[t]))
    BY <1>1, <1>2, <2>2, BypassStepSound, Zenon
  <2>4. QED BY <2>1, <2>3 DEF BypassStep
<1>3. CASE MaxSize > 0 /\ event[t] \in Raw
  <2>1. StepOf(t) = UnserializedStep(MaxSize, buf, rest[t], Len(rest[t]))
    BY <1>1, <1>3 DEF StepOf
  <2>2. Len(rest[t]) \in 0..Len(rest[t])
    BY <1>1, SeqFacts
  <2>3. StepSound(Byte, MaxSize, buf, rest[t], StepOf(t))
    BY <1>1, <1>3, <2>1, <2>2, UnserializedStepSound, Zenon
  <2>4. StepOf(t).rest = Dropped(rest[t], Len(rest[t]))
    BY <2>1 DEF UnserializedStep
  <2>5. Dropped(rest[t], Len(rest[t])) = << >>
    <3> DEFINE d == Dropped(rest[t], Len(rest[t]))
    <3>1. d \in Seq(Byte) /\ Len(d) = Len(rest[t]) - Len(rest[t])
      BY <1>1, <2>2, SplitAt, Zenon
    <3> HIDE DEF d
    <3>2. Len(d) = 0
      BY <1>1, <3>1, SeqFacts
    <3>3. d = << >>
      BY <3>1, <3>2
    <3>4. QED BY <3>3, Zenon DEF d
  <2>6. QED BY <2>3, <2>4, <2>5, Zenon
<1>4. CASE MaxSize > 0 /\ event[t] \notin Raw
  <2>1. StepOf(t) = SerializedStep(MaxSize, buf, rest[t])
    BY <1>1, <1>4 DEF StepOf
  <2>2. QED BY <1>1, <1>4, <2>1, SerializedStepSound, Zenon
<1>5. QED BY <1>1, <1>2, <1>3, <1>4

\* Copy in terms of its iteration.
CopyIs(t, step) ==
  /\ pc[t] = "copy" /\ rest[t] # << >>
  /\ step.out \in Seq(Byte) /\ step.buf \in Seq(Byte) /\ step.rest \in Seq(Byte)
  /\ Len(step.buf) <= MaxSize
  /\ Cat(step.out, Cat(step.buf, step.rest)) = Cat(buf, rest[t])
  /\ event[t] \in Raw => step.rest = << >>
  /\ buf' = step.buf
  /\ rest' = [rest EXCEPT ![t] = step.rest]
  /\ step.out = << >> => UNCHANGED <<pc, out, after>>
  /\ step.out # << >> => StartWrite(t, step.out, "copy")
  /\ UNCHANGED <<server, running, mutexes, flushed, event, accepting, clients, used, log>>

LEMMA CopyFacts ==
  ASSUME TypeOK, RestInv, NEW t \in Threads, Copy(t)
  PROVE  CopyIs(t, StepOf(t))
<1>1. /\ StepSound(Byte, MaxSize, buf, rest[t], StepOf(t))
      /\ event[t] \in Raw => StepOf(t).rest = << >>
  BY CopySound, Zenon
<1>2. /\ pc[t] = "copy" /\ rest[t] # << >>
      /\ buf' = StepOf(t).buf
      /\ rest' = [rest EXCEPT ![t] = StepOf(t).rest]
      /\ IF StepOf(t).out = << >> THEN UNCHANGED <<pc, out, after>>
                                  ELSE StartWrite(t, StepOf(t).out, "copy")
      /\ UNCHANGED <<server, running, mutexes, flushed, event, accepting, clients, used, log>>
  BY Zenon DEF Copy, StepOf
<1>3. QED BY <1>1, <1>2, Zenon DEF CopyIs, StepSound

-----------------------------------------------------------------------------
(***************************************************************************)
(* Types, mutexes and the bytes of the running call.                       *)
(***************************************************************************)

\* A write.
LEMMA TypeWrite ==
  ASSUME TypeOK, CallInv, NEW a \in Actors, Write(a)
  PROVE  TypeOK'
<1> USE DEF TypeOK, accepting, clients, mutexes, listener
<1>1. CASE WriteBegin(a)
  <2>1. wire' \in Seq(Byte)
    BY <1>1, CatFacts, Zenon DEF WriteBegin
  <2>2. QED BY <1>1, <2>1, SMTT(60) DEF WriteBegin, PushPCs
<1>2. ASSUME Sending(a) PROVE bag[index] \in Clients /\ out[a] \in Seq(Byte)
  BY <1>2, SeqFacts DEF Sending
<1>3. ASSUME Sending(a), Sent(bag[index], out[a])
      PROVE  received' \in [Clients -> Seq(Byte)] /\ broken' \subseteq Clients
  BY <1>2, <1>3, CatFacts, Zenon DEF Sent
<1>4. ASSUME Sending(a), Breaks(bag[index], out[a])
      PROVE  received' \in [Clients -> Seq(Byte)] /\ broken' \subseteq Clients
  <2>1. PICK n \in 0..(Len(out[a]) - 1) :
          received' = [received EXCEPT ![bag[index]] = @ \o Taken(out[a], n)]
    BY <1>4, Zenon DEF Breaks
  <2>2. Taken(out[a], n) \in Seq(Byte)
    BY <1>2, <1>4, SeqFacts, SplitAt
  <2>3. QED BY <1>2, <1>4, <2>1, <2>2, CatFacts, Zenon DEF Breaks
<1>5. CASE WriteClient(a)
  <2>1. received' \in [Clients -> Seq(Byte)] /\ broken' \subseteq Clients
    BY <1>3, <1>5, Zenon DEF WriteClient, Broken
  <2>2. index' \in Nat \ {0}
    BY <1>5 DEF WriteClient
  <2>3. QED BY <1>5, <2>1, <2>2, Zenon DEF WriteClient
<1>6. CASE DropClient(a)
  <2>1. received' \in [Clients -> Seq(Byte)] /\ broken' \subseteq Clients
    BY <1>4, <1>6, Zenon DEF DropClient, Failing, Broken
  <2>2. bag' \in Seq(Clients)
    BY <1>6, RemoveFacts DEF DropClient, Failing, Sending
  <2>3. QED BY <1>6, <2>1, <2>2, Zenon DEF DropClient, Failing
<1>7. CASE WriteEnd(a)
  <2>1. after[a] \in PushPCs \cup StopPCs
    BY Zenon DEF PushPCs, StopPCs
  <2>2. QED BY <1>7, <2>1, EmptyFacts, Zenon DEF WriteEnd
<1>8. QED BY <1>1, <1>5, <1>6, <1>7, Zenon DEF Write

\* The metadata.
LEMMA TypeMetadata ==
  ASSUME TypeOK, BagInv, PushMetadata
  PROVE  TypeOK'
<1> USE DEF TypeOK, accepting, clients, mutexes, listener
<1> DEFINE bytes == <<MetaBytes[pieces + 1]>>
<1>1. fresh \in Clients /\ pieces < MetaPieces /\ pieces \in Nat /\ MetaPieces \in Nat
  BY TcpListenerAssumption DEF PushMetadata, BagInv
<1>2. MetaBytes[pieces + 1] \in Byte
  BY <1>1, MetaType
<1>3. bytes \in Seq(Byte) /\ Len(bytes) = 1
  BY <1>2
<1>4. Sent(fresh, bytes) \/ Breaks(fresh, bytes) \/ Broken(fresh, bytes)
  BY Zenon DEF PushMetadata
<1> HIDE DEF bytes
<1>5. received' \in [Clients -> Seq(Byte)] /\ broken' \subseteq Clients
  <2>1. CASE Sent(fresh, bytes)
    BY <1>1, <1>3, <2>1, CatFacts, Zenon DEF Sent
  <2>2. CASE Breaks(fresh, bytes)
    <3>1. PICK n \in 0..(Len(bytes) - 1) :
            received' = [received EXCEPT ![fresh] = @ \o Taken(bytes, n)]
      BY <2>2, Zenon DEF Breaks
    <3>2. Taken(bytes, n) \in Seq(Byte)
      BY <1>3, SplitAt
    <3>3. QED BY <1>1, <2>2, <3>1, <3>2, CatFacts, Zenon DEF Breaks
  <2>3. CASE Broken(fresh, bytes)
    BY <2>3, Zenon DEF Broken
  <2>4. QED BY <1>4, <2>1, <2>2, <2>3, Zenon
<1>6. pieces' \in 0..MetaPieces
  BY <1>1 DEF PushMetadata
<1>7. apc' \in AcceptPCs
  BY Zenon DEF PushMetadata, AcceptPCs
<1>8. QED BY <1>5, <1>6, <1>7, Zenon DEF PushMetadata

\* The accept thread adds a client.
LEMMA TypeAdd ==
  ASSUME TypeOK, BagInv, AddClient
  PROVE  TypeOK'
<1> USE DEF TypeOK, accepting, clients, mutexes, listener
<1>1. fresh \in Clients /\ Len(wire) \in Nat
  BY SeqFacts, Zenon DEF AddClient, Adding, BagInv
<1>2. bag' \in Seq(Clients)
  BY <1>1 DEF AddClient, Adding
<1>3. amid' \subseteq Clients
  BY <1>1, Zenon DEF AddClient, Adding
<1>4. QED BY <1>1, <1>2, <1>3, Zenon DEF AddClient, Adding, AcceptPCs

\* A thread pushes.
LEMMA TypePush ==
  ASSUME TypeOK, CallInv, RestInv, NEW t \in Threads,
         Push(t) \/ \E e \in Events : Callback(t, e)
  PROVE  TypeOK'
<1> USE DEF TypeOK, accepting, clients, mutexes, listener
<1>0. t \in Actors
  BY Zenon DEF Actors
<1>1. CASE \E e \in Events : Callback(t, e)
  <2>1. PICK e \in Events : Callback(t, e)
    BY <1>1, Zenon
  <2>2. event' \in [Actors -> Events \cup {NoEvent}]
    BY <1>0, <2>1, Zenon DEF Callback
  <2>3. pc' \in [Actors -> PushPCs \cup StopPCs]
    BY <1>0, <2>1, Zenon DEF Callback, PushPCs
  <2>4. QED BY <2>1, <2>2, <2>3, Zenon DEF Callback
<1>2. CASE Lock(t)
  <2>1. BytesOf(event[t]) \in Seq(Byte)
    BY <1>2, BytesType, Zenon DEF Lock, RestInv
  <2>2. log' \in Seq(Byte)
    BY <1>2, <2>1, CatFacts, Zenon DEF Lock
  <2>3. QED BY <1>0, <1>2, <2>1, <2>2, Zenon DEF Lock, PushPCs
<1>3. CASE LockStopped(t)
  BY <1>0, <1>3, Zenon DEF LockStopped, PushPCs
<1>4. CASE Copy(t)
  <2>1. CopyIs(t, StepOf(t))
    BY <1>4, CopyFacts, Zenon
  <2> DEFINE step == StepOf(t)
  <2> HIDE DEF step
  <2>2. CopyIs(t, step)
    BY <2>1, Zenon DEF step
  <2>3. CASE step.out = << >>
    BY <1>0, <2>2, <2>3, Zenon DEF CopyIs
  <2>4. CASE step.out # << >>
    BY <1>0, <2>2, <2>4, Zenon DEF CopyIs, StartWrite, PushPCs
  <2>5. QED BY <2>3, <2>4, Zenon
<1>5. CASE FlushRest(t)
  BY <1>0, <1>5, EmptyFacts, Zenon DEF FlushRest, StartWrite, PushPCs
<1>6. CASE NoFlush(t)
  BY <1>0, <1>6, Zenon DEF NoFlush, PushPCs
<1>7. CASE Unlock(t)
  BY <1>0, <1>7, Zenon DEF Unlock, PushPCs
<1>8. CASE Write(t)
  BY <1>0, <1>8, TypeWrite, Zenon
<1>9. QED BY <1>1, <1>2, <1>3, <1>4, <1>5, <1>6, <1>7, <1>8, Zenon DEF Push

\* TypeOK is preserved.
LEMMA TypeStep ==
  ASSUME TypeOK, CallInv, RestInv, BagInv, Next
  PROVE  TypeOK'
<1> USE DEF TypeOK, accepting, clients, mutexes, listener
<1>0. Stopper \in Actors
  BY Zenon DEF Actors
<1>1. CASE Register
  BY <1>1, Zenon DEF Register, Registered, RegisterFails, StartFails, Create, AcceptPCs
<1>2. CASE Accepting
  <2>1. CASE \E c \in Clients : AcceptClient(c)
    BY <2>1, MetaType, SMTT(60) DEF AcceptClient, AcceptPCs
  <2>2. CASE AcceptFails \/ Connected
    BY <2>2, Zenon DEF AcceptFails, Connected, AcceptPCs
  <2>3. QED BY <1>2, <2>1, <2>2, TypeMetadata, TypeAdd, Zenon DEF Accepting
<1>3. CASE Stopping
  <2>1. CASE Stop
    BY <1>0, <2>1, EmptyFacts, Zenon DEF Stop, StartWrite, PushPCs
  <2>2. CASE StopNotRunning \/ StopShut \/ StopJoin
    BY <1>0, <2>2, ZenonT(60) DEF StopNotRunning, StopShut, StopJoin, StopPCs
  <2>3. CASE StopClear
    BY <1>0, <2>3, EmptyFacts, Zenon DEF StopClear, StopPCs
  <2>4. CASE StopRelease
    BY <1>0, <2>4, Zenon DEF StopRelease, StopPCs
  <2>5. QED BY <1>0, <1>3, <2>1, <2>2, <2>3, <2>4, TypeWrite, Zenon DEF Stopping
<1>4. CASE Destroy
  BY <1>4, Zenon DEF Destroy
<1>5. QED BY <1>1, <1>2, <1>3, <1>4, TypePush, Zenon DEF Next

\* Steps that leave the threads and the bytes of the running call alone.
LEMMA Elsewhere ==
  ASSUME Register \/ Accepting \/ Destroy
  PROVE  UNCHANGED <<mutexes, listener, pc, event, rest, out, after, log, wire, index>>
<1> USE DEF accepting, clients, mutexes, listener
<1>1. CASE Register
  BY <1>1, Zenon DEF Register, Registered, RegisterFails, StartFails, Create
<1>2. CASE Accepting
  BY <1>2, Zenon DEF Accepting, AcceptClient, AcceptFails, PushMetadata, Connected, AddClient, Adding
<1>3. CASE Destroy
  BY <1>3, Zenon DEF Destroy
<1>4. QED BY <1>1, <1>2, <1>3, Zenon

\* Steps that are part of the loop over the clients.
LEMMA Looping ==
  ASSUME NEW a \in Actors, WriteClient(a) \/ DropClient(a)
  PROVE  UNCHANGED <<mutexes, listener, pc, event, rest, out, after, log, wire,
                     accepting, start, amid>>
BY Zenon DEF WriteClient, DropClient, Failing

\* Steps of the Stopper that follow its write.
LEMMA StopMoves ==
  ASSUME TypeOK, CallInv, StopNotRunning \/ StopClear \/ StopShut \/ StopJoin \/ StopRelease
  PROVE  /\ pc[Stopper] \in {"clear", "shut", "join", "release"}
         /\ \E p \in {"shut", "join", "release", "stopped"} : pc' = [pc EXCEPT ![Stopper] = p]
         /\ \A t \in Threads : pc[t] = "idle"
         /\ pushMtx = Nobody /\ pushMtx' = Nobody
         /\ UNCHANGED <<clientMtx, listener, event, rest, out, after, log, wire,
                        accepting, index, broken, received, start, amid>>
<1> USE DEF accepting, clients, mutexes, listener
<1>1. /\ pc[Stopper] \in {"clear", "shut", "join", "release"}
      /\ \E p \in {"shut", "join", "release", "stopped"} : pc' = [pc EXCEPT ![Stopper] = p]
      /\ pushMtx' \in {pushMtx, Nobody}
      /\ UNCHANGED <<clientMtx, listener, event, rest, out, after, log, wire,
                     accepting, index, broken, received, start, amid>>
  BY Zenon DEF StopNotRunning, StopClear, StopShut, StopJoin, StopRelease
<1>2. \A t \in Threads : pc[t] = "idle"
  BY <1>1, Zenon DEF CallInv
<1>3. pushMtx = Nobody
  BY <1>2, Zenon DEF CallInv, TypeOK
<1>4. QED BY <1>1, <1>2, <1>3, Zenon

\* CallInv is preserved.
LEMMA CallStep ==
  ASSUME TypeOK, CallInv, Next
  PROVE  CallInv'
<1> USE TcpListenerAssumption DEF TypeOK, CallInv, Actors, mutexes
<1>1. CASE UNCHANGED <<pc, mutexes, after>>
  BY <1>1, Zenon
<1>2. ASSUME NEW a \in Actors, WriteBegin(a) PROVE CallInv'
  BY <1>2, ZenonT(60) DEF WriteBegin, PushPCs, StopPCs
<1>3. ASSUME NEW a \in Actors, WriteEnd(a) PROVE CallInv'
  BY <1>3, ZenonT(60) DEF WriteEnd, PushPCs, StopPCs
<1>4. ASSUME NEW a \in Actors, Write(a) PROVE CallInv'
  BY <1>1, <1>2, <1>3, <1>4, Looping, Zenon DEF Write
<1>5. ASSUME NEW t \in Threads, NEW e \in Events, Callback(t, e) PROVE CallInv'
  BY <1>5, SMTT(60) DEF Callback, PushPCs, StopPCs
<1>6. ASSUME NEW t \in Threads, Push(t) PROVE CallInv'
  <2>1. CASE Lock(t)
    BY <2>1, SMTT(60) DEF Lock, PushPCs, StopPCs
  <2>2. CASE LockStopped(t)
    BY <2>2, Zenon DEF LockStopped, PushPCs, StopPCs
  <2>3. CASE Copy(t)
    <3>1. /\ pc[t] = "copy"
          /\ \/ UNCHANGED <<pc, out, after>>
             \/ \E o : StartWrite(t, o, "copy")
          /\ UNCHANGED mutexes
      BY <2>3, Zenon DEF Copy
    <3>2. ASSUME NEW o, StartWrite(t, o, "copy") PROVE CallInv'
      BY <3>1, <3>2, Zenon DEF StartWrite, PushPCs, StopPCs
    <3>3. QED BY <1>1, <3>1, <3>2, Zenon
  <2>4. CASE FlushRest(t)
    BY <2>4, Zenon DEF FlushRest, StartWrite, PushPCs, StopPCs
  <2>5. CASE NoFlush(t)
    BY <2>5, ZenonT(60) DEF NoFlush, PushPCs, StopPCs
  <2>6. CASE Unlock(t)
    BY <2>6, SMTT(60) DEF Unlock, PushPCs, StopPCs
  <2>7. QED BY <1>4, <1>6, <2>1, <2>2, <2>3, <2>4, <2>5, <2>6, Zenon DEF Push
<1>7. CASE Stopping
  <2>1. CASE Stop
    BY <2>1, ZenonT(60) DEF Stop, MayStop, StartWrite, PushPCs, StopPCs
  <2>2. CASE StopNotRunning \/ StopClear \/ StopShut \/ StopJoin \/ StopRelease
    BY <2>2, StopMoves, ZenonT(60) DEF PushPCs, StopPCs
  <2>3. QED BY <1>4, <1>7, <2>1, <2>2, Zenon DEF Stopping
<1>8. QED BY <1>1, <1>5, <1>6, <1>7, Elsewhere, Zenon DEF Next

\* RestInv is preserved.
LEMMA RestStep ==
  ASSUME TypeOK, CallInv, RestInv, Next
  PROVE  RestInv'
<1> USE TcpListenerAssumption DEF TypeOK, CallInv, RestInv, Actors, mutexes, listener
<1>1. CASE UNCHANGED <<pc, mutexes, listener, event, rest, after>>
  BY <1>1, Zenon
<1>2. ASSUME NEW a \in Actors, WriteBegin(a) PROVE RestInv'
  BY <1>2, Zenon DEF WriteBegin
<1>3. ASSUME NEW a \in Actors, WriteEnd(a) PROVE RestInv'
  BY <1>3, Zenon DEF WriteEnd
<1>4. ASSUME NEW a \in Actors, Write(a) PROVE RestInv'
  BY <1>1, <1>2, <1>3, <1>4, Looping, ZenonT(60) DEF Write
<1>5. ASSUME NEW t \in Threads, NEW e \in Events, Callback(t, e) PROVE RestInv'
  <2>1. rest[t] = << >> /\ Len(rest[t]) = 0
    BY <1>5, EmptyFacts, Zenon DEF Callback
  <2>2. QED BY <1>5, <2>1, SMTT(60) DEF Callback
<1>6. ASSUME NEW t \in Threads, Push(t) PROVE RestInv'
  <2>1. CASE Lock(t)
    <3>1. event[t] \in Events /\ (event[t] \in Raw => Len(BytesOf(event[t])) <= MaxSize)
      BY <2>1, BytesType, SMTT(60) DEF Lock
    <3>2. QED BY <2>1, <3>1, ZenonT(60) DEF Lock
  <2>2. CASE LockStopped(t)
    BY <2>2, Zenon DEF LockStopped
  <2>3. CASE Copy(t)
    <3> DEFINE step == StepOf(t)
    <3>1. CopyIs(t, step)
      BY <2>3, CopyFacts, Zenon
    <3> HIDE DEF step
    <3>2. pushMtx = t /\ Len(<< >>) <= MaxSize
      BY <3>1, EmptyFacts DEF CopyIs
    <3>3. CASE step.out = << >>
      BY <3>1, <3>2, <3>3, Zenon DEF CopyIs
    <3>4. CASE step.out # << >>
      BY <3>1, <3>2, <3>4, ZenonT(60) DEF CopyIs, StartWrite
    <3>5. QED BY <3>3, <3>4, Zenon
  <2>4. CASE FlushRest(t)
    <3>1. /\ pc[t] = "copy" /\ rest[t] = << >> /\ pc' = [pc EXCEPT ![t] = "write"]
          /\ after' = [after EXCEPT ![t] = "unlock"] /\ buf' = << >>
          /\ UNCHANGED <<rest, event, pushMtx>>
      BY <2>4, Zenon DEF FlushRest, StartWrite
    <3>2. Len(buf') <= MaxSize
      BY <3>1, EmptyFacts
    <3>3. QED BY <3>1, <3>2, Zenon
  <2>5. CASE NoFlush(t)
    BY <2>5, Zenon DEF NoFlush
  <2>6. CASE Unlock(t)
    BY <2>6, ZenonT(60) DEF Unlock
  <2>7. QED BY <1>4, <1>6, <2>1, <2>2, <2>3, <2>4, <2>5, <2>6, Zenon DEF Push
<1>7. CASE Stopping
  <2>1. CASE Stop
    BY <2>1, EmptyFacts DEF Stop, MayStop, StartWrite
  <2>2. CASE StopNotRunning \/ StopClear \/ StopShut \/ StopJoin \/ StopRelease
    BY <2>2, StopMoves, ZenonT(60)
  <2>3. QED BY <1>4, <1>7, <2>1, <2>2, Zenon DEF Stopping
<1>8. QED BY <1>1, <1>5, <1>6, <1>7, Elsewhere, Zenon DEF Next

-----------------------------------------------------------------------------
(***************************************************************************)
(* What is written is what was accepted.                                   *)
(***************************************************************************)

\* Unsent, of the state with these values of pc, out, buf and rest.
UnsentOf(p, o, b, r) ==
  LET w == {a \in Actors : p[a] = "write"}
      c == {a \in Actors : r[a] # << >>}
  IN (IF w = {} THEN << >> ELSE o[CHOOSE a \in w : TRUE]) \o b
       \o (IF c = {} THEN << >> ELSE r[CHOOSE a \in c : TRUE])

\* Nobody but a writes or has bytes that are not in the buffer.
Only(p, r, a) == \A x \in Actors : p[x] = "write" \/ r[x] # << >> => x = a

\* The bytes on the way when nobody but a has any.
Flow(p, o, b, r, a) == Cat(Cat(IF p[a] = "write" THEN o[a] ELSE << >>, b), r[a])

LEMMA UnsentIs ==
  ASSUME NEW p, NEW o, NEW b, NEW r, NEW a \in Actors, Only(p, r, a)
  PROVE  UnsentOf(p, o, b, r) = Flow(p, o, b, r, a)
<1> DEFINE w == {x \in Actors : p[x] = "write"}
           c == {x \in Actors : r[x] # << >>}
           first == IF w = {} THEN << >> ELSE o[CHOOSE x \in w : TRUE]
           last == IF c = {} THEN << >> ELSE r[CHOOSE x \in c : TRUE]
<1>1. first = IF p[a] = "write" THEN o[a] ELSE << >>
  <2>1. CASE p[a] = "write"
    <3>1. w = {a}
      BY <2>1, Zenon DEF Only
    <3>2. QED BY <2>1, <3>1
  <2>2. CASE p[a] # "write"
    <3>1. w = {}
      BY <2>2, Zenon DEF Only
    <3>2. QED BY <2>2, <3>1, Zenon
  <2>3. QED BY <2>1, <2>2, Zenon
<1>2. last = r[a]
  <2>1. CASE r[a] # << >>
    <3>1. c = {a}
      BY <2>1, Zenon DEF Only
    <3>2. QED BY <3>1, Zenon
  <2>2. CASE r[a] = << >>
    <3>1. c = {}
      BY <2>2, Zenon DEF Only
    <3>2. QED BY <2>2, <3>1, Zenon
  <2>3. QED BY <2>1, <2>2, Zenon
<1>3. UnsentOf(p, o, b, r) = (first \o b) \o last
  BY Zenon DEF UnsentOf
<1> HIDE DEF first, last
<1>4. QED BY <1>1, <1>2, <1>3, Zenon DEF Flow, Cat

\* Whose bytes are on the way: those of the thread that pushes, or else those of
\* the Stopper.
LEMMA OnlyOne ==
  ASSUME TypeOK, CallInv, RestInv
  PROVE  /\ \A t \in Threads : pushMtx = t => Only(pc, rest, t)
         /\ pushMtx = Nobody => Only(pc, rest, Stopper)
         /\ pushMtx = Nobody /\ pc[Stopper] # "write" => \A a \in Actors : Only(pc, rest, a)
<1>1. /\ pushMtx \in Threads \cup {Nobody} /\ Nobody \notin Actors
      /\ \A x \in Threads : pc[x] = "write" => pushMtx = x
      /\ pc[Stopper] = "write" => \A x \in Threads : pc[x] = "idle"
      /\ \A x \in Actors : rest[x] # << >> => pushMtx = x
  BY TcpListenerAssumption, Zenon DEF TypeOK, CallInv, RestInv, Actors
<1>2. ASSUME NEW t \in Threads, pushMtx = t PROVE Only(pc, rest, t)
  <2>1. pc[Stopper] # "write"
    BY <1>2, Zenon DEF CallInv
  <2>2. QED BY <1>1, <1>2, <2>1, Zenon DEF Actors, Only
<1>3. ASSUME pushMtx = Nobody PROVE \A x \in Threads : pc[x] # "write" /\ rest[x] = << >>
  BY <1>1, <1>3, Zenon DEF Actors
<1>4. ASSUME pushMtx = Nobody PROVE rest[Stopper] = << >>
  BY <1>1, <1>4, Zenon DEF Actors
<1>5. QED BY <1>2, <1>3, <1>4, Zenon DEF Actors, Only

LEMMA WireNow ==
  ASSUME NEW a \in Actors, Only(pc, rest, a)
  PROVE  WireIsLog <=> Cat(wire, Flow(pc, out, buf, rest, a)) = log
<1>1. Unsent = Flow(pc, out, buf, rest, a)
  BY UnsentIs, ZenonT(60) DEF Unsent, UnsentOf
<1>2. QED BY <1>1, Zenon DEF WireIsLog, Cat

LEMMA WireNext ==
  ASSUME NEW a \in Actors, Only(pc', rest', a)
  PROVE  WireIsLog' <=> Cat(wire', Flow(pc', out', buf', rest', a)) = log'
<1>1. UnsentOf(pc', out', buf', rest') = Flow(pc', out', buf', rest', a)
  BY UnsentIs, Zenon
<1>2. Unsent' = UnsentOf(pc', out', buf', rest')
  BY Zenon DEF Unsent, UnsentOf
<1>3. QED BY <1>1, <1>2, Zenon DEF WireIsLog, Cat

\* Steps that do not touch the bytes on the way.
LEMMA WireSame ==
  ASSUME TypeOK, CallInv, RestInv, UNCHANGED <<out, buf, rest, wire, log>>,
         \A a \in Actors : pc'[a] = "write" <=> pc[a] = "write"
  PROVE  WireIsLog' <=> WireIsLog
<1>1. PICK a \in Actors : Only(pc, rest, a)
  BY OnlyOne, Zenon DEF TypeOK, Actors
<1>2. Only(pc', rest', a)
  BY <1>1, Zenon DEF Only
<1>3. Flow(pc', out', buf', rest', a) = Flow(pc, out, buf, rest, a)
  BY Zenon DEF Flow
<1>4. QED BY <1>1, <1>2, <1>3, WireNow, WireNext, Zenon

\* The bytes of the call are accepted.
LEMMA FlowLock ==
  ASSUME NEW w \in Seq(Byte), NEW b \in Seq(Byte), NEW e \in Seq(Byte)
  PROVE  Cat(w, Cat(Cat(<< >>, b), e)) = Cat(Cat(w, Cat(Cat(<< >>, b), << >>)), e)
<1>1. Cat(<< >>, b) = b /\ Cat(b, << >>) = b /\ << >> \in Seq(Byte)
  BY CatEmpty, Zenon
<1>2. Cat(w, Cat(b, e)) = Cat(Cat(w, b), e)
  BY CatAssoc
<1>3. QED BY <1>1, <1>2, Zenon

\* The buffer is handed to the server.
LEMMA FlowFlush ==
  ASSUME NEW b \in Seq(Byte), NEW r \in Seq(Byte)
  PROVE  Cat(Cat(b, << >>), r) = Cat(Cat(<< >>, b), r)
BY CatEmpty, Zenon

\* The server writes.
LEMMA FlowWrite ==
  ASSUME NEW w \in Seq(Byte), NEW o \in Seq(Byte), NEW b \in Seq(Byte), NEW r \in Seq(Byte)
  PROVE  Cat(w, Cat(Cat(o, b), r)) = Cat(Cat(w, o), Cat(Cat(<< >>, b), r))
<1>1. Cat(<< >>, b) = b /\ Cat(b, r) \in Seq(Byte) /\ Cat(o, b) \in Seq(Byte)
  BY CatEmpty, CatType, Zenon
<1>2. Cat(Cat(o, b), r) = Cat(o, Cat(b, r))
  BY CatAssoc
<1>3. Cat(w, Cat(o, Cat(b, r))) = Cat(Cat(w, o), Cat(b, r))
  BY <1>1, CatAssoc
<1>4. QED BY <1>1, <1>2, <1>3, Zenon

\* A write conserves the bytes.
LEMMA WireWrite ==
  ASSUME TypeOK, CallInv, RestInv, WireIsLog, NEW a \in Actors, Write(a)
  PROVE  WireIsLog'
<1> USE DEF accepting, clients, mutexes, listener
<1>1. CASE WriteClient(a) \/ DropClient(a)
  <2>1. UNCHANGED <<pc, out, buf, rest, wire, log>>
    BY <1>1, Looping, Zenon
  <2>2. QED BY <2>1, WireSame, Zenon
<1>2. ASSUME pc[a] \in {"write", "send"} PROVE Only(pc, rest, a)
  BY <1>2, OnlyOne, TcpListenerAssumption, Zenon DEF CallInv, TypeOK, Actors, Only
<1>3. wire \in Seq(Byte) /\ out[a] \in Seq(Byte) /\ buf \in Seq(Byte) /\ rest[a] \in Seq(Byte)
  BY Zenon DEF TypeOK
<1>4. CASE WriteBegin(a)
  <2>1. /\ pc[a] = "write" /\ pc'[a] = "send" /\ Only(pc, rest, a) /\ Only(pc', rest', a)
        /\ wire' = Cat(wire, out[a])
        /\ UNCHANGED <<out, buf, rest, log>>
    BY <1>2, <1>4, Zenon DEF WriteBegin, TypeOK, Only, Cat
  <2>2. Cat(wire, Cat(Cat(out[a], buf), rest[a])) = log
    BY <2>1, WireNow, Zenon DEF Flow
  <2>3. Cat(wire', Cat(Cat(<< >>, buf), rest[a])) = log
    BY <1>3, <2>1, <2>2, FlowWrite
  <2>4. QED BY <2>1, <2>3, WireNext, Zenon DEF Flow
<1>5. CASE WriteEnd(a)
  <2>1. /\ pc[a] = "send" /\ pc'[a] # "write" /\ Only(pc, rest, a) /\ Only(pc', rest', a)
        /\ UNCHANGED <<wire, buf, rest, log>>
    BY <1>2, <1>5, Zenon DEF WriteEnd, TypeOK, Only
  <2>2. QED BY <2>1, WireNow, WireNext, Zenon DEF Flow
<1>6. QED BY <1>1, <1>4, <1>5, Zenon DEF Write

\* WireIsLog is preserved.
LEMMA WireStep ==
  ASSUME TypeOK, CallInv, RestInv, WireIsLog, Next
  PROVE  WireIsLog'
<1> USE DEF accepting, clients, mutexes, listener
<1>1. CASE Register \/ Accepting \/ Destroy
  <2>1. UNCHANGED <<pc, out, buf, rest, wire, log>>
    BY <1>1, Elsewhere, Zenon
  <2>2. QED BY <2>1, WireSame, Zenon
<1>2. ASSUME NEW t \in Threads, Push(t) \/ \E e \in Events : Callback(t, e) PROVE WireIsLog'
  <2>0. t \in Actors
    BY Zenon DEF Actors
  <2>1. /\ wire \in Seq(Byte) /\ buf \in Seq(Byte) /\ rest[t] \in Seq(Byte)
        /\ event[t] \in Events => BytesOf(event[t]) \in Seq(Byte)
    BY <2>0, BytesType, Zenon DEF TypeOK
  <2>2. ASSUME (pc[t] = "lock" /\ pushMtx = Nobody) \/ pc[t] \in {"copy", "unlock"}
        PROVE  Only(pc, rest, t)
    BY <2>0, <2>2, OnlyOne, Zenon DEF CallInv, TypeOK
  <2>3. CASE (\E e \in Events : Callback(t, e)) \/ LockStopped(t)
    <3>1. /\ pc[t] # "write" /\ \E p : p # "write" /\ pc' = [pc EXCEPT ![t] = p]
          /\ UNCHANGED <<out, buf, rest, wire, log>>
      BY <2>3, Zenon DEF Callback, LockStopped
    <3>2. \A a \in Actors : pc'[a] = "write" <=> pc[a] = "write"
      BY <3>1, Zenon DEF TypeOK
    <3>3. QED BY <3>1, <3>2, WireSame, Zenon
  <2>4. CASE Lock(t)
    <3>1. /\ pc[t] = "lock" /\ pc'[t] = "copy" /\ Only(pc, rest, t) /\ Only(pc', rest', t)
          /\ rest[t] = << >> /\ rest'[t] = BytesOf(event[t]) /\ event[t] \in Events
          /\ log' = Cat(log, BytesOf(event[t]))
          /\ UNCHANGED <<wire, buf>>
      BY <2>0, <2>2, <2>4, TcpListenerAssumption, ZenonT(60) DEF Lock, TypeOK, RestInv, Only, Cat
    <3>2. Cat(wire, Cat(Cat(<< >>, buf), << >>)) = log
      BY <2>0, <3>1, WireNow DEF Flow
    <3>3. Cat(wire, Cat(Cat(<< >>, buf), BytesOf(event[t]))) = log'
      BY <2>1, <3>1, <3>2, FlowLock
    <3>4. QED BY <2>0, <3>1, <3>3, WireNext, Zenon DEF Flow
  <2>5. CASE Copy(t)
    <3> DEFINE step == StepOf(t)
    <3>1. CopyIs(t, step)
      BY <2>5, CopyFacts, Zenon
    <3> HIDE DEF step
    <3>2. /\ pc[t] = "copy" /\ UNCHANGED <<wire, log>>
          /\ step.out \in Seq(Byte) /\ step.buf \in Seq(Byte) /\ step.rest \in Seq(Byte)
          /\ Cat(step.out, Cat(step.buf, step.rest)) = Cat(buf, rest[t])
          /\ buf' = step.buf /\ rest' = [rest EXCEPT ![t] = step.rest]
      BY <3>1, Zenon DEF CopyIs
    <3>3. Only(pc, rest, t) /\ Cat(<< >>, buf) = buf
      BY <2>1, <2>2, <3>2, CatEmpty, Zenon
    <3>4. Cat(wire, Cat(buf, rest[t])) = log
      BY <2>0, <3>2, <3>3, WireNow, SMTT(60) DEF Flow
    <3>5. Cat(Cat(step.out, step.buf), step.rest) = Cat(buf, rest[t])
      BY <3>2, CatAssoc
    <3>6. rest'[t] = step.rest
      BY <2>0, <3>2, Zenon DEF TypeOK
    <3>7. Cat(wire', Cat(Cat(step.out, buf'), rest'[t])) = log'
      BY <3>2, <3>4, <3>5, <3>6, Zenon
    <3>8. /\ Only(pc', rest', t)
          /\ step.out = IF pc'[t] = "write" THEN out'[t] ELSE << >>
      <4>1. CASE step.out = << >>
        BY <2>0, <3>1, <3>2, <3>3, <4>1, Zenon DEF CopyIs, Only, TypeOK
      <4>2. CASE step.out # << >>
        BY <2>0, <3>1, <3>2, <3>3, <4>2, Zenon DEF CopyIs, StartWrite, Only, TypeOK
      <4>3. QED BY <4>1, <4>2, Zenon
    <3>9. QED BY <2>0, <3>7, <3>8, WireNext, Zenon DEF Flow
  <2>6. CASE FlushRest(t)
    <3>1. /\ pc[t] = "copy" /\ pc'[t] = "write" /\ Only(pc, rest, t) /\ Only(pc', rest', t)
          /\ out'[t] = buf /\ buf' = << >>
          /\ UNCHANGED <<wire, log, rest>>
      BY <2>0, <2>2, <2>6, Zenon DEF FlushRest, StartWrite, TypeOK, Only
    <3>2. Cat(wire, Cat(Cat(<< >>, buf), rest[t])) = log
      BY <2>0, <3>1, WireNow, Zenon DEF Flow
    <3>3. Cat(wire, Cat(Cat(buf, << >>), rest[t])) = log
      BY <2>1, <3>2, FlowFlush, Zenon
    <3>4. QED BY <2>0, <3>1, <3>3, WireNext, Zenon DEF Flow
  <2>7. CASE NoFlush(t) \/ Unlock(t)
    <3>1. /\ pc[t] # "write" /\ pc'[t] # "write" /\ Only(pc, rest, t) /\ Only(pc', rest', t)
          /\ UNCHANGED <<wire, log, rest, buf>>
      BY <2>0, <2>2, <2>7, Zenon DEF NoFlush, Unlock, TypeOK, Only
    <3>2. QED BY <2>0, <3>1, WireNow, WireNext, Zenon DEF Flow
  <2>8. QED BY <1>2, <2>0, <2>3, <2>4, <2>5, <2>6, <2>7, WireWrite, Zenon DEF Push
<1>3. CASE Stopping
  <2>0. Stopper \in Actors
    BY Zenon DEF Actors
  <2>1. CASE Stop
    <3>1. /\ pc[Stopper] = "idle" /\ pc'[Stopper] = "write"
          /\ Only(pc, rest, Stopper) /\ Only(pc', rest', Stopper)
          /\ out'[Stopper] = buf /\ buf' = << >>
          /\ UNCHANGED <<wire, log, rest>>
          /\ buf \in Seq(Byte) /\ rest[Stopper] \in Seq(Byte)
      BY <2>0, <2>1, OnlyOne, Zenon DEF Stop, MayStop, StartWrite, TypeOK, Only
    <3>2. Cat(wire, Cat(Cat(<< >>, buf), rest[Stopper])) = log
      BY <2>0, <3>1, WireNow, Zenon DEF Flow
    <3>3. Cat(wire, Cat(Cat(buf, << >>), rest[Stopper])) = log
      BY <3>1, <3>2, FlowFlush, Zenon
    <3>4. QED BY <2>0, <3>1, <3>3, WireNext, Zenon DEF Flow
  <2>2. CASE StopNotRunning \/ StopClear \/ StopShut \/ StopJoin \/ StopRelease
    <3>1. /\ pc[Stopper] # "write" /\ pc'[Stopper] # "write"
          /\ Only(pc, rest, Stopper) /\ Only(pc', rest', Stopper)
          /\ UNCHANGED <<wire, log, rest, buf>>
      BY <2>0, <2>2, StopMoves, OnlyOne, Zenon DEF TypeOK, Only
    <3>2. QED BY <2>0, <3>1, WireNow, WireNext, Zenon DEF Flow
  <2>3. QED BY <1>3, <2>0, <2>1, <2>2, WireWrite, Zenon DEF Stopping
<1>4. QED BY <1>1, <1>2, <1>3, Zenon DEF Next

-----------------------------------------------------------------------------
(***************************************************************************)
(* Where events start.                                                     *)
(***************************************************************************)

LEMMA StartsFacts ==
  ASSUME NEW s \in Seq(Byte), NEW t \in Seq(Byte)
  PROVE  /\ Starts(<< >>)
         /\ Starts(s) /\ Starts(t) => Starts(s \o t)
         /\ Starts(s \o << >>) => Starts(s)
<1>1. /\ s \o t \in Seq(Byte) /\ Len(s \o t) = Len(s) + Len(t)
      /\ \A k \in 1..Len(s) : (s \o t)[k] = s[k]
      /\ Len(s) \in Nat /\ Len(t) \in Nat
  BY CatFacts, SeqFacts
<1>2. CASE s = << >>
  BY <1>2 DEF Starts
<1>3. CASE s # << >>
  <2>1. Len(s) >= 1
    BY <1>1, <1>3
  <2>2. (s \o t)[1] = s[1] /\ s \o << >> = s
    BY <1>1, <2>1
  <2>3. QED BY <1>3, <2>2, Zenon DEF Starts
<1>4. QED BY <1>2, <1>3, Zenon

\* WholeInv is preserved.
LEMMA WholeStep ==
  ASSUME TypeOK, CallInv, RestInv, WholeInv, Next
  PROVE  WholeInv'
<1> USE TcpListenerAssumption DEF TypeOK, CallInv, WholeInv, Actors, mutexes, listener
<1>0. Starts(<< >>)
  BY Zenon DEF Starts
<1>1. CASE UNCHANGED <<pc, mutexes, listener, rest, out>>
  BY <1>1, Zenon
<1>2. ASSUME NEW a \in Actors, WriteBegin(a) PROVE WholeInv'
  BY <1>2, ZenonT(60) DEF WriteBegin
<1>3. ASSUME NEW a \in Actors, WriteEnd(a) PROVE WholeInv'
  BY <1>0, <1>3 DEF WriteEnd, RestInv
<1>4. ASSUME NEW a \in Actors, Write(a) PROVE WholeInv'
  BY <1>1, <1>2, <1>3, <1>4, Looping, Zenon DEF Write
<1>5. ASSUME NEW t \in Threads, NEW e \in Events, Callback(t, e) PROVE WholeInv'
  BY <1>5, ZenonT(60) DEF Callback, clients
<1>6. ASSUME NEW t \in Threads, Push(t) PROVE WholeInv'
  <2>1. CASE Lock(t)
    <3>1. BytesOf(event[t]) \in Seq(Byte) /\ Starts(BytesOf(event[t]))
      BY <2>1, BytesType, Zenon DEF Lock, RestInv, Starts
    <3>2. Starts(buf \o BytesOf(event[t]))
      BY <2>1, <3>1, StartsFacts, Zenon DEF Lock
    <3>3. QED BY <2>1, <3>2, Zenon DEF Lock
  <2>2. CASE LockStopped(t)
    BY <2>2, Zenon DEF LockStopped
  <2>3. CASE Copy(t)
    <3> DEFINE step == StepOf(t)
    <3>1. CopyIs(t, step)
      BY <2>3, CopyFacts, Zenon
    <3> HIDE DEF step
    <3>2. pushMtx = t /\ pushMtx' = t /\ pc[Stopper] # "write"
      BY <3>1, Zenon DEF CopyIs
    <3>3. CASE step.out = << >>
      <4>1. step.buf \o step.rest = buf \o rest[t]
        <5>1. Cat(step.buf, step.rest) = Cat(buf, rest[t])
          <6>1. /\ step.buf \in Seq(Byte) /\ step.rest \in Seq(Byte)
                /\ Cat(<< >>, Cat(step.buf, step.rest)) = Cat(buf, rest[t])
            BY <3>1, <3>3, Zenon DEF CopyIs
          <6>2. Cat(step.buf, step.rest) \in Seq(Byte)
            BY <6>1, CatType, Zenon
          <6>3. QED BY <6>1, <6>2, CatEmpty
        <5>2. QED BY <5>1, ZenonT(60) DEF Cat
      <4>2. QED BY <3>1, <3>2, <3>3, <4>1, Zenon DEF CopyIs
    <3>4. CASE step.out # << >>
      BY <3>1, <3>2, <3>4, ZenonT(60) DEF CopyIs, StartWrite
    <3>5. QED BY <3>3, <3>4, Zenon
  <2>4. CASE FlushRest(t)
    BY <1>0, <2>4, Zenon DEF FlushRest, StartWrite
  <2>5. CASE NoFlush(t)
    <3>1. Starts(buf)
      BY <2>5, EmptyFacts, StartsFacts, Zenon DEF NoFlush
    <3>2. QED BY <2>5, <3>1, Zenon DEF NoFlush
  <2>6. CASE Unlock(t)
    BY <2>6 DEF Unlock
  <2>7. QED BY <1>4, <1>6, <2>1, <2>2, <2>3, <2>4, <2>5, <2>6, SMTT(60) DEF Push
<1>7. CASE Stopping
  <2>1. CASE Stop
    BY <1>0, <2>1, Zenon DEF Stop, MayStop, StartWrite
  <2>2. CASE StopNotRunning \/ StopClear \/ StopShut \/ StopJoin \/ StopRelease
    BY <2>2, StopMoves, Zenon
  <2>3. QED BY <1>4, <1>7, <2>1, <2>2, Zenon DEF Stopping
<1>8. QED BY <1>1, <1>5, <1>6, <1>7, Elsewhere, Zenon DEF Next

\* What is written is the beginning of what is accepted.
LEMMA WireBegins ==
  ASSUME TypeOK, CallInv, RestInv, WireIsLog
  PROVE  \E u \in Seq(Byte) : u = Unsent /\ log = wire \o u
<1>1. PICK a \in Actors : Only(pc, rest, a)
  BY OnlyOne, Zenon DEF TypeOK, Actors
<1>2. Unsent = Flow(pc, out, buf, rest, a)
  BY <1>1, UnsentIs, ZenonT(60) DEF Unsent, UnsentOf
<1>3. Flow(pc, out, buf, rest, a) \in Seq(Byte)
  <2>1. /\ (IF pc[a] = "write" THEN out[a] ELSE << >>) \in Seq(Byte)
        /\ buf \in Seq(Byte) /\ rest[a] \in Seq(Byte)
    BY EmptyFacts, Zenon DEF TypeOK
  <2>2. QED BY <2>1, CatType, Zenon DEF Flow
<1>4. QED BY <1>2, <1>3, Zenon DEF WireIsLog

\* When nobody pushes, it is followed by the first byte of an event.
LEMMA WholeUnsent ==
  ASSUME TypeOK, CallInv, RestInv, WholeInv, pushMtx = Nobody
  PROVE  Starts(Unsent)
<1> DEFINE first == IF pc[Stopper] = "write" THEN out[Stopper] ELSE << >>
<1>0. Stopper \in Actors /\ Only(pc, rest, Stopper)
  BY OnlyOne, Zenon DEF Actors
<1>1. Unsent = Flow(pc, out, buf, rest, Stopper)
  BY <1>0, UnsentIs, ZenonT(60) DEF Unsent, UnsentOf
<1>2. rest[Stopper] = << >> /\ buf \in Seq(Byte) /\ first \in Seq(Byte)
  BY <1>0, TcpListenerAssumption, EmptyFacts, Zenon DEF RestInv, TypeOK
<1>3. Starts(first) /\ Starts(buf)
  BY Zenon DEF WholeInv, Starts
<1> HIDE DEF first
<1>4. Starts(first \o buf)
  BY <1>2, <1>3, StartsFacts, Zenon
<1>5. Flow(pc, out, buf, rest, Stopper) = first \o buf
  <2>1. Flow(pc, out, buf, rest, Stopper) = Cat(Cat(first, buf), << >>)
    BY <1>2, Zenon DEF Flow, first
  <2>2. QED BY <1>2, <2>1, CatType, CatEmpty, Zenon DEF Cat
<1>6. QED BY <1>1, <1>4, <1>5, Zenon

\* BoundaryInv is preserved.
LEMMA BoundaryStep ==
  ASSUME TypeOK, CallInv, RestInv, WireIsLog, WholeInv, BoundaryInv, BagInv, Next
  PROVE  BoundaryInv'
<1> USE DEF accepting, clients, mutexes, listener
<1>0. PICK u \in Seq(Byte) : u = Unsent /\ log = wire \o u
  BY WireBegins, ZenonT(60)
<1>1. /\ wire \in Seq(Byte) /\ log \in Seq(Byte) /\ start \in [Clients -> Nat]
      /\ Len(wire) \in Nat /\ Len(log) \in Nat /\ Len(u) \in Nat
      /\ Len(log) = Len(wire) + Len(u)
      /\ \A k \in (Len(wire) + 1)..(Len(wire) + Len(u)) : log[k] = u[k - Len(wire)]
  BY <1>0, CatFacts, SeqFacts, SMTT(60) DEF TypeOK
<1>2. /\ \A c \in Clients : start[c] <= Len(wire)
      /\ \A c \in Clients \ amid : start[c] < Len(log) => log[start[c] + 1][2] = 1
  BY Zenon DEF BoundaryInv
<1>3. CASE UNCHANGED <<start, amid, log, wire>>
  BY <1>2, <1>3, Zenon DEF BoundaryInv
<1>4. ASSUME NEW a \in Actors, Write(a) PROVE BoundaryInv'
  <2>1. CASE WriteBegin(a)
    <3>1. UNCHANGED <<start, amid, log>> /\ wire' = wire \o out[a] /\ out[a] \in Seq(Byte)
      BY <2>1, Zenon DEF WriteBegin, TypeOK
    <3>2. Len(wire') >= Len(wire) /\ Len(wire') \in Nat
      BY <1>1, <3>1, CatFacts, SeqFacts
    <3>3. QED BY <1>1, <1>2, <3>1, <3>2, SMTT(60) DEF BoundaryInv
  <2>2. CASE WriteClient(a) \/ DropClient(a)
    BY <1>3, <2>2, Looping, Zenon
  <2>3. CASE WriteEnd(a)
    BY <1>3, <2>3, Zenon DEF WriteEnd
  <2>4. QED BY <1>4, <2>1, <2>2, <2>3, Zenon DEF Write
<1>5. ASSUME NEW t \in Threads, Lock(t) PROVE BoundaryInv'
  <2> DEFINE b == BytesOf(event[t])
  <2>1. b \in Seq(Byte) /\ Len(b) \in Nat /\ Len(b) >= 1 /\ b[1][2] = 1
    BY <1>5, BytesType, SeqFacts, Zenon DEF Lock, RestInv
  <2>2. UNCHANGED <<start, amid, wire>> /\ log' = log \o b
    BY <1>5, Zenon DEF Lock
  <2> HIDE DEF b
  <2>3. /\ Len(log') = Len(log) + Len(b)
        /\ \A k \in 1..Len(log) : log'[k] = log[k]
        /\ log'[Len(log) + 1] = b[1]
    <3>1. /\ Len(log') = Len(log) + Len(b)
          /\ \A k \in 1..Len(log) : log'[k] = log[k]
          /\ \A k \in (Len(log) + 1)..(Len(log) + Len(b)) : log'[k] = b[k - Len(log)]
      <4>1. log \in Seq(Byte) /\ b \in Seq(Byte)
        BY <1>1, <2>1, Zenon
      <4>2. /\ Len(log \o b) = Len(log) + Len(b)
            /\ \A k \in 1..Len(log) : (log \o b)[k] = log[k]
            /\ \A k \in (Len(log) + 1)..(Len(log) + Len(b)) : (log \o b)[k] = b[k - Len(log)]
        BY <4>1, CatFacts, Zenon
      <4>3. QED BY <2>2, <4>2, Zenon
    <3>2. /\ Len(log) + 1 \in (Len(log) + 1)..(Len(log) + Len(b))
          /\ (Len(log) + 1) - Len(log) = 1
      BY <1>1, <2>1
    <3>3. QED BY <3>1, <3>2, Zenon
  <2>4. ASSUME NEW c \in Clients \ amid, start[c] < Len(log')
        PROVE  log'[start[c] + 1][2] = 1
    <3>1. start[c] \in Nat /\ start[c] <= Len(log)
      BY <1>1, <1>2
    <3>2. CASE start[c] = Len(log)
      BY <2>1, <2>3, <3>2, Zenon
    <3>3. CASE start[c] < Len(log)
      BY <1>1, <1>2, <2>3, <3>1, <3>3, SMTT(60)
    <3>4. QED BY <1>1, <3>1, <3>2, <3>3
  <2>5. QED BY <1>2, <2>2, <2>4, Zenon DEF BoundaryInv
<1>6. CASE AddClient
  <2>1. /\ fresh \in Clients /\ start' = [start EXCEPT ![fresh] = Len(wire)]
        /\ amid \subseteq amid' /\ UNCHANGED <<wire, log>>
    BY <1>6, Zenon DEF AddClient, Adding, BagInv, TypeOK
  <2>2. ASSUME fresh \notin amid', Len(wire) < Len(log) PROVE log[Len(wire) + 1][2] = 1
    <3>1. \A t \in Threads : pc[t] \in {"idle", "lock"}
      BY <1>6, <2>2, Zenon DEF AddClient, Adding
    <3>2. pushMtx = Nobody
      BY <3>1, Zenon DEF CallInv, TypeOK
    <3>3. Starts(u)
      BY <1>0, <3>2, WholeUnsent, Zenon
    <3>4. Len(u) >= 1 /\ log[Len(wire) + 1] = u[1]
      <4>1. /\ Len(u) >= 1 /\ Len(wire) + 1 \in (Len(wire) + 1)..(Len(wire) + Len(u))
            /\ (Len(wire) + 1) - Len(wire) = 1
        BY <1>1, <2>2
      <4>2. QED BY <1>1, <4>1, Zenon
    <3>5. u # << >>
      BY <3>4, EmptyFacts
    <3>6. QED BY <3>3, <3>4, <3>5, Zenon DEF Starts
  <2>3. ASSUME NEW c \in Clients, c # fresh PROVE start'[c] = start[c]
    BY <1>1, <2>1, <2>3, Zenon
  <2>4. start'[fresh] = Len(wire)
    BY <1>1, <2>1, Zenon
  <2>5. \A c \in Clients : start'[c] <= Len(wire)
    BY <1>1, <1>2, <2>3, <2>4
  <2>6. ASSUME NEW c \in Clients \ amid', start'[c] < Len(log) PROVE log[start'[c] + 1][2] = 1
    <3>1. CASE c = fresh
      BY <2>2, <2>4, <2>6, <3>1, Zenon
    <3>2. CASE c # fresh
      <4>1. c \in Clients \ amid /\ start'[c] = start[c]
        BY <2>1, <2>3, <3>2, Zenon
      <4>2. QED BY <1>2, <2>6, <4>1, Zenon
    <3>3. QED BY <3>1, <3>2, Zenon
  <2>7. QED BY <2>1, <2>5, <2>6, Zenon DEF BoundaryInv
<1>7. ASSUME Next, ~AddClient, \A t \in Threads : ~Lock(t), \A a \in Actors : ~Write(a)
      PROVE  UNCHANGED <<start, amid, log, wire>>
  <2>1. CASE Register \/ Destroy
    BY <2>1, Zenon DEF Register, Registered, RegisterFails, StartFails, Create, Destroy
  <2>2. CASE Accepting
    BY <1>7, <2>2, Zenon DEF Accepting, AcceptClient, AcceptFails, PushMetadata, Connected
  <2>3. CASE Stopping
    BY <1>7, <2>3, Zenon DEF Stopping, Actors, Stop, StopNotRunning, StopClear, StopShut, StopJoin,
                      StopRelease
  <2>4. ASSUME NEW t \in Threads, Push(t) \/ \E e \in Events : Callback(t, e)
        PROVE  UNCHANGED <<start, amid, log, wire>>
    <3>1. CASE Copy(t)
      BY <3>1, Zenon DEF Copy
    <3>2. QED BY <1>7, <2>4, <3>1, Zenon
              DEF Push, Actors, LockStopped, FlushRest, NoFlush, Unlock, Callback
  <2>5. QED BY <1>7, <2>1, <2>2, <2>3, <2>4, Zenon DEF Next
<1>8. QED BY <1>3, <1>4, <1>5, <1>6, <1>7, Zenon

-----------------------------------------------------------------------------
(***************************************************************************)
(* What the clients receive.                                               *)
(***************************************************************************)

\* Steps of the listener that have nothing to do with the clients.
Inside ==
  \/ \E t \in Threads :
       \/ Lock(t) \/ LockStopped(t) \/ Copy(t) \/ FlushRest(t) \/ NoFlush(t) \/ Unlock(t)
       \/ \E e \in Events : Callback(t, e)
  \/ Stop \/ StopNotRunning \/ StopShut \/ StopJoin \/ StopRelease

-----------------------------------------------------------------------------
(***************************************************************************)
(* The clients.                                                            *)
(***************************************************************************)

LEMMA InsideSame ==
  ASSUME Inside
  PROVE  UNCHANGED <<clientMtx, accepting, clients>> /\ (server' = "none" => server = "none")
<1> USE DEF accepting, clients, mutexes, listener
<1>1. ASSUME NEW t \in Threads, Copy(t) PROVE UNCHANGED <<server, clientMtx, accepting, clients>>
  BY <1>1, Zenon DEF Copy
<1>2. CASE Stop \/ StopNotRunning \/ StopShut \/ StopJoin \/ StopRelease
  BY <1>2, Zenon DEF Stop, StopNotRunning, StopShut, StopJoin, StopRelease
<1>3. QED BY <1>1, <1>2 DEF Inside, Lock, LockStopped, FlushRest, NoFlush, Unlock, Callback

\* Such a step does not start a write to the clients, nor change what is written.
LEMMA InsideSends ==
  ASSUME TypeOK, CallInv, Inside, NEW a \in Actors, pc'[a] = "send"
  PROVE  pc[a] = "send" /\ out'[a] = out[a]
<1>1. ASSUME NEW x \in Actors, NEW p, p # "send", pc' = [pc EXCEPT ![x] = p],
             pc[x] # "send",
             UNCHANGED out \/ \E o : out' = [out EXCEPT ![x] = o]
      PROVE  pc[a] = "send" /\ out'[a] = out[a]
  BY <1>1, Zenon DEF TypeOK
<1>2. ASSUME NEW t \in Threads, Copy(t) PROVE pc[a] = "send" /\ out'[a] = out[a]
  <2>1. /\ pc[t] = "copy"
        /\ UNCHANGED <<pc, out, after>> \/ \E o : StartWrite(t, o, "copy")
    BY <1>2, Zenon DEF Copy
  <2>2. QED BY <1>1, <2>1, Zenon DEF StartWrite, Actors
<1>3. ASSUME NEW t \in Threads, Lock(t) \/ LockStopped(t) \/ NoFlush(t) \/ Unlock(t)
                                  \/ \E e \in Events : Callback(t, e)
      PROVE  pc[a] = "send" /\ out'[a] = out[a]
  BY <1>1, <1>3, Zenon DEF Actors, Lock, LockStopped, NoFlush, Unlock, Callback
<1>4. ASSUME NEW t \in Threads, FlushRest(t) PROVE pc[a] = "send" /\ out'[a] = out[a]
  BY <1>1, <1>4, Zenon DEF Actors, FlushRest, StartWrite
<1>5. CASE Stop
  BY <1>1, <1>5, Zenon DEF Actors, Stop, MayStop, StartWrite
<1>6. CASE StopNotRunning \/ StopShut \/ StopJoin \/ StopRelease
  BY <1>1, <1>6, Zenon DEF Actors, StopNotRunning, StopShut, StopJoin, StopRelease
<1>7. QED BY <1>2, <1>3, <1>4, <1>5, <1>6, Zenon DEF Inside

\* The steps, sorted by what they do to the clients.
LEMMA ClientSteps ==
  ASSUME Next
  PROVE  \/ Inside \/ Register \/ Destroy \/ AcceptFails \/ Connected
         \/ \E c \in Clients : AcceptClient(c)
         \/ PushMetadata \/ AddClient \/ StopClear
         \/ \E a \in Actors : Write(a)
BY ZenonT(60) DEF Next, Push, Accepting, Stopping, Inside, Actors

\* BagInv is preserved.
LEMMA BagStep ==
  ASSUME TypeOK, CallInv, BagInv, Next
  PROVE  BagInv'
<1> USE TcpListenerAssumption DEF TypeOK, BagInv, accepting, clients, mutexes, listener
<1>0. /\ DOMAIN bag = 1..Len(bag) /\ Len(bag) \in Nat
      /\ \A p \in 1..Len(bag) : bag[p] \in Clients
  BY SeqFacts, Zenon
<1>1. CASE UNCHANGED <<bag, accepting>> /\ (server' = "none" => server = "none")
  BY <1>1, Zenon
<1>2. CASE Inside
  BY <1>1, <1>2, InsideSame, Zenon
<1>3. CASE Register
  BY <1>3, Zenon DEF Register, Registered, RegisterFails, StartFails, Create
<1>4. CASE Destroy \/ AcceptFails \/ Connected
  BY <1>4, ZenonT(60) DEF Destroy, AcceptFails, Connected
<1>5. ASSUME NEW c \in Clients, AcceptClient(c) PROVE BagInv'
  BY <1>0, <1>5, SMTT(60) DEF AcceptClient
<1>6. CASE PushMetadata
  <2>1. apc' = "meta" => pieces' < MetaPieces
    BY <1>6 DEF PushMetadata
  <2>2. QED BY <1>6, <2>1, Zenon DEF PushMetadata
<1>7. CASE AddClient
  <2>1. bag' = Append(bag, fresh) /\ fresh \in Clients /\ fresh' = NoClient /\ apc' = "accept"
        /\ server' = server /\ server # "none" /\ waiting' = waiting
    BY <1>7, ZenonT(60) DEF AddClient, Adding
  <2>2. \A p \in DOMAIN bag : bag[p] # fresh /\ bag[p] # NoClient
    BY <1>0
  <2>a. Added(bag, fresh, bag')
    BY <2>1, AddedPlaces, Zenon
  <2>3. \A p \in DOMAIN bag' : (p \in DOMAIN bag /\ bag'[p] = bag[p]) \/ bag'[p] = fresh
    BY <2>a, Zenon DEF Added
  <2>4. \A p, q \in DOMAIN bag' : bag'[p] = bag'[q] => p = q
    BY <2>2, <2>a, Zenon DEF Added
  <2>5. \A p \in DOMAIN bag' : bag'[p] \notin waiting /\ bag'[p] # NoClient
    BY <2>1, <2>2, <2>3, Zenon
  <2>6. QED BY <2>1, <2>4, <2>5, Zenon
<1>8. CASE StopClear
  <2>1. DOMAIN bag' = {}
    BY <1>8 DEF StopClear
  <2>2. QED BY <1>8, <2>1, ZenonT(60) DEF StopClear
<1>9. ASSUME NEW a \in Actors, Write(a) PROVE BagInv'
  <2>1. CASE DropClient(a)
    <3>1. UNCHANGED <<accepting, server>> /\ bag' = RemoveNth(bag, index) /\ index \in 1..Len(bag)
      BY <2>1 DEF DropClient, Failing, Sending
    <3>2. /\ \A p, q \in DOMAIN bag' : bag'[p] = bag'[q] => p = q
          /\ \A p \in DOMAIN bag' : \E q \in DOMAIN bag : bag'[p] = bag[q]
      <4>1. Places(bag, index, bag')
        BY <3>1, RemovedPlaces, Zenon
      <4>2. QED BY <4>1, Zenon DEF Places
    <3>3. QED BY <3>1, <3>2, SMTT(60)
  <2>2. QED BY <1>1, <1>9, <2>1, ZenonT(60) DEF Write, WriteBegin, WriteClient, WriteEnd
<1>10. QED BY <1>2, <1>3, <1>4, <1>5, <1>6, <1>7, <1>8, <1>9, ClientSteps, SMTT(60)

\* Beginnings of sequences.
LEMMA BeginsIs ==
  ASSUME NEW s \in Seq(Byte), NEW t \in Seq(Byte)
  PROVE  Begins(s, t) <=> Len(s) <= Len(t) /\ \A k \in 1..Len(s) : s[k] = t[k]
<1>1. Len(s) \in Nat /\ Len(t) \in Nat
  BY SeqFacts, Zenon
<1>2. ASSUME Len(s) <= Len(t)
      PROVE  /\ Taken(t, Len(s)) \in Seq(Byte) /\ Len(Taken(t, Len(s))) = Len(s)
             /\ \A k \in 1..Len(s) : Taken(t, Len(s))[k] = t[k]
  BY <1>1, <1>2, SubFacts DEF Taken
<1>3. ASSUME Begins(s, t) PROVE Len(s) <= Len(t) /\ \A k \in 1..Len(s) : s[k] = t[k]
  BY <1>2, <1>3, Zenon DEF Begins
<1>4. ASSUME Len(s) <= Len(t), \A k \in 1..Len(s) : s[k] = t[k] PROVE Begins(s, t)
  <2>1. s = Taken(t, Len(s))
    BY <1>2, <1>4, SeqEqual, Zenon
  <2>2. QED BY <1>4, <2>1, Zenon DEF Begins
<1>5. QED BY <1>3, <1>4, Zenon

LEMMA BeginsFacts ==
  ASSUME NEW s \in Seq(Byte), NEW t \in Seq(Byte), NEW u \in Seq(Byte)
  PROVE  /\ Begins(<< >>, t) /\ Begins(s, s) /\ Begins(s, s \o t)
         /\ Begins(s, t) => Begins(s, t \o u)
         /\ Begins(s, t) /\ Begins(t, u) => Begins(s, u)
<1>1. /\ Len(s) \in Nat /\ Len(t) \in Nat /\ Len(u) \in Nat
      /\ << >> \in Seq(Byte) /\ Len(<< >>) = 0
      /\ s \o t \in Seq(Byte) /\ Len(s \o t) = Len(s) + Len(t)
      /\ \A k \in 1..Len(s) : (s \o t)[k] = s[k]
      /\ t \o u \in Seq(Byte) /\ Len(t \o u) = Len(t) + Len(u)
      /\ \A k \in 1..Len(t) : (t \o u)[k] = t[k]
  BY SeqFacts, EmptyFacts, CatFacts
<1>2. Begins(<< >>, t) /\ Begins(s, s) /\ Begins(s, s \o t)
  <2>1. Begins(<< >>, t)
    <3> DEFINE e == << >>
    <3>1. e \in Seq(Byte) /\ Len(e) <= Len(t) /\ \A k \in 1..Len(e) : e[k] = t[k]
      BY <1>1
    <3> HIDE DEF e
    <3>2. Begins(e, t)
      BY <3>1, BeginsIs, Zenon
    <3>3. QED BY <3>2, Zenon DEF e
  <2>2. Begins(s, s)
    BY <1>1, BeginsIs
  <2>3. Len(s) <= Len(s \o t) /\ \A k \in 1..Len(s) : s[k] = (s \o t)[k]
    BY <1>1
  <2>4. Begins(s, s \o t)
    BY <1>1, <2>3, BeginsIs, Zenon
  <2>5. QED BY <2>1, <2>2, <2>4, Zenon
<1>3. ASSUME Begins(s, t) PROVE Begins(s, t \o u) /\ (Begins(t, u) => Begins(s, u))
  <2>1. Len(s) <= Len(t) /\ \A k \in 1..Len(s) : s[k] = t[k] /\ k \in 1..Len(t)
    BY <1>1, <1>3, BeginsIs
  <2>2. Begins(s, t \o u)
    <3>1. Len(s) <= Len(t \o u) /\ \A k \in 1..Len(s) : s[k] = (t \o u)[k]
      BY <1>1, <2>1
    <3>2. QED BY <1>1, <3>1, BeginsIs, Zenon
  <2>3. ASSUME Begins(t, u) PROVE Begins(s, u)
    <3>1. Len(t) <= Len(u) /\ \A k \in 1..Len(t) : t[k] = u[k]
      BY <2>3, BeginsIs, Zenon
    <3>2. Len(s) <= Len(u) /\ \A k \in 1..Len(s) : s[k] = u[k]
      BY <1>1, <2>1, <3>1
    <3>3. QED BY <3>2, BeginsIs, Zenon
  <2>4. QED BY <2>2, <2>3, Zenon
<1>4. QED BY <1>2, <1>3, Zenon

\* The next piece of the metadata.
LEMMA NextPiece ==
  ASSUME NEW n \in Nat, n < MetaPieces
  PROVE  /\ MetaBytes[n + 1] \in Byte /\ <<MetaBytes[n + 1]>> \in Seq(Byte)
         /\ Taken(MetaBytes, n) \in Seq(Byte)
         /\ Taken(MetaBytes, n) \o <<MetaBytes[n + 1]>> = Taken(MetaBytes, n + 1)
         /\ Begins(Taken(MetaBytes, n), MetaBytes) /\ Begins(Taken(MetaBytes, n + 1), MetaBytes)
         /\ n + 1 = MetaPieces => Taken(MetaBytes, n + 1) = MetaBytes
         /\ Taken(MetaBytes, 0) = << >>
<1> DEFINE M == MetaBytes
           x == M[n + 1]
           m == MetaPieces
<1>1. M \in Seq(Byte) /\ Len(M) = m /\ m \in Nat /\ n + 1 \in 1..m /\ x \in Byte
  BY MetaType
<1>2. <<x>> \in Seq(Byte) /\ Len(<<x>>) = 1 /\ <<x>>[1] = x
  BY <1>1, SMTT(60)
<1> HIDE DEF M, m
<1>3. ASSUME NEW k \in 0..m
      PROVE  /\ Taken(M, k) \in Seq(Byte) /\ Len(Taken(M, k)) = k
             /\ \A j \in 1..k : Taken(M, k)[j] = M[j]
             /\ Begins(Taken(M, k), M)
  <2>1. /\ Taken(M, k) \in Seq(Byte) /\ Len(Taken(M, k)) = k
        /\ \A j \in 1..k : Taken(M, k)[j] = M[j]
    BY <1>1, SubFacts DEF Taken
  <2>2. QED BY <1>1, <2>1, BeginsIs, SMTT(60)
<1>4. n \in 0..m /\ n + 1 \in 0..m /\ 0 \in 0..m
  BY <1>1 DEF m
<1>5. Taken(M, n) \o <<x>> = Taken(M, n + 1)
  <2> DEFINE a == Taken(M, n) \o <<x>>
             b == Taken(M, n + 1)
  <2>1. b \in Seq(Byte) /\ Len(b) = n + 1 /\ \A j \in 1..(n + 1) : b[j] = M[j]
    BY <1>3, <1>4, Zenon
  <2>2. /\ Taken(M, n) \in Seq(Byte) /\ Len(Taken(M, n)) = n
        /\ \A j \in 1..n : Taken(M, n)[j] = M[j]
    BY <1>3, <1>4, Zenon
  <2>3. /\ a \in Seq(Byte) /\ Len(a) = n + 1
        /\ \A j \in 1..n : a[j] = M[j]
        /\ a[n + 1] = x
    BY <1>2, <2>2
  <2> HIDE DEF a, b
  <2>4. \A j \in 1..(n + 1) : a[j] = b[j]
    <3>1. \A j \in 1..(n + 1) : j \in 1..n \/ j = n + 1
      OBVIOUS
    <3>2. M[n + 1] = x /\ n + 1 \in 1..(n + 1)
      BY DEF M
    <3>3. QED BY <2>1, <2>3, <3>1, <3>2, Zenon
  <2>5. a = b
    BY <2>1, <2>3, <2>4, SeqEqual, Zenon
  <2>6. QED BY <2>5, Zenon DEF a, b
<1>6. n + 1 = m => Taken(M, n + 1) = M
  BY <1>1, <1>3, <1>4, SeqEqual, Zenon
<1>7. Taken(M, 0) = << >>
  BY <1>3, <1>4
<1>8. QED BY <1>1, <1>2, <1>3, <1>4, <1>5, <1>6, <1>7, Zenon DEF M, m

\* The visit of a client c by the loop of ht_tcp_server_write; r is what the client
\* has received after it.
VisitIs(a, c, r) ==
  /\ index \in DOMAIN bag /\ c = bag[index] /\ c \in Clients /\ r \in Seq(Byte)
  /\ received' = [received EXCEPT ![c] = r]
  /\ broken \subseteq broken' /\ broken' \subseteq broken \cup {c}
  /\ c \in broken => r = received[c]
  /\ c \notin broken => Begins(r, received[c] \o out[a])
  /\ c \notin broken' => r = received[c] \o out[a] /\ ~DropClient(a)

LEMMA SentIs ==
  ASSUME TypeOK, NEW c \in Clients, NEW b \in Seq(Byte), Sent(c, b)
  PROVE  /\ received[c] \o b \in Seq(Byte)
         /\ received' = [received EXCEPT ![c] = received[c] \o b]
         /\ Begins(received[c] \o b, received[c] \o b)
         /\ c \notin broken /\ broken' = broken
<1>1. received[c] \in Seq(Byte)
  BY Zenon DEF TypeOK
<1>2. received[c] \o b \in Seq(Byte)
  BY <1>1, CatFacts, Zenon
<1>3. QED BY <1>2, BeginsFacts, Zenon DEF Sent

LEMMA BreaksIs ==
  ASSUME TypeOK, NEW c \in Clients, NEW b \in Seq(Byte), Breaks(c, b)
  PROVE  \E n \in 0..(Len(b) - 1) :
           /\ received[c] \o Taken(b, n) \in Seq(Byte)
           /\ received' = [received EXCEPT ![c] = received[c] \o Taken(b, n)]
           /\ Begins(received[c] \o Taken(b, n), received[c] \o b)
           /\ c \notin broken /\ broken' = broken \cup {c}
<1>1. PICK n \in 0..(Len(b) - 1) : received' = [received EXCEPT ![c] = @ \o Taken(b, n)]
  BY Zenon DEF Breaks
<1> DEFINE p == received[c]
           x == Taken(b, n)
           y == Dropped(b, n)
<1>2. n \in 0..Len(b) /\ p \in Seq(Byte)
  BY SeqFacts DEF TypeOK
<1>3. x \in Seq(Byte) /\ y \in Seq(Byte) /\ x \o y = b
  BY <1>2, SplitAt, Zenon
<1> HIDE DEF p, x, y
<1>4. p \o x \in Seq(Byte) /\ p \o b = (p \o x) \o y
  <2>1. Cat(p, x) \in Seq(Byte) /\ Cat(p, Cat(x, y)) = Cat(Cat(p, x), y)
    BY <1>2, <1>3, CatType, CatAssoc
  <2>2. QED BY <1>3, <2>1, Zenon DEF Cat
<1>5. Begins(p \o x, p \o b)
  <2> DEFINE r == p \o x
  <2> HIDE DEF r
  <2>1. r \in Seq(Byte) /\ p \o b = r \o y
    BY <1>4, Zenon DEF r
  <2>2. Begins(r, p \o b)
    BY <1>3, <2>1, BeginsFacts, Zenon
  <2>3. QED BY <2>2, Zenon DEF r
<1>6. QED BY <1>1, <1>4, <1>5, Zenon DEF Breaks, p, x

LEMMA VisitFacts ==
  ASSUME TypeOK, NEW a \in Actors, WriteClient(a) \/ DropClient(a)
  PROVE  \E c \in Clients : \E r \in Seq(Byte) : VisitIs(a, c, r)
<1> DEFINE c == bag[index]
<1>1. index \in DOMAIN bag /\ c \in Clients /\ out[a] \in Seq(Byte) /\ received[c] \in Seq(Byte)
  BY SeqFacts DEF WriteClient, DropClient, Failing, Sending, TypeOK
<1>2. ASSUME Broken(c, out[a]) PROVE received' = [received EXCEPT ![c] = received[c]]
  BY <1>1, <1>2, Zenon DEF Broken, TypeOK
<1>3. CASE WriteClient(a)
  <2>0. Sent(c, out[a]) \/ (out[a] = << >> /\ Broken(c, << >>))
    BY <1>3, Zenon DEF WriteClient
  <2>1. bag' = bag /\ index' = index + 1
    BY <1>3, Zenon DEF WriteClient
  <2>2. ~DropClient(a)
    BY <2>1 DEF DropClient, TypeOK
  <2> HIDE DEF c
  <2>3. CASE Sent(c, out[a])
    <3>1. VisitIs(a, c, received[c] \o out[a])
      BY <1>1, <2>2, <2>3, SentIs, Zenon DEF VisitIs, c
    <3>2. QED BY <1>1, <2>3, <3>1, SentIs, Zenon
  <2>4. CASE out[a] = << >> /\ Broken(c, << >>)
    <3>1. c \in broken /\ broken' = broken
      BY <2>4, Zenon DEF Broken
    <3>2. VisitIs(a, c, received[c])
      BY <1>1, <1>2, <2>4, <3>1, Zenon DEF VisitIs, c
    <3>3. QED BY <1>1, <3>2, Zenon
  <2>5. QED BY <2>0, <2>3, <2>4, Zenon
<1>4. CASE DropClient(a)
  <2>0. Breaks(c, out[a]) \/ Broken(c, out[a])
    BY <1>4, Zenon DEF DropClient, Failing
  <2> HIDE DEF c
  <2>1. CASE Breaks(c, out[a])
    <3>1. PICK n \in 0..(Len(out[a]) - 1) :
           /\ received[c] \o Taken(out[a], n) \in Seq(Byte)
           /\ received' = [received EXCEPT ![c] = received[c] \o Taken(out[a], n)]
           /\ Begins(received[c] \o Taken(out[a], n), received[c] \o out[a])
           /\ c \notin broken /\ broken' = broken \cup {c}
      BY <1>1, <2>1, BreaksIs, Zenon
    <3> DEFINE r == received[c] \o Taken(out[a], n)
    <3>2. VisitIs(a, c, r)
      BY <1>1, <3>1, Zenon DEF VisitIs, c
    <3>3. QED BY <1>1, <3>1, <3>2, Zenon
  <2>2. CASE Broken(c, out[a])
    <3>1. c \in broken /\ broken' = broken
      BY <2>2, Zenon DEF Broken
    <3>2. VisitIs(a, c, received[c])
      BY <1>1, <1>2, <2>2, <3>1, Zenon DEF VisitIs, c
    <3>3. QED BY <1>1, <3>2
  <2>3. QED BY <2>0, <2>1, <2>2, Zenon
<1>5. QED BY <1>3, <1>4, ZenonT(60)

\* The accept thread has a client to which it sends the next piece of metadata.
LEMMA MetaClient ==
  ASSUME TypeOK, BagInv, apc = "meta"
  PROVE  /\ fresh \in Clients /\ fresh # NoClient /\ fresh \notin waiting
         /\ pieces \in Nat /\ pieces < MetaPieces /\ MetaPieces \in Nat
<1>1. pieces \in 0..MetaPieces /\ fresh \in Clients \cup {NoClient}
  BY Zenon DEF TypeOK
<1>2. pieces < MetaPieces /\ fresh # NoClient /\ fresh \notin waiting
  BY Zenon DEF BagInv
<1>3. pieces \in Nat
  BY <1>1
<1>4. QED BY <1>1, <1>2, <1>3, MetaType, Zenon

\* MetaInv is preserved.
LEMMA MetaStep ==
  ASSUME TypeOK, CallInv, BagInv, MetaInv, Next
  PROVE  MetaInv'
<1> USE DEF accepting, clients, mutexes, listener
<1>0. /\ fresh \in Clients \cup {NoClient} /\ waiting \subseteq Clients
      /\ received \in [Clients -> Seq(Byte)] /\ broken \subseteq Clients
      /\ apc \in AcceptPCs
  BY Zenon DEF TypeOK
<1>1. CASE UNCHANGED <<accepting, received, broken>>
  BY <1>1, Zenon DEF MetaInv
<1>2. CASE Inside \/ StopClear
  BY <1>1, <1>2, InsideSame, Zenon DEF StopClear
<1>3. CASE Register \/ AcceptFails
  <2>1. /\ fresh' = fresh /\ fresh = NoClient /\ apc' \in {"accept", "exit"}
        /\ UNCHANGED <<waiting, received, broken>>
    BY <1>3, Zenon DEF Register, Registered, RegisterFails, StartFails, Create, AcceptFails, BagInv
  <2>2. QED BY <2>1, Zenon DEF MetaInv
<1>4. CASE Destroy \/ Connected
  BY <1>4, Zenon DEF Destroy, Connected, MetaInv
<1>5. ASSUME NEW c \in Clients, AcceptClient(c) PROVE MetaInv'
  <2>1. /\ fresh' = c /\ apc' = "meta" /\ pieces' = 0 /\ waiting' \subseteq waiting
        /\ UNCHANGED <<received, broken>> /\ received[c] = << >>
    BY <1>5, Zenon DEF AcceptClient, MetaInv
  <2>2. Begins(<< >>, MetaBytes) /\ Taken(MetaBytes, 0) = << >>
    <3>1. 0 \in Nat /\ 0 < MetaPieces /\ MetaBytes \in Seq(Byte)
      BY MetaType
    <3>2. Taken(MetaBytes, 0) = << >>
      BY <3>1, NextPiece, Zenon
    <3>3. Begins(<< >>, MetaBytes)
      BY <3>1, BeginsFacts, Zenon
    <3>4. QED BY <3>2, <3>3, Zenon
  <2>3. QED BY <2>1, <2>2, Zenon DEF MetaInv
<1>6. CASE PushMetadata
  <2> DEFINE x == <<MetaBytes[pieces + 1]>>
  <2>1. /\ fresh \in Clients /\ pieces \in Nat /\ pieces < MetaPieces /\ MetaPieces \in Nat
        /\ fresh \notin waiting /\ UNCHANGED <<waiting, fresh>> /\ pieces' = pieces + 1
        /\ apc' = IF pieces + 1 = MetaPieces THEN "connected" ELSE "meta"
        /\ Begins(received[fresh], MetaBytes)
        /\ fresh \notin broken => received[fresh] = Taken(MetaBytes, pieces)
        /\ Sent(fresh, x) \/ Breaks(fresh, x) \/ Broken(fresh, x)
    <3>1. /\ apc = "meta" /\ UNCHANGED <<waiting, fresh>> /\ pieces' = pieces + 1
          /\ apc' = IF pieces + 1 = MetaPieces THEN "connected" ELSE "meta"
          /\ Sent(fresh, x) \/ Breaks(fresh, x) \/ Broken(fresh, x)
      BY <1>6, Zenon DEF PushMetadata
    <3>2. QED BY <3>1, MetaClient, Zenon DEF MetaInv
  <2>2. /\ x \in Seq(Byte)
        /\ Taken(MetaBytes, pieces) \o x = Taken(MetaBytes, pieces + 1)
        /\ Begins(Taken(MetaBytes, pieces + 1), MetaBytes)
        /\ pieces + 1 = MetaPieces => Taken(MetaBytes, pieces + 1) = MetaBytes
    BY <2>1, NextPiece, Zenon
  <2>3. Len(x) = 1
    BY Zenon
  <2> HIDE DEF x
  <2>4. CASE Sent(fresh, x)
    <3>1. /\ fresh \notin broken /\ broken' = broken
          /\ received' = [received EXCEPT ![fresh] = received[fresh] \o x]
      BY <2>1, <2>2, <2>4, SentIs, Zenon
    <3>2. received'[fresh] = Taken(MetaBytes, pieces + 1)
      BY <1>0, <2>1, <2>2, <3>1, Zenon
    <3>3. \A c \in waiting : received'[c] = received[c]
      BY <1>0, <2>1, <3>1, Zenon
    <3>4. QED BY <2>1, <2>2, <3>1, <3>2, <3>3, Zenon DEF MetaInv
  <2>5. CASE Breaks(fresh, x)
    <3>1. PICK n \in 0..(Len(x) - 1) :
            /\ received' = [received EXCEPT ![fresh] = received[fresh] \o Taken(x, n)]
            /\ Begins(received[fresh] \o Taken(x, n), received[fresh] \o x)
            /\ fresh \notin broken /\ broken' = broken \cup {fresh}
      BY <2>1, <2>2, <2>5, BreaksIs, Zenon
    <3>2. received'[fresh] = received[fresh]
      <4>1. n = 0
        BY <2>3
      <4>2. Taken(x, n) = << >>
        BY <2>2, <4>1 DEF Taken
      <4>3. received[fresh] \o << >> = received[fresh]
        BY <1>0, <2>1
      <4>4. QED BY <1>0, <2>1, <3>1, <4>2, <4>3, Zenon
    <3>3. \A c \in waiting : received'[c] = received[c]
      BY <1>0, <2>1, <3>1, Zenon
    <3>4. QED BY <2>1, <3>1, <3>2, <3>3, Zenon DEF MetaInv
  <2>6. CASE Broken(fresh, x)
    BY <2>1, <2>6, Zenon DEF Broken, MetaInv
  <2>7. QED BY <2>1, <2>4, <2>5, <2>6, Zenon
<1>7. CASE AddClient
  BY <1>7, Zenon DEF AddClient, Adding, MetaInv
<1>8. ASSUME NEW a \in Actors, Write(a) PROVE MetaInv'
  <2>1. CASE WriteBegin(a) \/ WriteEnd(a)
    BY <1>1, <2>1, Zenon DEF WriteBegin, WriteEnd
  <2>2. CASE WriteClient(a) \/ DropClient(a)
    <3>1. PICK c \in Clients : \E r \in Seq(Byte) : VisitIs(a, c, r)
      BY <2>2, VisitFacts, Zenon
    <3>2. /\ c \notin waiting /\ c # fresh
          /\ broken \subseteq broken' /\ broken' \subseteq broken \cup {c}
          /\ \E r \in Seq(Byte) : received' = [received EXCEPT ![c] = r]
      BY <3>1, Zenon DEF VisitIs, BagInv
    <3>3. UNCHANGED accepting
      BY <2>2, Looping, Zenon
    <3>4. \A d \in Clients : d # c => received'[d] = received[d] /\ (d \in broken' <=> d \in broken)
      BY <1>0, <3>2, Zenon
    <3>5. fresh \notin broken' <=> fresh \notin broken
      BY <1>0, <3>2, Zenon
    <3>6. QED BY <1>0, <3>2, <3>3, <3>4, <3>5, TcpListenerAssumption, Zenon DEF MetaInv, BagInv
  <2>3. QED BY <1>8, <2>1, <2>2, Zenon DEF Write
<1>9. QED BY <1>2, <1>3, <1>4, <1>5, <1>6, <1>7, <1>8, ClientSteps, Zenon

LEMMA DroppedFacts ==
  ASSUME NEW s \in Seq(Byte), NEW n \in 0..Len(s)
  PROVE  /\ Dropped(s, n) \in Seq(Byte) /\ Len(Dropped(s, n)) = Len(s) - n
         /\ \A k \in 1..(Len(s) - n) : Dropped(s, n)[k] = s[n + k]
<1>1. Len(s) \in Nat /\ n \in Nat /\ n <= Len(s)
  BY SeqFacts
<1>2. QED BY <1>1, SubFacts DEF Dropped

\* Due, of a client added when n bytes of w were written.
DueOf(w, n) == MetaBytes \o Dropped(w, n)

LEMMA DueFacts ==
  ASSUME NEW w \in Seq(Byte), NEW o \in Seq(Byte), NEW n \in 0..Len(w)
  PROVE  /\ DueOf(w, n) \in Seq(Byte) /\ Begins(MetaBytes, DueOf(w, n))
         /\ DueOf(w \o o, n) = DueOf(w, n) \o o
         /\ DueOf(w, Len(w)) = MetaBytes
<1>1. /\ MetaBytes \in Seq(Byte) /\ Len(w) \in Nat /\ Len(w) \in 0..Len(w)
      /\ Len(o) \in Nat /\ w \o o \in Seq(Byte) /\ Len(w \o o) = Len(w) + Len(o)
      /\ n \in Nat /\ n <= Len(w) /\ n \in 0..Len(w \o o)
  BY MetaType, SeqFacts, CatFacts
<1>2. /\ Dropped(w, n) \in Seq(Byte) /\ Dropped(w, Len(w)) \in Seq(Byte)
      /\ Len(Dropped(w, n)) = Len(w) - n /\ Len(Dropped(w, Len(w))) = Len(w) - Len(w)
  BY <1>1, SplitAt, ZenonT(60)
<1>3. DueOf(w, n) \in Seq(Byte) /\ Begins(MetaBytes, DueOf(w, n))
  BY <1>1, <1>2, CatFacts, BeginsFacts, Zenon DEF DueOf
<1>4. Dropped(w, Len(w)) = << >>
  BY <1>1, <1>2
<1>5. DueOf(w, Len(w)) = MetaBytes
  BY <1>1, <1>4 DEF DueOf
<1>6. Dropped(w \o o, n) = Dropped(w, n) \o o
  <2> DEFINE v == w \o o
             x == Dropped(v, n)
             y == Dropped(w, n)
             z == y \o o
  <2>1. /\ v \in Seq(Byte) /\ Len(v) = Len(w) + Len(o)
        /\ \A k \in 1..Len(w) : v[k] = w[k]
        /\ \A k \in (Len(w) + 1)..(Len(w) + Len(o)) : v[k] = o[k - Len(w)]
    BY CatFacts, Zenon
  <2>2. /\ y \in Seq(Byte) /\ Len(y) = Len(w) - n
        /\ \A k \in 1..(Len(w) - n) : y[k] = w[n + k]
    BY <1>1, DroppedFacts, Zenon
  <2> HIDE DEF y
  <2>3. /\ z \in Seq(Byte) /\ Len(z) = Len(w) - n + Len(o)
        /\ \A k \in 1..(Len(w) - n) : z[k] = y[k]
        /\ \A k \in (Len(w) - n + 1)..(Len(w) - n + Len(o)) : z[k] = o[k - (Len(w) - n)]
    <3>1. /\ z \in Seq(Byte) /\ Len(z) = Len(y) + Len(o)
          /\ \A k \in 1..Len(y) : z[k] = y[k]
          /\ \A k \in (Len(y) + 1)..(Len(y) + Len(o)) : z[k] = o[k - Len(y)]
      BY <2>2, CatFacts, Zenon
    <3> HIDE DEF z
    <3>2. QED BY <2>2, <3>1, Zenon
  <2> HIDE DEF v, z
  <2>4. /\ x \in Seq(Byte) /\ Len(x) = Len(w) + Len(o) - n
        /\ \A k \in 1..(Len(w) + Len(o) - n) : x[k] = v[n + k]
    <3>1. n \in 0..Len(v)
      BY <1>1, <2>1, Zenon
    <3>2. /\ x \in Seq(Byte) /\ Len(x) = Len(v) - n
          /\ \A k \in 1..(Len(v) - n) : x[k] = v[n + k]
      BY <2>1, <3>1, DroppedFacts, Zenon
    <3> HIDE DEF x
    <3>3. QED BY <2>1, <3>2
  <2> HIDE DEF x
  <2>5. ASSUME NEW k \in 1..(Len(w) - n) PROVE x[k] = z[k]
    <3>1. n + k \in 1..Len(w) /\ k \in 1..(Len(w) + Len(o) - n)
      BY <1>1
    <3>2. QED BY <2>1, <2>2, <2>3, <2>4, <3>1, Zenon
  <2>6. ASSUME NEW k \in (Len(w) - n + 1)..(Len(w) - n + Len(o)) PROVE x[k] = z[k]
    <3>1. /\ n + k \in (Len(w) + 1)..(Len(w) + Len(o)) /\ k \in 1..(Len(w) + Len(o) - n)
          /\ (n + k) - Len(w) = k - (Len(w) - n)
      BY <1>1
    <3>2. x[k] = v[n + k] /\ v[n + k] = o[(n + k) - Len(w)] /\ z[k] = o[k - (Len(w) - n)]
      BY <2>1, <2>3, <2>4, <3>1, Zenon
    <3>3. QED BY <3>1, <3>2, Zenon
  <2>7. \A k \in 1..Len(x) : x[k] = z[k]
    <3>1. \A k \in 1..Len(x) : \/ k \in 1..(Len(w) - n)
                               \/ k \in (Len(w) - n + 1)..(Len(w) - n + Len(o))
      BY <1>1, <2>4
    <3>2. QED BY <2>5, <2>6, <3>1, Zenon
  <2>8. Len(x) = Len(z)
    BY <1>1, <2>3, <2>4
  <2>9. x = z
    BY <2>3, <2>4, <2>7, <2>8, SeqEqual, Zenon
  <2>10. QED BY <2>9, Zenon DEF x, y, z, v
<1>7. DueOf(w \o o, n) = DueOf(w, n) \o o
  <2>1. Cat(MetaBytes, Cat(Dropped(w, n), o)) = Cat(Cat(MetaBytes, Dropped(w, n)), o)
    BY <1>1, <1>2, CatAssoc
  <2>2. QED BY <1>6, <2>1, Zenon DEF DueOf, Cat
<1>8. QED BY <1>3, <1>5, <1>7, Zenon

\* SentInv, in terms of DueOf.
LEMMA SentNow ==
  SentInv <=>
    /\ \A c \in Clients : Begins(received[c], DueOf(wire, start[c]))
    /\ \A p \in DOMAIN bag :
         clientMtx = Nobody /\ bag[p] \notin broken
           => received[bag[p]] = DueOf(wire, start[bag[p]])
    /\ \A a \in Actors, p \in DOMAIN bag :
         pc[a] = "send" /\ bag[p] \notin broken =>
           IF p < index THEN received[bag[p]] = DueOf(wire, start[bag[p]])
                        ELSE received[bag[p]] \o out[a] = DueOf(wire, start[bag[p]])
BY Zenon DEF SentInv, ClientsUpToDate, Due, DueOf

LEMMA SentNext ==
  SentInv' <=>
    /\ \A c \in Clients : Begins(received'[c], DueOf(wire', start'[c]))
    /\ \A p \in DOMAIN bag' :
         clientMtx' = Nobody /\ bag'[p] \notin broken'
           => received'[bag'[p]] = DueOf(wire', start'[bag'[p]])
    /\ \A a \in Actors, p \in DOMAIN bag' :
         pc'[a] = "send" /\ bag'[p] \notin broken' =>
           IF p < index' THEN received'[bag'[p]] = DueOf(wire', start'[bag'[p]])
                         ELSE received'[bag'[p]] \o out'[a] = DueOf(wire', start'[bag'[p]])
BY Zenon DEF SentInv, ClientsUpToDate, Due, DueOf

\* What is due to a client.
LEMMA DueType ==
  ASSUME TypeOK, BoundaryInv, NEW c \in Clients
  PROVE  /\ start[c] \in 0..Len(wire) /\ received[c] \in Seq(Byte)
         /\ DueOf(wire, start[c]) \in Seq(Byte)
         /\ Begins(MetaBytes, DueOf(wire, start[c]))
<1>1. /\ start[c] \in 0..Len(wire) /\ received[c] \in Seq(Byte) /\ wire \in Seq(Byte)
  BY SeqFacts DEF TypeOK, BoundaryInv
<1>2. QED BY <1>1, DueFacts, ZenonT(60)

\* SentInv is preserved by a write ...
LEMMA SentWrite ==
  ASSUME TypeOK, CallInv, BoundaryInv, BagInv, SentInv, NEW a \in Actors, Write(a)
  PROVE  SentInv'
<1> USE DEF accepting, clients, mutexes, listener
<1>0. /\ DOMAIN bag = 1..Len(bag) /\ Len(bag) \in Nat /\ \A p \in DOMAIN bag : bag[p] \in Clients
      /\ wire \in Seq(Byte) /\ out[a] \in Seq(Byte) /\ received \in [Clients -> Seq(Byte)]
      /\ index \in Nat /\ index >= 1 /\ pc \in [Actors -> PushPCs \cup StopPCs]
  BY SeqFacts, SMTT(60) DEF TypeOK
<1>1. ASSUME pc[a] = "send" PROVE \A b \in Actors : pc[b] = "send" => b = a
  BY <1>1, Zenon DEF CallInv
<1>2. CASE WriteBegin(a)
  <2>1. /\ clientMtx = Nobody /\ clientMtx' = a /\ a # Nobody /\ index' = 1
        /\ wire' = wire \o out[a] /\ UNCHANGED <<out, bag, broken, received, start>>
        /\ pc' = [pc EXCEPT ![a] = "send"] /\ \A b \in Actors : pc[b] # "send"
    BY <1>2, TcpListenerAssumption, Zenon DEF WriteBegin, CallInv, Actors
  <2>2. ASSUME NEW c \in Clients PROVE DueOf(wire', start'[c]) = DueOf(wire, start[c]) \o out[a]
    BY <1>0, <2>1, DueType, DueFacts, Zenon
  <2>3. ASSUME NEW c \in Clients PROVE Begins(received'[c], DueOf(wire', start'[c]))
    <3>1. Begins(received[c], DueOf(wire, start[c]))
      BY SentNow, Zenon
    <3>2. received[c] \in Seq(Byte) /\ DueOf(wire, start[c]) \in Seq(Byte)
      BY DueType, Zenon
    <3>3. Begins(received[c], DueOf(wire, start[c]) \o out[a])
      BY <1>0, <3>1, <3>2, BeginsFacts, Zenon
    <3>4. QED BY <2>1, <2>2, <3>3, Zenon
  <2>4. ASSUME NEW b \in Actors, NEW p \in DOMAIN bag', pc'[b] = "send", bag'[p] \notin broken'
        PROVE  /\ ~(p < index')
               /\ received'[bag'[p]] \o out'[b] = DueOf(wire', start'[bag'[p]])
    <3>1. b = a /\ ~(p < index')
      BY <1>0, <2>1, <2>4
    <3>2. received[bag[p]] = DueOf(wire, start[bag[p]])
      BY <2>1, <2>4, SentNow, Zenon
    <3>3. QED BY <1>0, <2>1, <2>2, <2>4, <3>1, <3>2, Zenon
  <2>5. QED BY <2>1, <2>3, <2>4, SentNext, Zenon
<1>3. CASE WriteEnd(a)
  <2>1. /\ pc[a] = "send" /\ index > Len(bag) /\ pc' = [pc EXCEPT ![a] = after[a]]
        /\ UNCHANGED <<bag, broken, received, start, wire>>
    BY <1>3, Zenon DEF WriteEnd
  <2>2. \A b \in Actors : pc'[b] # "send"
    BY <1>0, <1>1, <2>1, Zenon DEF TypeOK
  <2>3. ASSUME NEW p \in DOMAIN bag, bag[p] \notin broken
        PROVE  received[bag[p]] = DueOf(wire, start[bag[p]])
    <3>1. p < index
      BY <1>0, <2>1
    <3>2. QED BY <2>1, <2>3, <3>1, SentNow, ZenonT(60)
  <2>4. \A c \in Clients : Begins(received[c], DueOf(wire, start[c]))
    BY SentNow, Zenon
  <2>5. QED BY <2>1, <2>2, <2>3, <2>4, SentNext, Zenon
<1>4. CASE WriteClient(a) \/ DropClient(a)
  <2>1. PICK c \in Clients : \E r \in Seq(Byte) : VisitIs(a, c, r)
    BY <1>4, VisitFacts, Zenon
  <2>2. PICK r \in Seq(Byte) : VisitIs(a, c, r)
    BY <2>1, Zenon
  <2>3. /\ index \in DOMAIN bag /\ c = bag[index] /\ received' = [received EXCEPT ![c] = r]
        /\ broken \subseteq broken' /\ broken' \subseteq broken \cup {c}
        /\ c \in broken => r = received[c]
        /\ c \notin broken => Begins(r, received[c] \o out[a])
        /\ c \notin broken' => r = received[c] \o out[a] /\ ~DropClient(a)
    BY <2>2, Zenon DEF VisitIs
  <2>4. pc[a] = "send" /\ UNCHANGED <<clientMtx, pc, out, wire, start>>
    BY <1>4, Looping, Zenon DEF WriteClient, DropClient, Failing, Sending
  <2>5. clientMtx' # Nobody
    BY <2>4, TcpListenerAssumption, Zenon DEF CallInv, Actors
  <2>6. c \notin broken => received[c] \o out[a] = DueOf(wire, start[c])
    <3>1. ~(index < index)
      BY <1>0
    <3>2. QED BY <2>3, <2>4, <3>1, SentNow, Zenon
  <2>7. ASSUME NEW d \in Clients PROVE Begins(received'[d], DueOf(wire', start'[d]))
    <3>1. Begins(received[d], DueOf(wire, start[d]))
      BY SentNow, Zenon
    <3>2. CASE d # c
      BY <1>0, <2>3, <2>4, <3>1, <3>2, Zenon
    <3>3. CASE d = c /\ c \in broken
      BY <1>0, <2>3, <2>4, <3>1, <3>3, Zenon
    <3>4. CASE d = c /\ c \notin broken
      BY <1>0, <2>3, <2>4, <2>6, <3>4, Zenon
    <3>5. QED BY <3>2, <3>3, <3>4, Zenon
  <2>8. ASSUME NEW p \in DOMAIN bag, p # index, bag[p] \notin broken'
        PROVE  IF p < index THEN received'[bag[p]] = DueOf(wire', start'[bag[p]])
                            ELSE received'[bag[p]] \o out'[a] = DueOf(wire', start'[bag[p]])
    <3>1. bag[p] # c
      BY <2>3, <2>8, Zenon DEF BagInv
    <3>2. received'[bag[p]] = received[bag[p]] /\ bag[p] \notin broken
      BY <1>0, <2>3, <2>8, <3>1, Zenon
    <3>3. IF p < index THEN received[bag[p]] = DueOf(wire, start[bag[p]])
                       ELSE received[bag[p]] \o out[a] = DueOf(wire, start[bag[p]])
      BY <2>4, <3>2, SentNow, Zenon
    <3>4. QED BY <2>4, <3>2, <3>3, Zenon
  <2>9. ASSUME NEW b \in Actors, NEW p \in DOMAIN bag', pc'[b] = "send", bag'[p] \notin broken'
        PROVE  IF p < index' THEN received'[bag'[p]] = DueOf(wire', start'[bag'[p]])
                             ELSE received'[bag'[p]] \o out'[b] = DueOf(wire', start'[bag'[p]])
    <3>0. b = a
      BY <1>1, <2>4, <2>9, Zenon
    <3>1. CASE WriteClient(a)
      <4>1. bag' = bag /\ index' = index + 1
        BY <3>1, Zenon DEF WriteClient
      <4>2. CASE p = index
        <5>1. p < index' /\ r = received[c] \o out[a] /\ c \notin broken /\ bag'[p] = c
          BY <1>0, <2>3, <2>9, <4>1, <4>2, SMTT(60)
        <5>2. received'[c] = DueOf(wire', start'[c])
          BY <1>0, <2>3, <2>4, <2>6, <5>1, Zenon
        <5>3. QED BY <5>1, <5>2, ZenonT(60)
      <4>3. CASE p # index
        <5>1. p < index' <=> p < index
          BY <1>0, <4>1, <4>3
        <5>2. QED BY <2>8, <2>9, <3>0, <4>1, <4>3, <5>1, ZenonT(60)
      <4>4. QED BY <4>2, <4>3, Zenon
    <3>2. CASE DropClient(a)
      <4>1. bag' = RemoveNth(bag, index) /\ index' = index
        BY <3>2, Zenon DEF DropClient
      <4>2. Places(bag, index, bag')
        BY <1>0, <2>3, <4>1, RemovedPlaces, ZenonT(60) DEF TypeOK, BagInv
      <4>3. PICK q \in DOMAIN bag : /\ q # index /\ bag'[p] = bag[q]
                                    /\ p < index => q = p
                                    /\ p >= index => q > index
        BY <2>9, <4>2, Zenon DEF Places
      <4>4. p \in Nat
        <5>1. bag \in Seq(Clients) /\ index \in 1..Len(bag)
          BY <1>0, <2>3, Zenon DEF TypeOK
        <5>2. DOMAIN RemoveNth(bag, index) = 1..(Len(bag) - 1)
          BY <5>1, RemoveFacts, ZenonT(60)
        <5>3. QED BY <1>0, <2>9, <4>1, <5>2
      <4>5. p < index' <=> q < index
        BY <1>0, <4>1, <4>3, <4>4
      <4>6. QED BY <2>8, <2>9, <3>0, <4>3, <4>5, Zenon
    <3>3. QED BY <1>4, <3>1, <3>2, Zenon
  <2>10. QED BY <2>5, <2>7, <2>9, SentNext, Zenon
<1>5. QED BY <1>2, <1>3, <1>4, Zenon DEF Write

\* ... and by every other step.
LEMMA SentStep ==
  ASSUME TypeOK, CallInv, BoundaryInv, BagInv, MetaInv, SentInv, MetaInv', Next
  PROVE  SentInv'
<1> USE DEF accepting, clients, mutexes, listener
<1>0. /\ \A p \in DOMAIN bag : bag[p] \in Clients
      /\ wire \in Seq(Byte) /\ received \in [Clients -> Seq(Byte)] /\ start \in [Clients -> Nat]
  BY SeqFacts, SMTT(60) DEF TypeOK
<1>1. /\ \A c \in Clients : Begins(received[c], DueOf(wire, start[c]))
      /\ \A p \in DOMAIN bag :
           clientMtx = Nobody /\ bag[p] \notin broken
             => received[bag[p]] = DueOf(wire, start[bag[p]])
  BY SentNow, Zenon
<1>2. CASE /\ UNCHANGED <<clientMtx, clients>>
           /\ \A a \in Actors : pc'[a] = "send" => pc[a] = "send" /\ out'[a] = out[a]
  <2>1. UNCHANGED <<received, wire, start, bag, broken, index>>
    BY <1>2, Zenon
  <2>2. ASSUME NEW a \in Actors, NEW p \in DOMAIN bag', pc'[a] = "send", bag'[p] \notin broken'
        PROVE  IF p < index' THEN received'[bag'[p]] = DueOf(wire', start'[bag'[p]])
                             ELSE received'[bag'[p]] \o out'[a] = DueOf(wire', start'[bag'[p]])
    <3>1. pc[a] = "send" /\ out'[a] = out[a] /\ bag[p] \notin broken /\ p \in DOMAIN bag
      BY <1>2, <2>1, <2>2, Zenon
    <3>2. IF p < index THEN received[bag[p]] = DueOf(wire, start[bag[p]])
                       ELSE received[bag[p]] \o out[a] = DueOf(wire, start[bag[p]])
      BY <3>1, SentNow, Zenon
    <3>3. QED BY <2>1, <3>1, <3>2, Zenon
  <2>3. QED BY <1>1, <1>2, <2>1, <2>2, SentNext, Zenon
<1>3. CASE Inside
  BY <1>2, <1>3, InsideSame, InsideSends, Zenon
<1>4. CASE Register \/ Destroy \/ AcceptFails \/ Connected \/ \E c \in Clients : AcceptClient(c)
  <2>1. UNCHANGED <<clientMtx, clients, pc, out>>
    BY <1>4, Zenon DEF Register, Registered, RegisterFails, StartFails, Create, Destroy, AcceptFails,
                Connected, AcceptClient
  <2>2. QED BY <1>2, <2>1, Zenon
<1>5. CASE StopClear
  <2>1. DOMAIN bag' = {} /\ UNCHANGED <<received, wire, start>>
    BY <1>5 DEF StopClear
  <2>2. QED BY <1>1, <2>1, SentNext, Zenon
<1>6. CASE PushMetadata
  <2> DEFINE x == <<MetaBytes[pieces + 1]>>
  <2>1. /\ fresh \in Clients /\ fresh' = fresh /\ pieces \in Nat /\ pieces < MetaPieces
        /\ UNCHANGED <<clientMtx, pc, out, bag, index, wire, start>>
        /\ Sent(fresh, x) \/ Breaks(fresh, x) \/ Broken(fresh, x)
    <3>1. /\ apc = "meta" /\ fresh' = fresh
          /\ UNCHANGED <<clientMtx, pc, out, bag, index, wire, start>>
          /\ Sent(fresh, x) \/ Breaks(fresh, x) \/ Broken(fresh, x)
      BY <1>6, Zenon DEF PushMetadata
    <3>2. QED BY <3>1, MetaClient, Zenon
  <2>2. x \in Seq(Byte)
    BY <2>1, NextPiece, Zenon
  <2> HIDE DEF x
  <2>3. \A c \in Clients : c # fresh => received'[c] = received[c] /\ (c \in broken' <=> c \in broken)
    BY <1>0, <2>1, ZenonT(60) DEF Sent, Breaks, Broken
  <2>4. Begins(received'[fresh], DueOf(wire, start[fresh]))
    <3>1. Begins(received'[fresh], MetaBytes)
      BY <2>1, TcpListenerAssumption, Zenon DEF MetaInv
    <3>2. received'[fresh] \in Seq(Byte)
      BY <2>1, TypeMetadata, <1>6, ZenonT(60) DEF TypeOK
    <3>3. /\ MetaBytes \in Seq(Byte) /\ DueOf(wire, start[fresh]) \in Seq(Byte)
          /\ Begins(MetaBytes, DueOf(wire, start[fresh]))
      BY <2>1, MetaType, DueType, Zenon
    <3>4. QED BY <3>1, <3>2, <3>3, BeginsFacts
  <2>5. \A p \in DOMAIN bag : bag[p] # fresh
    BY Zenon DEF BagInv
  <2>6. ASSUME NEW c \in Clients PROVE Begins(received'[c], DueOf(wire', start'[c]))
    BY <1>1, <2>1, <2>3, <2>4, Zenon
  <2>7. ASSUME NEW p \in DOMAIN bag', clientMtx' = Nobody, bag'[p] \notin broken'
        PROVE  received'[bag'[p]] = DueOf(wire', start'[bag'[p]])
    BY <1>0, <1>1, <2>1, <2>3, <2>5, <2>7, Zenon
  <2>8. ASSUME NEW a \in Actors, NEW p \in DOMAIN bag', pc'[a] = "send", bag'[p] \notin broken'
        PROVE  IF p < index' THEN received'[bag'[p]] = DueOf(wire', start'[bag'[p]])
                             ELSE received'[bag'[p]] \o out'[a] = DueOf(wire', start'[bag'[p]])
    <3>1. bag[p] \notin broken /\ received'[bag[p]] = received[bag[p]] /\ pc[a] = "send"
      BY <1>0, <2>1, <2>3, <2>5, <2>8, ZenonT(60)
    <3>2. IF p < index THEN received[bag[p]] = DueOf(wire, start[bag[p]])
                       ELSE received[bag[p]] \o out[a] = DueOf(wire, start[bag[p]])
      BY <2>1, <2>8, <3>1, SentNow, Zenon
    <3>3. QED BY <2>1, <3>1, <3>2, Zenon
  <2>9. QED BY <2>6, <2>7, <2>8, SentNext, ZenonT(60)
<1>7. CASE AddClient
  <2>1. /\ clientMtx = Nobody /\ fresh \in Clients /\ bag' = Append(bag, fresh)
        /\ start' = [start EXCEPT ![fresh] = Len(wire)]
        /\ UNCHANGED <<pc, out, wire, received, broken, clientMtx>>
        /\ Begins(received[fresh], MetaBytes)
        /\ fresh \notin broken => received[fresh] = MetaBytes
    BY <1>7, TcpListenerAssumption, ZenonT(60) DEF AddClient, Adding, BagInv, MetaInv, TypeOK
  <2>2. \A a \in Actors : pc'[a] # "send"
    BY <2>1, TcpListenerAssumption, Zenon DEF CallInv, Actors
  <2>3. /\ DueOf(wire', start'[fresh]) = MetaBytes
        /\ \A c \in Clients : c # fresh => start'[c] = start[c]
    <3>1. start'[fresh] = Len(wire) /\ \A c \in Clients : c # fresh => start'[c] = start[c]
      BY <1>0, <2>1, Zenon
    <3>2. Len(wire) \in 0..Len(wire)
      BY <1>0, SeqFacts
    <3>3. DueOf(wire, Len(wire)) = MetaBytes
      BY <1>0, <3>2, DueFacts, Zenon
    <3>4. QED BY <2>1, <3>1, <3>3, Zenon
  <2>4. Added(bag, fresh, bag')
    BY <2>1, AddedPlaces, Zenon DEF TypeOK
  <2>5. ASSUME NEW p \in DOMAIN bag', bag'[p] \notin broken'
        PROVE  received'[bag'[p]] = DueOf(wire', start'[bag'[p]])
    <3>1. (p \in DOMAIN bag /\ bag'[p] = bag[p]) \/ bag'[p] = fresh
      BY <2>4, <2>5, Zenon DEF Added
    <3>2. CASE bag'[p] = fresh
      BY <2>1, <2>3, <2>5, <3>2, ZenonT(60)
    <3>3. CASE p \in DOMAIN bag /\ bag'[p] = bag[p]
      <4>1. bag[p] # fresh /\ bag[p] \in Clients /\ bag[p] \notin broken
        BY <1>0, <2>1, <2>5, <3>3, Zenon DEF BagInv
      <4>2. QED BY <1>1, <2>1, <2>3, <3>3, <4>1, SMTT(60)
    <3>4. QED BY <3>1, <3>2, <3>3, Zenon
  <2>6. \A c \in Clients : Begins(received'[c], DueOf(wire', start'[c]))
    BY <1>1, <2>1, <2>3, Zenon
  <2>7. QED BY <2>2, <2>5, <2>6, SentNext, Zenon
<1>8. QED BY <1>3, <1>4, <1>5, <1>6, <1>7, SentWrite, ClientSteps, ZenonT(60)

-----------------------------------------------------------------------------
(***************************************************************************)
(* The theorems.                                                           *)
(***************************************************************************)

\* The initial states.
LEMMA InitIInv == Init => IInv
<1> SUFFICES ASSUME Init PROVE IInv
  BY ZenonT(60)
<1> USE TcpListenerAssumption DEF Init, Actors
<1>0. Stopper \in Actors /\ Len(<< >>) = 0 /\ DOMAIN << >> = {}
  BY SMTT(60)
<1>1. TypeOK
  <2>1. << >> \in Seq(Byte) /\ << >> \in Seq(Clients) /\ 0 \in 0..MetaPieces
    BY EmptyFacts, MetaType
  <2>2. /\ running \in BOOLEAN /\ flushed \in BOOLEAN
        /\ server \in {"none", "up", "unwanted", "freed", "destroyed"}
        /\ apc \in AcceptPCs
    BY Zenon DEF AcceptPCs
  <2>3. /\ pc \in [Actors -> PushPCs \cup StopPCs]
        /\ event \in [Actors -> Events \cup {NoEvent}]
        /\ rest \in [Actors -> Seq(Byte)] /\ out \in [Actors -> Seq(Byte)]
        /\ after \in [Actors -> {"idle", "copy", "unlock", "clear"}]
        /\ received \in [Clients -> Seq(Byte)] /\ start \in [Clients -> Nat]
    BY <2>1, Zenon DEF PushPCs
  <2>4. QED BY <2>1, <2>2, <2>3, SMTT(60) DEF TypeOK
<1>2. CallInv
  BY ZenonT(60) DEF CallInv, PushPCs, StopPCs
<1>3. RestInv
  BY <1>0 DEF RestInv
<1>4. WireIsLog
  <2>1. Only(pc, rest, Stopper)
    BY Zenon DEF Only
  <2>2. Cat(wire, Flow(pc, out, buf, rest, Stopper)) = log
    BY DEF Flow, Cat
  <2>3. QED BY <1>0, <2>1, <2>2, WireNow, Zenon
<1>5. WholeInv
  BY ZenonT(60) DEF WholeInv, Starts
<1>6. BoundaryInv
  BY <1>0, SMTT(60) DEF BoundaryInv
<1>7. BagInv
  BY <1>0, Zenon DEF BagInv
<1>8. MetaInv
  BY Zenon DEF MetaInv
<1>9. SentInv
  <2>1. ASSUME NEW c \in Clients PROVE Begins(received[c], DueOf(wire, start[c]))
    <3>1. received[c] = << >> /\ received[c] \in Seq(Byte) /\ DueOf(wire, start[c]) \in Seq(Byte)
      BY <1>1, <1>6, DueType, ZenonT(60)
    <3>2. QED BY <3>1, BeginsFacts, Zenon
  <2>2. DOMAIN bag = {}
    BY <1>0, Zenon
  <2>3. QED BY <2>1, <2>2, SentNow, Zenon
<1>10. QED BY <1>1, <1>2, <1>3, <1>4, <1>5, <1>6, <1>7, <1>8, <1>9, Zenon DEF IInv

\* The steps.
LEMMA NextIInv == IInv /\ [Next]_vars => IInv'
<1> SUFFICES ASSUME IInv, [Next]_vars PROVE IInv'
  BY Zenon
<1>1. /\ TypeOK /\ CallInv /\ RestInv /\ WireIsLog /\ WholeInv /\ BoundaryInv
      /\ BagInv /\ MetaInv /\ SentInv
  BY Zenon DEF IInv
<1>2. CASE Next
  <2>1. TypeOK' /\ CallInv' /\ RestInv'
    BY <1>1, <1>2, TypeStep, CallStep, RestStep, ZenonT(60)
  <2>2. WireIsLog' /\ WholeInv' /\ BoundaryInv'
    BY <1>1, <1>2, WireStep, WholeStep, BoundaryStep, ZenonT(60)
  <2>3. BagInv' /\ MetaInv'
    BY <1>1, <1>2, BagStep, MetaStep, Zenon
  <2>4. SentInv'
    BY <1>1, <1>2, <2>3, SentStep, Zenon
  <2>5. QED BY <2>1, <2>2, <2>3, <2>4, Zenon DEF IInv
<1>3. CASE UNCHANGED vars
  <2> USE <1>1, <1>3 DEF vars
  <2>1. TypeOK' /\ CallInv' /\ RestInv' /\ WholeInv' /\ BoundaryInv' /\ BagInv' /\ MetaInv'
    <3>1. TypeOK'
      BY ZenonT(60) DEF TypeOK
    <3>2. CallInv' /\ RestInv'
      BY ZenonT(60) DEF CallInv, RestInv
    <3>3. WholeInv' /\ BoundaryInv'
      BY ZenonT(60) DEF WholeInv, BoundaryInv
    <3>4. BagInv' /\ MetaInv'
      BY ZenonT(60) DEF BagInv, MetaInv
    <3>5. QED BY <3>1, <3>2, <3>3, <3>4, Zenon
  <2>2. WireIsLog'
    BY WireSame, Zenon
  <2>3. SentInv'
    BY SentNow, SentNext, Zenon
  <2>4. QED BY <1>1, <2>1, <2>2, <2>3, ZenonT(60) DEF IInv
<1>4. QED BY <1>2, <1>3, Zenon

\* Every reachable state of the TCP listener satisfies the inductive invariant:
\* the mutexes exclude whom they are to exclude, and the bytes of the running call,
\* of the running write and of each client are accounted for.
THEOREM Invariant == Spec => []IInv
<1>1. QED BY InitIInv, NextIInv, PTL DEF Spec

\* What the threads hand to ht_tcp_listener_push_events is written to the server
\* completely and in order, whatever the size of the buffer and of the events.
THEOREM WireIsLogTheorem == Spec => []WireIsLog
<1>1. IInv => WireIsLog
  BY Zenon DEF IInv
<1>2. QED BY <1>1, Invariant, PTL

\* Between two calls of ht_tcp_server_write no client in the bag misses a byte,
\* although broken ones are removed from the bag while the loop runs over it and new
\* ones are added by the accept thread.
THEOREM ClientsUpToDateTheorem == Spec => []ClientsUpToDate
<1>1. IInv => ClientsUpToDate
  BY Zenon DEF IInv, SentInv
<1>2. QED BY <1>1, Invariant, PTL

\* ClientsGetPrefix follows: the first byte behind the metadata is one the listener
\* accepted, at the place where the client's part of the stream begins.
LEMMA StreamsBegin == IInv => ClientsGetPrefix
<1> SUFFICES ASSUME IInv PROVE ClientsGetPrefix
  BY Zenon
<1>1. /\ TypeOK /\ CallInv /\ RestInv /\ WireIsLog /\ BoundaryInv /\ SentInv
  BY Zenon DEF IInv
<1>2. \A c \in Clients : Begins(received[c], Due(c))
  BY <1>1, Zenon DEF SentInv
<1>3. ASSUME NEW c \in Clients \ amid, Len(received[c]) > MetaPieces
      PROVE  received[c][MetaPieces + 1][2] = 1
  <2> DEFINE n == start[c]
             d == Dropped(wire, n)
             k == MetaPieces + 1
  <2>1. n \in 0..Len(wire) /\ received[c] \in Seq(Byte) /\ wire \in Seq(Byte)
    BY <1>1, DueType, Zenon DEF TypeOK
  <2>2. /\ d \in Seq(Byte) /\ Len(d) = Len(wire) - n /\ Len(wire) \in Nat
        /\ \A j \in 1..(Len(wire) - n) : d[j] = wire[n + j]
    BY <2>1, DroppedFacts, SeqFacts, Zenon
  <2>3. PICK u \in Seq(Byte) : log = wire \o u
    BY <1>1, WireBegins, ZenonT(60)
  <2>4. /\ Len(log) = Len(wire) + Len(u) /\ Len(u) \in Nat
        /\ \A j \in 1..Len(wire) : log[j] = wire[j]
    BY <2>1, <2>3, CatFacts, SeqFacts, ZenonT(60)
  <2>5. n < Len(log) => log[n + 1][2] = 1
    BY <1>1, Zenon DEF BoundaryInv
  <2> HIDE DEF n, d
  <2>6. /\ MetaBytes \o d \in Seq(Byte) /\ Len(MetaBytes \o d) = MetaPieces + Len(d)
        /\ \A j \in (MetaPieces + 1)..(MetaPieces + Len(d)) : (MetaBytes \o d)[j] = d[j - MetaPieces]
    <3>1. MetaBytes \in Seq(Byte) /\ Len(MetaBytes) = MetaPieces /\ d \in Seq(Byte)
      BY <2>2, MetaType, Zenon
    <3>2. /\ MetaBytes \o d \in Seq(Byte) /\ Len(MetaBytes \o d) = Len(MetaBytes) + Len(d)
          /\ \A j \in (Len(MetaBytes) + 1)..(Len(MetaBytes) + Len(d)) :
               (MetaBytes \o d)[j] = d[j - Len(MetaBytes)]
      BY <3>1, CatFacts, Zenon
    <3>3. QED BY <3>1, <3>2, Zenon
  <2>7. /\ Len(received[c]) <= MetaPieces + Len(d) /\ Len(received[c]) \in Nat
        /\ \A j \in 1..Len(received[c]) : received[c][j] = (MetaBytes \o d)[j]
    <3>1. Begins(received[c], MetaBytes \o d)
      BY <1>2, Zenon DEF Due, d, n
    <3>2. QED BY <2>1, <2>6, <3>1, BeginsIs, SeqFacts, ZenonT(60)
  <2>8. /\ MetaPieces \in Nat /\ Len(d) >= 1 /\ Len(d) \in Nat /\ n < Len(wire) /\ n \in Nat
        /\ k \in 1..Len(received[c]) /\ k \in (MetaPieces + 1)..(MetaPieces + Len(d))
        /\ k - MetaPieces = 1
    <3>1. /\ MetaPieces \in Nat /\ Len(d) \in Nat /\ n \in 0..Len(wire)
          /\ Len(received[c]) > MetaPieces
      BY <1>3, <2>1, <2>2, MetaType, SeqFacts, Zenon DEF n
    <3>2. /\ Len(received[c]) \in Nat /\ Len(wire) \in Nat
          /\ Len(received[c]) <= MetaPieces + Len(d) /\ Len(d) = Len(wire) - n
      BY <2>2, <2>7, Zenon
    <3>3. \A m, e, r \in Nat : r > m /\ r <= m + e =>
            /\ e >= 1 /\ m + 1 \in 1..r /\ m + 1 \in (m + 1)..(m + e) /\ (m + 1) - m = 1
      BY SMTT(60)
    <3>4. Len(d) >= 1 /\ k \in 1..Len(received[c]) /\ k \in (MetaPieces + 1)..(MetaPieces + Len(d))
          /\ k - MetaPieces = 1
      BY <3>1, <3>2, <3>3, Zenon
    <3>5. \A w \in Nat : \A s \in 0..w : w - s >= 1 => s < w /\ s \in Nat
      BY SMTT(60)
    <3>6. QED BY <3>1, <3>2, <3>4, <3>5, Zenon
  <2>9. received[c][k] = d[1]
    BY <2>6, <2>7, <2>8, Zenon
  <2>10. 1 \in 1..(Len(wire) - n) /\ n + 1 \in 1..Len(wire) /\ n < Len(log)
    <3>1. \A w, s, e \in Nat : s < w =>
            1 \in 1..(w - s) /\ s + 1 \in 1..w /\ s < w + e
      BY SMTT(60)
    <3>2. QED BY <2>2, <2>4, <2>8, <3>1, Zenon
  <2>11. d[1] = wire[n + 1] /\ wire[n + 1] = log[n + 1]
    BY <2>2, <2>4, <2>10, Zenon
  <2>12. QED BY <2>5, <2>9, <2>10, <2>11, Zenon
<1>4. QED BY <1>2, <1>3, Zenon DEF ClientsGetPrefix, StartsWithEvent

\* What a client receives begins with the metadata, goes on with what is written
\* after it was added, and starts with a whole event unless the client was added
\* while an event was pushed.
THEOREM ClientsGetPrefixTheorem == Spec => []ClientsGetPrefix
<1>1. QED BY StreamsBegin, Invariant, PTL

=============================================================================
