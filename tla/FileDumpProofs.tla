--------------------------- MODULE FileDumpProofs ---------------------------
(***************************************************************************)
(* Proofs about FileDump, for any number of threads, chunks of any length  *)
(* and every buffer size: the file is a prefix of what was accepted, the   *)
(* buffer is never overrun, and flush and stop complete the file.          *)
(***************************************************************************)
EXTENDS FileDump, ListenerBufferProofs

\* The bytes of a chunk are bytes.
LEMMA BytesType ==
  ASSUME NEW c \in Chunks \cup {Meta}
  PROVE  BytesOf(c) \in Seq(Byte)
<1>1. Length[c] \in Nat
  BY FileDumpAssumption, Zenon
<1>2. \A k \in 1..Length[c] : <<c, k>> \in Byte
  BY <1>1 DEF Byte
<1>3. QED BY <1>1, <1>2 DEF BytesOf

\* The queues when the last ones are empty.
LEMMA EmptyQueues ==
  ASSUME NEW d \in Seq(Byte), NEW s \in Seq(Byte), NEW b \in Seq(Byte)
  PROVE  /\ Cat(d, s) \in Seq(Byte)
         /\ Cat(Cat(Cat(d, s), b), << >>) = Cat(Cat(d, s), b)
         /\ Cat(Cat(Cat(d, s), << >>), << >>) = Cat(d, s)
         /\ Cat(Cat(Cat(d, << >>), << >>), << >>) = d
<1>1. Cat(d, s) \in Seq(Byte)
  BY CatType, Zenon
<1>2. Cat(Cat(d, s), b) \in Seq(Byte)
  BY <1>1, CatType, Zenon
<1>3. QED BY <1>1, <1>2, CatEmpty, Zenon

\* An iteration of a process function, as listener_buffer.c is called here, is
\* sound: an event that is not serialized fits into the buffer.
LEMMA CopySound ==
  ASSUME IInv, NEW t \in Threads,
         CopyBypass(t) \/ CopySerialized(t) \/ CopyUnserialized(t)
  PROVE  \E step : StepSound(Byte, maxSize, buf, rest[t], step) /\ Iterate(t, step)
<1> USE FileDumpAssumption
<1>1. /\ buf \in Seq(Byte) /\ rest[t] \in Seq(Byte)
      /\ maxSize \in Nat /\ Len(buf) <= maxSize
      /\ maxSize > 0 => EventSizes \subseteq 1..maxSize
  BY DEF IInv, TypeOK, NoOverflow
<1>2. CASE CopyBypass(t)
  <2>1. maxSize = 0 /\ buf = << >>
    BY <1>1, <1>2, EmptyFacts DEF CopyBypass
  <2>2. StepSound(Byte, maxSize, buf, rest[t], BypassStep(buf, rest[t]))
    BY <1>1, <2>1, BypassStepSound, Zenon
  <2>3. QED BY <1>2, <2>2, Zenon DEF CopyBypass
<1>3. CASE CopySerialized(t)
  <2>1. StepSound(Byte, maxSize, buf, rest[t], SerializedStep(maxSize, buf, rest[t]))
    BY <1>1, SerializedStepSound, Zenon
  <2>2. QED BY <1>3, <2>1, Zenon DEF CopySerialized
<1>4. CASE CopyUnserialized(t)
  <2>1. PICK n \in EventSizes :
          n <= Len(rest[t]) /\ Iterate(t, UnserializedStep(maxSize, buf, rest[t], n))
    BY <1>4, Zenon DEF CopyUnserialized
  <2>2. pc[t] = "copy" /\ chunk[t] \in Raw
    BY <1>4, <2>1, Zenon DEF CopyUnserialized, Iterate
  <2>3. maxSize > 0
    BY <2>2, Zenon DEF IInv, CallInv
  <2>4. n \in 0..Len(rest[t]) /\ n <= maxSize
    BY <1>1, <2>1, <2>3, SeqFacts
  <2>5. StepSound(Byte, maxSize, buf, rest[t], UnserializedStep(maxSize, buf, rest[t], n))
    BY <1>1, <2>4, UnserializedStepSound, Zenon
  <2>6. QED BY <2>1, <2>5, Zenon
<1>5. QED BY <1>2, <1>3, <1>4, Zenon

\* Such an iteration moves bytes from the running callback to the buffer and
\* from the buffer to the C library, and loses none.
LEMMA IterateKeeps ==
  ASSUME IInv, NEW t \in Threads, NEW step,
         StepSound(Byte, maxSize, buf, rest[t], step), Iterate(t, step)
  PROVE  IInv'
<1>1. TypeOK /\ CallInv /\ OpenInv /\ FileIsPrefix
  BY Zenon DEF IInv
<1>2. /\ step.out \in Seq(Byte) /\ step.buf \in Seq(Byte) /\ step.rest \in Seq(Byte)
      /\ Len(step.buf) <= maxSize
      /\ Cat(step.out, Cat(step.buf, step.rest)) = Cat(buf, rest[t])
  BY Zenon DEF StepSound
<1>3. /\ pc[t] = "copy" /\ mtx = t /\ t # Nobody
      /\ buf' = step.buf /\ stdio' = Cat(stdio, step.out)
      /\ rest' = [rest EXCEPT ![t] = step.rest]
      /\ UNCHANGED <<phase, mtx, open, maxSize, disk, pc, chunk, log, synced>>
  BY <1>1, FileDumpAssumption, Zenon DEF Iterate, CallInv, Cat
<1>4. stdio' \in Seq(Byte)
  BY <1>1, <1>2, <1>3, CatType, Zenon DEF TypeOK
<1>5. TypeOK'
  BY <1>1, <1>2, <1>3, <1>4, Zenon DEF TypeOK
<1>6. CallInv' /\ OpenInv'
  BY <1>1, <1>3 DEF CallInv, OpenInv, TypeOK
<1>7. NoOverflow'
  BY <1>2, <1>3, Zenon DEF NoOverflow
<1>8. FileIsPrefix'
  <2>1. Unread = rest[t] /\ Unread' = step.rest
    BY <1>1, <1>3, Zenon DEF Unread, TypeOK
  <2>2. disk \in Seq(Byte) /\ stdio \in Seq(Byte) /\ buf \in Seq(Byte) /\ rest[t] \in Seq(Byte)
    BY <1>1, Zenon DEF TypeOK
  <2>3. Cat(Cat(Cat(disk, stdio), buf), rest[t]) = log
    BY <1>1, <2>1, Zenon DEF FileIsPrefix, Cat
  <2>4. Cat(Cat(Cat(disk, Cat(stdio, step.out)), step.buf), step.rest)
          = Cat(Cat(Cat(disk, stdio), buf), rest[t])
    BY <2>2, StepConserves
  <2>5. QED BY <1>3, <2>1, <2>3, <2>4, Zenon DEF FileIsPrefix, Cat
<1>9. QED BY <1>3, <1>5, <1>6, <1>7, <1>8, Zenon DEF IInv

\* A callback takes the mutex: the bytes it accepts are behind all the others.
LEMMA LockKeeps ==
  ASSUME IInv, NEW t \in Threads, Lock(t)
  PROVE  IInv'
<1>1. TypeOK /\ CallInv /\ OpenInv /\ NoOverflow /\ FileIsPrefix
  BY Zenon DEF IInv
<1>2. BytesOf(chunk[t]) \in Seq(Byte)
  BY <1>1, BytesType, Zenon DEF TypeOK
<1>3. t # Nobody /\ mtx = Nobody /\ open = 1 /\ pc[t] = "lock"
  BY FileDumpAssumption, Zenon DEF Lock
<1>4. log' = Cat(log, BytesOf(chunk[t])) /\ log' \in Seq(Byte)
  BY <1>1, <1>2, CatType, Zenon DEF Lock, TypeOK, Cat
<1>5. TypeOK'
  BY <1>1, <1>2, <1>4, Zenon DEF Lock, TypeOK
<1>6. CallInv' /\ OpenInv'
  BY <1>1, <1>3, FileDumpAssumption, Zenon DEF Lock, CallInv, OpenInv, TypeOK
<1>7. FileIsPrefix'
  <2>1. Unread = << >> /\ Unread' = BytesOf(chunk[t])
    BY <1>1, <1>3, <1>5, Zenon DEF Unread, TypeOK, Lock
  <2>2. disk \in Seq(Byte) /\ stdio \in Seq(Byte) /\ buf \in Seq(Byte)
    BY <1>1, Zenon DEF TypeOK
  <2>3. Cat(Cat(Cat(disk, stdio), buf), << >>) = log
    BY <1>1, <2>1, Zenon DEF FileIsPrefix, Cat
  <2>4. Cat(Cat(disk, stdio), buf) = log
    BY <2>2, <2>3, EmptyQueues, Zenon
  <2>5. Cat(Cat(Cat(disk, stdio), buf), Unread') = log'
    BY <1>4, <2>1, <2>4, Zenon
  <2>6. UNCHANGED <<disk, stdio, buf>>
    BY Zenon DEF Lock
  <2>7. QED BY <2>5, <2>6, Zenon DEF FileIsPrefix, Cat
<1>8. NoOverflow' /\ (Len(disk) >= synced)'
  BY Zenon DEF Lock, IInv, NoOverflow
<1>9. QED BY <1>5, <1>6, <1>7, <1>8, Zenon DEF IInv

\* Between two callbacks, everything accepted is in the file, in the C library or
\* in the buffer; after a call that empties both of these it is in the file.
LEMMA BetweenCallbacks ==
  ASSUME IInv, mtx = Nobody
  PROVE  /\ Cat(Cat(disk, stdio), buf) = log
         /\ Cat(disk, Cat(stdio, buf)) = log
         /\ Cat(stdio, buf) \in Seq(Byte)
         /\ stdio = << >> /\ buf = << >> => disk = log
<1>1. /\ disk \in Seq(Byte) /\ stdio \in Seq(Byte) /\ buf \in Seq(Byte)
      /\ FileIsPrefix
  BY Zenon DEF IInv, TypeOK
<1>2. Unread = << >>
  BY Zenon DEF Unread
<1>3. Cat(Cat(Cat(disk, stdio), buf), << >>) = log
  BY <1>1, <1>2, Zenon DEF FileIsPrefix, Cat
<1>4. Cat(Cat(disk, stdio), buf) = log
  BY <1>1, <1>3, EmptyQueues, Zenon
<1>5. Cat(disk, Cat(stdio, buf)) = log
  BY <1>1, <1>4, CatAssoc
<1>6. stdio = << >> /\ buf = << >> => disk = log
  BY <1>1, <1>4, CatEmpty, Zenon
<1>7. QED BY <1>1, <1>4, <1>5, <1>6, CatType, Zenon

\* The other steps of a callback and of the listener's life leave the bytes
\* where they are.
LEMMA QuietKeeps ==
  ASSUME IInv,
         \/ CreateFails \/ Register \/ CallStopped \/ UNCHANGED vars
         \/ \E t \in Threads :
              \/ Create(t) \/ LockStopped(t) \/ Unlock(t)
              \/ \E c \in Chunks : Callback(t, c)
  PROVE  IInv'
<1> USE FileDumpAssumption
<1>1. TypeOK /\ CallInv /\ OpenInv /\ NoOverflow /\ FileIsPrefix /\ Len(disk) >= synced
  BY Zenon DEF IInv
<1>2. CASE CreateFails \/ Register \/ CallStopped \/ UNCHANGED vars
  <2>1. /\ UNCHANGED <<mtx, open, maxSize, buf, stdio, disk, pc, chunk, rest, log, synced>>
        /\ phase' \in {phase, "failed", "registered"}
        /\ phase' = "failed" => phase \in {"none", "failed"}
        /\ phase' = "none" => phase = "none"
    BY <1>1, <1>2, Zenon DEF CreateFails, Register, CallStopped, Call, vars
  <2>2. QED BY <1>1, <2>1, Zenon DEF IInv, TypeOK, CallInv, OpenInv, NoOverflow, FileIsPrefix, Unread
<1>3. ASSUME NEW t \in Threads, Create(t) PROVE IInv'
  <2>1. buf = << >> /\ pc[t] = "idle" /\ \A u \in Threads : pc[u] = "idle"
    BY <1>1, <1>3, Zenon DEF Create, CallInv, OpenInv
  <2>2. mtx = Nobody /\ maxSize' \in Nat
    BY <1>1, <1>3, <2>1, Zenon DEF Create, CallInv, TypeOK
  <2>3. Len(buf) = 0
    BY <2>1, EmptyFacts, Zenon
  <2>4. TypeOK' /\ NoOverflow'
    BY <1>1, <1>3, <2>2, <2>3 DEF Create, TypeOK, NoOverflow
  <2>5. CallInv' /\ OpenInv'
    BY <1>1, <1>3, <2>1, <2>2, Zenon DEF Create, TypeOK, CallInv, OpenInv
  <2>6. FileIsPrefix' /\ (Len(disk) >= synced)'
    BY <1>1, <1>3, Zenon DEF Create, FileIsPrefix, Unread
  <2>7. QED BY <2>4, <2>5, <2>6, Zenon DEF IInv
<1>4. ASSUME NEW t \in Threads, LockStopped(t) \/ \E c \in Chunks : Callback(t, c)
      PROVE  IInv'
  <2>1. TypeOK' /\ CallInv'
    <3>1. CASE LockStopped(t)
      BY <1>1, <3>1, Zenon DEF LockStopped, TypeOK, CallInv
    <3>2. ASSUME NEW c \in Chunks, Callback(t, c) PROVE TypeOK' /\ CallInv'
      <4>1. TypeOK'
        BY <1>1, <3>2, Zenon DEF Callback, TypeOK
      <4>2. CallInv'
        BY <1>1, <3>2, Zenon DEF Callback, TypeOK, CallInv
      <4>3. QED BY <4>1, <4>2, Zenon
    <3>3. QED BY <1>4, <3>1, <3>2, Zenon
  <2>2. OpenInv' /\ NoOverflow' /\ FileIsPrefix' /\ (Len(disk) >= synced)'
    BY <1>1, <1>4, Zenon DEF LockStopped, Callback, OpenInv, NoOverflow, FileIsPrefix, Unread
  <2>3. QED BY <2>1, <2>2, Zenon DEF IInv
<1>5. ASSUME NEW t \in Threads, Unlock(t) PROVE IInv'
  <2>1. mtx = t /\ rest[t] = << >>
    BY <1>1, <1>5, Zenon DEF Unlock, CallInv
  <2>2. TypeOK' /\ CallInv' /\ OpenInv' /\ NoOverflow' /\ (Len(disk) >= synced)'
    BY <1>1, <1>5, <2>1, Zenon DEF Unlock, TypeOK, CallInv, OpenInv, NoOverflow
  <2>3. FileIsPrefix'
    BY <1>1, <1>5, <2>1, Zenon DEF Unlock, FileIsPrefix, Unread
  <2>4. QED BY <2>2, <2>3, Zenon DEF IInv
<1>6. QED BY <1>2, <1>3, <1>4, <1>5, Zenon

\* Flush, stop, destroy and the C library move bytes towards the file.
LEMMA FlushKeeps ==
  ASSUME IInv, Flush \/ FlushStream \/ Stop \/ Destroy \/ Spill
  PROVE  IInv'
<1> USE FileDumpAssumption
<1>1. TypeOK /\ CallInv /\ OpenInv /\ NoOverflow /\ FileIsPrefix /\ Len(disk) >= synced
  BY Zenon DEF IInv
<1>2. /\ disk \in Seq(Byte) /\ stdio \in Seq(Byte) /\ buf \in Seq(Byte)
      /\ << >> \in Seq(Byte) /\ Len(<< >>) = 0 /\ maxSize \in Nat
      /\ Len(disk) \in Nat /\ synced \in Nat
  BY <1>1, EmptyFacts, SeqFacts DEF TypeOK
<1>3. CASE Flush
  <2>1. /\ mtx = Nobody /\ stdio' = Cat(stdio, buf) /\ buf' = << >>
        /\ UNCHANGED <<phase, mtx, open, maxSize, disk, pc, chunk, rest, log, synced>>
        /\ open = 1
    BY <1>3, Zenon DEF Flush, Call, Cat
  <2>2. Cat(disk, stdio') = log /\ stdio' \in Seq(Byte)
    BY <2>1, BetweenCallbacks, Zenon
  <2>3. Cat(Cat(Cat(disk', stdio'), buf'), << >>) = log'
    BY <1>2, <2>1, <2>2, EmptyQueues
  <2>4. Unread' = << >>
    BY <2>1, Zenon DEF Unread
  <2>5. FileIsPrefix'
    BY <2>3, <2>4, Zenon DEF FileIsPrefix, Cat
  <2>6. TypeOK' /\ CallInv' /\ OpenInv' /\ NoOverflow' /\ (Len(disk) >= synced)'
    BY <1>1, <1>2, <2>1, <2>2 DEF TypeOK, CallInv, OpenInv, NoOverflow
  <2>7. QED BY <2>5, <2>6, Zenon DEF IInv
<1>4. ASSUME mtx = Nobody, UNCHANGED <<mtx, maxSize, pc, chunk, rest, log>>,
             disk' = Cat(Cat(disk, stdio), buf), stdio' = << >>, buf' = << >>,
             synced' \in {synced, Len(log)}
      PROVE  /\ disk' = log /\ disk' \in Seq(Byte)
             /\ FileIsPrefix' /\ NoOverflow' /\ (Len(disk) >= synced)'
             /\ synced' \in Nat
  <2>1. disk' = log /\ disk' \in Seq(Byte)
    BY <1>1, <1>4, BetweenCallbacks, Zenon DEF TypeOK
  <2>2. Cat(Cat(Cat(disk', stdio'), buf'), << >>) = log'
    BY <1>2, <1>4, <2>1, EmptyQueues, Zenon
  <2>3. Unread' = << >>
    BY <1>4, Zenon DEF Unread
  <2>4. FileIsPrefix'
    BY <2>2, <2>3 DEF FileIsPrefix, Cat
  <2>5. NoOverflow'
    BY <1>2, <1>4 DEF NoOverflow
  <2>6. Len(log) >= synced /\ Len(log) \in Nat
    <3>1. Cat(disk, Cat(stdio, buf)) = log /\ Cat(stdio, buf) \in Seq(Byte)
      BY <1>4, BetweenCallbacks, Zenon
    <3>2. Len(log) = Len(disk) + Len(Cat(stdio, buf))
      BY <1>2, <3>1, CatType
    <3>3. QED BY <1>1, <1>2, <3>1, <3>2, SeqFacts
  <2>7. QED BY <1>2, <1>4, <2>1, <2>4, <2>5, <2>6
<1>5. CASE FlushStream
  <2>1. /\ mtx = Nobody /\ UNCHANGED <<phase, mtx, open, maxSize, pc, chunk, rest, log>>
        /\ disk' = Cat(Cat(disk, stdio), buf) /\ stdio' = << >> /\ buf' = << >>
        /\ synced' = Len(log)
    BY <1>5, Zenon DEF FlushStream, Call, Cat
  <2>2. /\ disk' \in Seq(Byte) /\ synced' \in Nat
        /\ FileIsPrefix' /\ NoOverflow' /\ (Len(disk) >= synced)'
    BY <1>4, <2>1, Zenon
  <2>3. TypeOK' /\ CallInv' /\ OpenInv'
    BY <1>1, <1>2, <2>1, <2>2, Zenon DEF TypeOK, CallInv, OpenInv
  <2>4. QED BY <2>2, <2>3, Zenon DEF IInv
<1>6. CASE Stop \/ (Destroy /\ Close)
  <2>1. /\ mtx = Nobody /\ UNCHANGED <<mtx, maxSize, pc, chunk, rest, log, synced>>
        /\ disk' = Cat(Cat(disk, stdio), buf) /\ stdio' = << >> /\ buf' = << >>
        /\ open' = 0
        /\ \/ phase' = phase /\ phase \in {"created", "registered"}
           \/ phase' = "freed" /\ \A t \in Threads : pc[t] = "idle"
    BY <1>1, <1>6, Zenon DEF Stop, Destroy, Close, Call, Shared, Cat, CallInv, TypeOK
  <2>2. /\ disk' \in Seq(Byte)
        /\ FileIsPrefix' /\ NoOverflow' /\ (Len(disk) >= synced)'
    BY <1>4, <2>1, Zenon
  <2>3. TypeOK' /\ CallInv' /\ OpenInv'
    BY <1>1, <1>2, <2>1, <2>2, Zenon DEF TypeOK, CallInv, OpenInv
  <2>4. QED BY <2>2, <2>3, Zenon DEF IInv
<1>7. CASE Destroy /\ open = 0 /\ UNCHANGED <<open, buf, stdio, disk>>
  <2>1. /\ UNCHANGED <<mtx, open, maxSize, buf, stdio, disk, pc, chunk, rest, log, synced>>
        /\ phase' = "freed" /\ \A t \in Threads : pc[t] = "idle"
    BY <1>7, Zenon DEF Destroy
  <2>2. QED BY <1>1, <2>1, Zenon DEF IInv, TypeOK, CallInv, OpenInv, NoOverflow, FileIsPrefix, Unread
<1>8. CASE Spill
  <2>1. PICK n \in 1..Len(stdio) : /\ disk' = Cat(disk, Taken(stdio, n))
                                  /\ stdio' = Dropped(stdio, n)
    BY <1>8, Zenon DEF Spill, Cat
  <2>2. UNCHANGED <<phase, mtx, open, maxSize, buf, pc, chunk, rest, log, synced>>
    BY <1>8, Zenon DEF Spill
  <2>3. n \in 0..Len(stdio) /\ Len(stdio) # 0
    BY <1>2, <2>1, SeqFacts
  <2>4. /\ Taken(stdio, n) \in Seq(Byte) /\ Dropped(stdio, n) \in Seq(Byte)
        /\ Len(Taken(stdio, n)) = n
        /\ Cat(Taken(stdio, n), Dropped(stdio, n)) = stdio
    <3>1. stdio \in Seq(Byte)
      BY <1>2, Zenon
    <3>2. QED BY <2>3, <3>1, SplitAt, Zenon DEF Cat
  <2>5. disk' \in Seq(Byte) /\ stdio' \in Seq(Byte) /\ Len(disk') = Len(disk) + n
    <3>1. /\ Cat(disk, Taken(stdio, n)) \in Seq(Byte)
          /\ Len(Cat(disk, Taken(stdio, n))) = Len(disk) + Len(Taken(stdio, n))
      BY <1>2, <2>4, CatType, ZenonT(60)
    <3>2. QED BY <2>1, <2>4, <3>1, Zenon
  <2>6. Cat(disk', stdio') = Cat(disk, stdio)
    <3>1. Cat(Cat(disk, Taken(stdio, n)), Dropped(stdio, n))
            = Cat(disk, Cat(Taken(stdio, n), Dropped(stdio, n)))
      BY <1>2, <2>4, CatAssoc
    <3>2. QED BY <2>1, <2>4, <3>1, Zenon
  <2>7. Unread' = Unread
    BY <2>2, Zenon DEF Unread
  <2>8. FileIsPrefix'
    BY <1>1, <2>2, <2>6, <2>7, Zenon DEF FileIsPrefix, Cat
  <2>9. TypeOK' /\ CallInv' /\ OpenInv' /\ NoOverflow' /\ (Len(disk) >= synced)'
    BY <1>1, <1>2, <2>2, <2>3, <2>5, SMTT(60) DEF TypeOK, CallInv, OpenInv, NoOverflow
  <2>10. QED BY <2>8, <2>9, Zenon DEF IInv
<1>9. QED BY <1>3, <1>5, <1>6, <1>7, <1>8, Zenon DEF Destroy

\* Before ht_file_dump_listener_create is called.
LEMMA InitIInv == Init => IInv
<1> SUFFICES ASSUME Init PROVE IInv BY Zenon
<1>1. << >> \in Seq(Byte) /\ Len(<< >>) = 0
  BY EmptyFacts, Zenon
<1>2. TypeOK /\ CallInv /\ OpenInv /\ NoOverflow /\ Len(disk) >= synced
  BY <1>1, FileDumpAssumption DEF Init, TypeOK, CallInv, OpenInv, NoOverflow
<1>3. Unread = << >>
  BY Zenon DEF Init, Unread
<1>4. Cat(Cat(Cat(<< >>, << >>), << >>), << >>) = << >>
  BY <1>1, EmptyQueues, Zenon
<1>5. FileIsPrefix
  BY <1>3, <1>4, Zenon DEF Init, FileIsPrefix, Cat
<1>6. QED BY <1>2, <1>5, Zenon DEF IInv

\* Every step of the listener, its callers and the C library keeps the invariant.
LEMMA StepIInv == IInv /\ [Next]_vars => IInv'
<1> SUFFICES ASSUME IInv, [Next]_vars PROVE IInv' BY Zenon
<1>1. ASSUME NEW t \in Threads, CopyBypass(t) \/ CopySerialized(t) \/ CopyUnserialized(t)
      PROVE  IInv'
  BY <1>1, CopySound, IterateKeeps, Zenon
<1>2. ASSUME NEW t \in Threads, Lock(t) PROVE IInv'
  BY <1>2, LockKeeps, Zenon
<1>3. QED BY <1>1, <1>2, QuietKeeps, FlushKeeps, Zenon DEF Next, Work

\* The inductive invariant holds in every reachable state.
THEOREM Invariant == Spec => []IInv
BY InitIInv, StepIInv, PTL DEF Spec

\* file_dump_listener.c loses, repeats and reorders no byte: the file is always a
\* prefix of what was accepted, whatever the sizes of buffer and chunks.
THEOREM FileIsPrefixTheorem == Spec => []FileIsPrefix
<1>1. IInv => FileIsPrefix
  BY Zenon DEF IInv
<1>2. QED BY <1>1, Invariant, PTL

\* listener_buffer.c never writes past the end of the buffer.
THEOREM NoOverflowTheorem == Spec => []NoOverflow
<1>1. IInv => NoOverflow
  BY Zenon DEF IInv
<1>2. QED BY <1>1, Invariant, PTL

\* After ht_file_dump_listener_stop or _destroy the file is complete, and a flush
\* of the stream brings it up to date.
THEOREM CompleteWhenFlushedTheorem == Spec => []CompleteWhenFlushed
<1>1. IInv => CompleteWhenFlushed
  <2> SUFFICES ASSUME IInv PROVE CompleteWhenFlushed BY Zenon
  <2>1. ASSUME open = 0 PROVE disk = log
    <3>1. mtx = Nobody /\ stdio = << >> /\ buf = << >>
      BY <2>1 DEF IInv, OpenInv
    <3>2. QED BY <3>1, BetweenCallbacks, Zenon
  <2>2. QED BY <2>1, Zenon DEF IInv, CompleteWhenFlushed
<1>2. QED BY <1>1, Invariant, PTL

=============================================================================
