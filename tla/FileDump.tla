------------------------------ MODULE FileDump ------------------------------
(***************************************************************************)
(* The file dump listener (listeners/file_dump_listener.c).                *)
(*                                                                         *)
(* Threads hand chunks of events to the listener's callback; the listener  *)
(* buffers their bytes and writes them to a FILE, which has a buffer of    *)
(* its own in the C library.  Other calls flush, stop and destroy it.  The *)
(* bytes of chunk c are <<c, 1>>, <<c, 2>>, ...; a byte on disk survives   *)
(* the process.                                                            *)
(***************************************************************************)
EXTENDS ListenerBuffer, FiniteSets

CONSTANTS Threads,
          Chunks,      \* what the timelines hand over, each once
          Meta,        \* the metadata chunk pushed by create
          Length,      \* bytes of each chunk and of the metadata
          Raw,         \* chunks that are not serialized yet
          BufferSizes, \* buffer_size of create; 0 is the bypass mode
          EventSizes,  \* possible serialized sizes of one event
          MaxCalls,    \* bound on the flush and stop calls
          Nobody

ASSUME FileDumpAssumption ==
  /\ Meta \notin Chunks
  /\ Nobody \notin Threads
  /\ Length \in [Chunks \cup {Meta} -> Nat \ {0}]
  /\ Raw \subseteq Chunks
  /\ BufferSizes \subseteq Nat
  /\ \A m \in BufferSizes \ {0} :
       EventSizes \subseteq 1..m          \* an event fits into the buffer
  /\ Raw # {} => 1 \in EventSizes        \* every length is a sum of sizes
  /\ MaxCalls \in Nat

VARIABLES
  phase,   \* "none", "created", "registered", "failed" or "freed"
  mtx,     \* the thread inside listener->mtx, or Nobody
  open,    \* p_file # NULL
  maxSize, \* listener->buffer: its max_size ...
  buf,     \* ... and the bytes in it
  stdio,   \* bytes fwrite has taken and the C library still holds
  disk,    \* bytes in the file
  pc,      \* pc[t]: "idle", "lock", "copy"
  chunk,   \* chunk[t]: the chunk the callback of t was called with
  rest,    \* rest[t]: its bytes that are not in the buffer yet
  used,    \* chunks handed over
  nCalls,  \* flush and stop calls so far
  log,     \* history: the bytes the listener has accepted, in order
  synced   \* history: Len(log) at the last flush of the stream

vars == <<phase, mtx, open, maxSize, buf, stdio, disk, pc, chunk, rest, used,
          nCalls, log, synced>>

BytesOf(c) == [k \in 1..Length[c] |-> <<c, k>>]

Init ==
  /\ phase = "none"
  /\ mtx = Nobody
  /\ open = 0
  /\ maxSize = 0
  /\ buf = << >> /\ stdio = << >> /\ disk = << >>
  /\ pc = [t \in Threads |-> "idle"]
  /\ chunk = [t \in Threads |-> Meta]
  /\ rest = [t \in Threads |-> << >>]
  /\ used = {}
  /\ nCalls = 0
  /\ log = << >>
  /\ synced = 0

-----------------------------------------------------------------------------
\* ht_file_dump_listener_create on thread t: the file is open, and the
\* metadata goes through the listener's own callback before anything else.
Create(t) ==
  /\ phase = "none"
  /\ phase' = "created"
  /\ open' = 1
  /\ maxSize' \in BufferSizes
  /\ pc' = [pc EXCEPT ![t] = "lock"]
  /\ chunk' = [chunk EXCEPT ![t] = Meta]
  /\ UNCHANGED <<mtx, buf, stdio, disk, rest, used, nCalls, log, synced>>

\* No memory, or the file cannot be opened: everything is released again.
CreateFails ==
  /\ phase = "none"
  /\ phase' = "failed"
  /\ UNCHANGED <<mtx, open, maxSize, buf, stdio, disk, pc, chunk, rest, used,
                 nCalls, log, synced>>

\* ht_timeline_register_listener_full, once create has returned.
Register ==
  /\ phase = "created"
  /\ \A t \in Threads : pc[t] = "idle"
  /\ phase' = "registered"
  /\ UNCHANGED <<mtx, open, maxSize, buf, stdio, disk, pc, chunk, rest, used,
                 nCalls, log, synced>>

\* A timeline calls ht_file_dump_listener_callback on thread t.  Without a
\* buffer only serialized events are allowed.
Callback(t, c) ==
  /\ phase = "registered"
  /\ pc[t] = "idle"
  /\ c \in Chunks \ used
  /\ c \in Raw => maxSize > 0
  /\ used' = used \cup {c}
  /\ pc' = [pc EXCEPT ![t] = "lock"]
  /\ chunk' = [chunk EXCEPT ![t] = c]
  /\ UNCHANGED <<phase, mtx, open, maxSize, buf, stdio, disk, rest, nCalls, log,
                 synced>>

\* Faulty variant of Lock: the mutex is not waited for.
LockBusy(t) ==
  /\ pc[t] = "lock"
  /\ open = 1
  /\ mtx' = t
  /\ pc' = [pc EXCEPT ![t] = "copy"]
  /\ rest' = [rest EXCEPT ![t] = BytesOf(chunk[t])]
  /\ log' = log \o BytesOf(chunk[t])
  /\ UNCHANGED <<phase, open, maxSize, buf, stdio, disk, chunk, used, nCalls,
                 synced>>

\* The callback has the mutex and the listener is not stopped.
Lock(t) ==
  /\ pc[t] = "lock"
  /\ mtx = Nobody
  /\ open = 1
  /\ mtx' = t
  /\ pc' = [pc EXCEPT ![t] = "copy"]
  /\ rest' = [rest EXCEPT ![t] = BytesOf(chunk[t])]
  /\ log' = log \o BytesOf(chunk[t])
  /\ UNCHANGED <<phase, open, maxSize, buf, stdio, disk, chunk, used, nCalls,
                 synced>>

\* The callback has the mutex, but the listener is stopped: nothing is kept.
LockStopped(t) ==
  /\ pc[t] = "lock"
  /\ mtx = Nobody
  /\ open = 0
  /\ pc' = [pc EXCEPT ![t] = "idle"]
  /\ UNCHANGED <<phase, mtx, open, maxSize, buf, stdio, disk, chunk, rest, used,
                 nCalls, log, synced>>

\* One iteration of a process function, its flush callback (fwrite) included.
Iterate(t, step) ==
  /\ pc[t] = "copy"
  /\ rest[t] # << >>
  /\ buf' = step.buf
  /\ stdio' = stdio \o step.out
  /\ rest' = [rest EXCEPT ![t] = step.rest]
  /\ UNCHANGED <<phase, mtx, open, maxSize, disk, pc, chunk, used, nCalls, log,
                 synced>>

CopyBypass(t) ==
  /\ maxSize = 0
  /\ Iterate(t, BypassStep(buf, rest[t]))

CopySerialized(t) ==
  /\ maxSize > 0
  /\ chunk[t] \notin Raw
  /\ Iterate(t, SerializedStep(maxSize, buf, rest[t]))

CopyUnserialized(t) ==
  /\ chunk[t] \in Raw
  /\ \E n \in EventSizes :
       /\ n <= Len(rest[t])
       /\ Iterate(t, UnserializedStep(maxSize, buf, rest[t], n))

Unlock(t) ==
  /\ pc[t] = "copy"
  /\ rest[t] = << >>
  /\ mtx' = Nobody
  /\ pc' = [pc EXCEPT ![t] = "idle"]
  /\ UNCHANGED <<phase, open, maxSize, buf, stdio, disk, chunk, rest, used, nCalls,
                 log, synced>>

-----------------------------------------------------------------------------
\* The application has the listener: create has returned.
Shared ==
  \/ phase = "registered"
  \/ phase = "created" /\ \A t \in Threads : pc[t] = "idle"

\* A call of the application, made inside listener->mtx from start to end.
Call ==
  /\ Shared
  /\ mtx = Nobody
  /\ nCalls < MaxCalls
  /\ nCalls' = nCalls + 1
  /\ UNCHANGED <<mtx, maxSize, pc, chunk, rest, used, log>>

\* ht_file_dump_listener_flush without flush_stream; with it, when fflush
\* fails (the C library may have written a part: Spill).
Flush ==
  /\ Call
  /\ open = 1
  /\ stdio' = stdio \o buf
  /\ buf' = << >>
  /\ UNCHANGED <<phase, open, disk, synced>>

\* ht_file_dump_listener_flush with flush_stream.
FlushStream ==
  /\ Call
  /\ open = 1
  /\ disk' = disk \o stdio \o buf
  /\ stdio' = << >>
  /\ buf' = << >>
  /\ synced' = Len(log)
  /\ UNCHANGED <<phase, open>>

\* Faulty variant of Close: the buffer is released without being written.
CloseUnflushed ==
  /\ open = 1
  /\ disk' = disk \o stdio
  /\ stdio' = << >>
  /\ buf' = << >>
  /\ open' = 0

\* What ht_file_dump_listener_stop does to a listener that is not stopped:
\* flush the buffer, release it, fclose.
Close ==
  /\ open = 1
  /\ disk' = disk \o stdio \o buf
  /\ stdio' = << >>
  /\ buf' = << >>
  /\ open' = 0

Stop ==
  /\ Call
  /\ Close
  /\ UNCHANGED <<phase, synced>>

\* Flush and stop return at once when the listener is stopped.
CallStopped ==
  /\ Call
  /\ open = 0
  /\ UNCHANGED <<phase, open, buf, stdio, disk, synced>>

\* ht_file_dump_listener_destroy: the timelines are gone, or registering the
\* listener has failed; nobody else uses it any more.
Destroy ==
  /\ phase \in {"created", "registered"}
  /\ \A t \in Threads : pc[t] = "idle"
  /\ phase' = "freed"
  /\ \/ Close
     \/ open = 0 /\ UNCHANGED <<open, buf, stdio, disk>>
  /\ UNCHANGED <<mtx, maxSize, pc, chunk, rest, used, nCalls, log, synced>>

\* The C library writes a part of its buffer whenever it likes.
Spill ==
  /\ \E n \in 1..Len(stdio) :
       /\ disk' = disk \o Taken(stdio, n)
       /\ stdio' = Dropped(stdio, n)
  /\ UNCHANGED <<phase, mtx, open, maxSize, buf, pc, chunk, rest, used, nCalls,
                 log, synced>>

Work(t) ==
  \/ Lock(t) \/ LockStopped(t) \/ Unlock(t)
  \/ CopyBypass(t) \/ CopySerialized(t) \/ CopyUnserialized(t)

Next ==
  \/ CreateFails \/ Register
  \/ Flush \/ FlushStream \/ Stop \/ CallStopped \/ Destroy \/ Spill
  \/ \E t \in Threads : Create(t) \/ Work(t)
  \/ \E t \in Threads, c \in Chunks : Callback(t, c)

Spec == Init /\ [][Next]_vars

\* A thread inside the callback keeps running.  It may find the mutex taken
\* again and again, but the others only make finitely many calls.
FairSpec == Spec /\ \A t \in Threads : WF_vars(Work(t))

-----------------------------------------------------------------------------
\* Properties.

\* The bytes the callback that holds the mutex has still to copy.
Unread == IF mtx = Nobody THEN << >> ELSE rest[mtx]

\* The file, followed by what the C library, the listener's buffer and the
\* running callback hold, is exactly what was accepted: no byte is lost,
\* repeated or reordered and no two chunks are mixed, wherever the buffer
\* boundaries fall and whoever flushes or stops the listener in between.  In
\* particular a process that dies leaves a prefix of the trace in the file.
FileIsPrefix == disk \o stdio \o buf \o Unread = log

\* listener_buffer.c never copies or serializes past the end of its buffer.
NoOverflow == Len(buf) <= maxSize

\* After stop, or destroy, the file has everything that was accepted, and a
\* successful flush of the stream brings everything accepted before it to the
\* file.
CompleteWhenFlushed == (open = 0 => disk = log) /\ Len(disk) >= synced

\* Every callback returns: the copy loops make progress on every iteration,
\* also when unserialized events have left the buffer exactly full.
CallbacksReturn == \A t \in Threads : pc[t] # "idle" ~> pc[t] = "idle"

-----------------------------------------------------------------------------
\* What the proofs of the properties rest on.

Byte == (Chunks \cup {Meta}) \X Nat

\* The types of the variables.
TypeOK ==
  /\ phase \in {"none", "created", "registered", "failed", "freed"}
  /\ mtx \in Threads \cup {Nobody}
  /\ open \in {0, 1}
  /\ maxSize \in BufferSizes \cup {0}
  /\ buf \in Seq(Byte) /\ stdio \in Seq(Byte) /\ disk \in Seq(Byte)
  /\ pc \in [Threads -> {"idle", "lock", "copy"}]
  /\ chunk \in [Threads -> Chunks \cup {Meta}]
  /\ rest \in [Threads -> Seq(Byte)]
  /\ log \in Seq(Byte)
  /\ synced \in Nat

\* A callback that copies holds listener->mtx, only the callback of create runs
\* before the listener is registered, and none after it is destroyed; events that
\* are not serialized only come to a listener with a buffer.
CallInv ==
  /\ \A t \in Threads : pc[t] = "copy" <=> mtx = t
  /\ phase \in {"none", "failed", "freed"} => \A t \in Threads : pc[t] = "idle"
  /\ \A t \in Threads : pc[t] # "idle" /\ chunk[t] \in Raw => maxSize > 0

\* The file is not closed while a callback copies, and nothing is left behind
\* when it is.
OpenInv ==
  /\ phase = "none" => open = 0
  /\ mtx # Nobody => open = 1
  /\ open = 0 => buf = << >> /\ stdio = << >>

\* The inductive invariant.
IInv ==
  /\ TypeOK
  /\ CallInv
  /\ OpenInv
  /\ NoOverflow
  /\ FileIsPrefix
  /\ Len(disk) >= synced

=============================================================================
