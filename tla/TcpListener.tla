---------------------------- MODULE TcpListener ----------------------------
(***************************************************************************)
(* The TCP listener (listeners/tcp_listener.c) and its server              *)
(* (tcp_server.cpp).                                                       *)
(*                                                                         *)
(* Threads hand events to the listener, which buffers their bytes and      *)
(* writes full buffers to every client of the server; the accept thread of *)
(* the server sends the metadata to a new client and adds it to the bag of *)
(* clients; the Stopper calls ht_tcp_listener_stop.  The bytes of event e  *)
(* are <<e, 1>>, <<e, 2>>, ...; connections break at any time.             *)
(***************************************************************************)
EXTENDS ListenerBuffer

CONSTANTS Threads,
          Stopper,    \* the thread that calls ht_tcp_listener_stop
          Clients,
          Events,     \* what the timelines hand over, each once
          Raw,        \* events that are not serialized yet
          Length,     \* bytes of each event
          MaxSize,    \* max_size of _buffer; 0 is the bypass mode
          Meta, MetaPieces,   \* the metadata: one byte for each write
          Nobody, NoClient, NoEvent

ASSUME TcpListenerAssumption ==
  /\ Stopper \notin Threads /\ Nobody \notin Threads /\ Nobody # Stopper
  /\ NoClient \notin Clients /\ NoEvent \notin Events /\ Meta \notin Events
  /\ Raw \subseteq Events
  /\ Length \in [Events -> Nat \ {0}]
  /\ MaxSize \in Nat
  /\ \A e \in Raw : Length[e] <= MaxSize
  /\ MetaPieces \in Nat \ {0}

VARIABLES
  server,    \* "none"; "up"; "unwanted" when it is to be destroyed because it
             \* did not start or was not registered; "freed" once _tcp_server
             \* is NULL and _buffer deinitialized; "destroyed"
  running,   \* server_sock_fd # -1
  pushMtx,   \* holder of _push_action_mutex
  clientMtx, \* holder of client_mutex
  buf,       \* _buffer
  flushed,   \* _was_flushed
  bag,       \* client_sock_fd
  pc,        \* where each thread and the Stopper is
  event,     \* event[a]: the event a has been called with
  rest,      \* rest[a]: its bytes that are not in the buffer yet
  out,       \* out[a]: the bytes a writes to the server
  after,     \* after[a]: where a goes on when they are written
  index,     \* loop variable of ht_tcp_server_write
  apc,       \* where the accept thread is
  fresh,     \* the client it is handling
  pieces,    \* metadata writes it has made
  waiting,   \* clients that have not been accepted
  broken,    \* clients whose connection is broken
  received,  \* received[c]: what client c was sent
  used,      \* events handed over
  log,       \* history: the bytes the listener has accepted
  wire,      \* history: the bytes written to the server
  start,     \* history: Len(wire) when client c was added to the bag
  amid       \* history: clients added while an event was pushed

vars == <<server, running, pushMtx, clientMtx, buf, flushed, bag, pc,
          event, rest, out, after, index, apc, fresh, pieces, waiting,
          broken, received, used, log, wire, start, amid>>

accepting == <<apc, fresh, pieces, waiting>>
clients   == <<bag, index, broken, received, wire, start, amid>>
mutexes   == <<pushMtx, clientMtx>>
listener  == <<buf, flushed>>

Actors == Threads \cup {Stopper}
BytesOf(e) == [k \in 1..Length[e] |-> <<e, k>>]
MetaBytes == [k \in 1..MetaPieces |-> <<Meta, k>>]

\* Before ht_tcp_listener_register is called.
Init ==
  /\ server = "none" /\ running = FALSE
  /\ pushMtx = Nobody /\ clientMtx = Nobody
  /\ buf = << >> /\ flushed = FALSE
  /\ bag = << >>
  /\ pc = [a \in Actors |-> "idle"]
  /\ event = [a \in Actors |-> NoEvent]
  /\ rest = [a \in Actors |-> << >>]
  /\ out = [a \in Actors |-> << >>]
  /\ after = [a \in Actors |-> "idle"]
  /\ index = 1
  /\ apc = "exit" /\ fresh = NoClient /\ pieces = 0
  /\ waiting = Clients /\ broken = {}
  /\ received = [c \in Clients |-> << >>]
  /\ used = {}
  /\ log = << >> /\ wire = << >>
  /\ start = [c \in Clients |-> 0]
  /\ amid = {}

-----------------------------------------------------------------------------
\* ht_tcp_listener_register.

Create(state, up) ==
  /\ server = "none"
  /\ server' = state
  /\ running' = up
  /\ apc' = IF up THEN "accept" ELSE "exit"
  /\ UNCHANGED <<mutexes, listener, pc, event, rest, out, after, fresh, pieces,
                 waiting, clients, used, log>>

\* The server is created and started, its accept thread runs, and the
\* timeline takes the listener, ...
Registered == Create("up", TRUE)

\* ... or refuses it: the listener is destroyed while clients connect, ...
RegisterFails == Create("unwanted", TRUE)

\* ... or there is no socket, or ht_tcp_server_stop gives it up again because it
\* cannot be bound; there is no accept thread, and the listener is destroyed.
StartFails == Create("unwanted", FALSE)

Register == Registered \/ RegisterFails \/ StartFails

-----------------------------------------------------------------------------
\* send and ht_tcp_server_write_to_socket.

\* All bytes go out, ...
Sent(c, bytes) ==
  /\ c \notin broken
  /\ received' = [received EXCEPT ![c] = @ \o bytes]
  /\ broken' = broken

\* ... or the connection breaks, perhaps after a part of them, ...
Breaks(c, bytes) ==
  /\ c \notin broken /\ bytes # << >>
  /\ \E n \in 0..(Len(bytes) - 1) :
       received' = [received EXCEPT ![c] = @ \o Taken(bytes, n)]
  /\ broken' = broken \cup {c}

\* ... or it was broken before.  Nothing fails when there is nothing to send.
Broken(c, bytes) ==
  /\ c \in broken
  /\ UNCHANGED <<received, broken>>

-----------------------------------------------------------------------------
\* ht_tcp_server_write, called by the flush callback of the listener.

\* The flush callback is entered with these bytes.
StartWrite(a, bytes, next) ==
  /\ pc' = [pc EXCEPT ![a] = "write"]
  /\ out' = [out EXCEPT ![a] = bytes]
  /\ after' = [after EXCEPT ![a] = next]

WriteBegin(a) ==
  /\ pc[a] = "write" /\ clientMtx = Nobody
  /\ clientMtx' = a
  /\ index' = 1
  /\ wire' = wire \o out[a]
  /\ pc' = [pc EXCEPT ![a] = "send"]
  /\ UNCHANGED <<server, running, pushMtx, listener, bag, event, rest, out, after,
                 accepting, broken, received, used, log, start, amid>>

Sending(a) == pc[a] = "send" /\ index <= Len(bag)

WriteClient(a) ==
  /\ Sending(a)
  /\ \/ Sent(bag[index], out[a])
     \/ out[a] = << >> /\ Broken(bag[index], << >>)
  /\ index' = index + 1
  /\ UNCHANGED <<server, running, mutexes, listener, bag, pc, event, rest, out,
                 after, accepting, used, log, wire, start, amid>>

\* ht_bag_int_remove_nth: the last client takes the place of the removed one.
RemoveNth(s, n) ==
  LET front == SubSeq(s, 1, Len(s) - 1)
  IN [k \in DOMAIN front |-> IF k = n THEN s[Len(s)] ELSE s[k]]

Failing(a) ==
  /\ Sending(a) /\ out[a] # << >>
  /\ Breaks(bag[index], out[a]) \/ Broken(bag[index], out[a])
  /\ UNCHANGED <<server, running, mutexes, listener, pc, event, rest, out, after,
                 accepting, used, log, wire, start, amid>>

\* Faulty variant of DropClient: the loop goes on behind the client that took
\* the place of the removed one.
DropClientSkipping(a) == Failing(a) /\ bag' = RemoveNth(bag, index) /\ index' = index + 1

\* The send fails: the client is removed and its place visited again.
DropClient(a) == Failing(a) /\ bag' = RemoveNth(bag, index) /\ index' = index

\* The end of the write; the flush callback sets _was_flushed.
WriteEnd(a) ==
  /\ pc[a] = "send" /\ index > Len(bag)
  /\ clientMtx' = Nobody
  /\ flushed' = TRUE
  /\ out' = [out EXCEPT ![a] = << >>]
  /\ pc' = [pc EXCEPT ![a] = after[a]]
  /\ UNCHANGED <<server, running, pushMtx, buf, event, rest, after,
                 accepting, clients, used, log>>

Write(a) == WriteBegin(a) \/ WriteClient(a) \/ DropClient(a) \/ WriteEnd(a)

-----------------------------------------------------------------------------
\* ht_tcp_listener_push_events.

Callback(t, e) ==
  /\ pc[t] = "idle" /\ e \notin used
  /\ server \in {"up", "freed"} /\ pc[Stopper] \in {"idle", "stopped"}
  /\ used' = used \cup {e}
  /\ event' = [event EXCEPT ![t] = e]
  /\ pc' = [pc EXCEPT ![t] = "lock"]
  /\ UNCHANGED <<server, running, mutexes, listener, rest, out, after, accepting,
                 clients, log>>

Lock(t) ==
  /\ pc[t] = "lock" /\ pushMtx = Nobody
  /\ server = "up" /\ running
  /\ pushMtx' = t
  /\ rest' = [rest EXCEPT ![t] = BytesOf(event[t])]
  /\ log' = log \o BytesOf(event[t])
  /\ pc' = [pc EXCEPT ![t] = "copy"]
  /\ UNCHANGED <<server, running, clientMtx, listener, event, out, after, accepting,
                 clients, used>>

\* The listener is stopped, or its server does not run.
LockStopped(t) ==
  /\ pc[t] = "lock" /\ pushMtx = Nobody
  /\ server # "up" \/ ~running
  /\ pc' = [pc EXCEPT ![t] = "idle"]
  /\ UNCHANGED <<server, running, mutexes, listener, event, rest, out, after,
                 accepting, clients, used, log>>

\* One iteration of a process function; when it flushes, a write follows.
Copy(t) ==
  /\ pc[t] = "copy" /\ rest[t] # << >>
  /\ LET step == CASE MaxSize = 0 -> BypassStep(buf, rest[t])
                   [] MaxSize > 0 /\ event[t] \in Raw ->
                        UnserializedStep(MaxSize, buf, rest[t], Len(rest[t]))
                   [] OTHER -> SerializedStep(MaxSize, buf, rest[t])
     IN /\ buf' = step.buf
        /\ rest' = [rest EXCEPT ![t] = step.rest]
        /\ IF step.out = << >> THEN UNCHANGED <<pc, out, after>>
                               ELSE StartWrite(t, step.out, "copy")
  /\ UNCHANGED <<server, running, mutexes, flushed, event, accepting,
                 clients, used, log>>

\* Faulty variant of FlushRest: the usage of the buffer is not reset.
FlushRestKeeping(t) ==
  /\ pc[t] = "copy" /\ rest[t] = << >> /\ flushed
  /\ StartWrite(t, buf, "unlock")
  /\ UNCHANGED <<server, running, mutexes, listener, event, rest, accepting, clients,
                 used, log>>

\* Something was flushed, so the rest of the last event is flushed as well.
FlushRest(t) ==
  /\ pc[t] = "copy" /\ rest[t] = << >> /\ flushed
  /\ buf' = << >>
  /\ StartWrite(t, buf, "unlock")
  /\ UNCHANGED <<server, running, mutexes, flushed, event, rest, accepting,
                 clients, used, log>>

\* Nothing was flushed.
NoFlush(t) ==
  /\ pc[t] = "copy" /\ rest[t] = << >> /\ ~flushed
  /\ pc' = [pc EXCEPT ![t] = "unlock"]
  /\ UNCHANGED <<server, running, mutexes, listener, event, rest, out, after,
                 accepting, clients, used, log>>

Unlock(t) ==
  /\ pc[t] = "unlock"
  /\ flushed' = FALSE
  /\ pushMtx' = Nobody
  /\ pc' = [pc EXCEPT ![t] = "idle"]
  /\ UNCHANGED <<server, running, clientMtx, buf, event, rest, out, after,
                 accepting, clients, used, log>>

Push(t) ==
  \/ Lock(t) \/ LockStopped(t) \/ Copy(t) \/ FlushRest(t) \/ NoFlush(t)
  \/ Unlock(t) \/ Write(t)

-----------------------------------------------------------------------------
\* _ht_tcp_server_run, the accept thread.

AcceptClient(c) ==
  /\ apc = "accept" /\ running /\ c \in waiting
  /\ waiting' = waiting \ {c}
  /\ fresh' = c
  /\ pieces' = 0
  /\ apc' = "meta"
  /\ UNCHANGED <<server, running, mutexes, listener, pc, event, rest, out, after,
                 clients, used, log>>

\* accept fails because ht_tcp_server_stop has shut the socket down.
AcceptFails ==
  /\ apc = "accept" /\ ~running
  /\ apc' = "exit"
  /\ UNCHANGED <<server, running, mutexes, listener, pc, event, rest, out, after,
                 fresh, pieces, waiting, clients, used, log>>

\* ht_tcp_listener_metadata_pusher: one write to the new client, inside
\* _push_action_mutex.  Its result is ignored.
PushMetadata ==
  /\ apc = "meta" /\ pushMtx = Nobody
  /\ LET bytes == <<MetaBytes[pieces + 1]>>
     IN Sent(fresh, bytes) \/ Breaks(fresh, bytes) \/ Broken(fresh, bytes)
  /\ pieces' = pieces + 1
  /\ apc' = IF pieces + 1 = MetaPieces THEN "connected" ELSE "meta"
  /\ UNCHANGED <<server, running, mutexes, listener, pc, event, rest, out, after,
                 fresh, waiting, bag, index, wire, start, amid, used,
                 log>>

\* The end of ht_tcp_listener_client_connected: the application's callback.
Connected ==
  /\ apc = "connected"
  /\ apc' = "add"
  /\ UNCHANGED <<server, running, mutexes, listener, pc, event, rest, out, after,
                 fresh, pieces, waiting, clients, used, log>>

Adding ==
  /\ apc = "add"
  /\ bag' = Append(bag, fresh)
  /\ start' = [start EXCEPT ![fresh] = Len(wire)]
  /\ amid' = IF \A t \in Threads : pc[t] \in {"idle", "lock"}
               THEN amid ELSE amid \cup {fresh}
  /\ fresh' = NoClient
  /\ apc' = "accept"
  /\ UNCHANGED <<server, running, mutexes, listener, pc, event, rest, out, after,
                 pieces, waiting, index, broken, received, wire, used, log>>

\* Faulty variant of AddClient: client_mutex is not taken.
AddClientUnlocked == Adding

\* The client is added to the bag.
AddClient == clientMtx = Nobody /\ Adding

Accepting ==
  \/ \E c \in Clients : AcceptClient(c)
  \/ AcceptFails \/ PushMetadata \/ Connected \/ AddClient

-----------------------------------------------------------------------------
\* ht_tcp_listener_stop, called once: by the application or by destroy, and
\* not while an event is pushed (a thread inside push_events would go on with
\* a buffer and a server that are released).

MayStop ==
  /\ server \in {"up", "unwanted"}
  /\ pc[Stopper] = "idle" /\ pushMtx = Nobody
  /\ \A t \in Threads : pc[t] = "idle"

\* Faulty variant of Stop: the mutex is kept while the server is stopped.
StopLocked ==
  /\ MayStop
  /\ pushMtx' = Stopper
  /\ buf' = << >>
  /\ StartWrite(Stopper, buf, "clear")
  /\ UNCHANGED <<server, running, clientMtx, flushed, event, rest,
                 accepting, clients, used, log>>

\* The mutex is taken, and released at once when the listener is not stopped;
\* then the buffer is flushed.
Stop ==
  /\ MayStop
  /\ buf' = << >>
  /\ StartWrite(Stopper, buf, "clear")
  /\ UNCHANGED <<server, running, mutexes, flushed, event, rest,
                 accepting, clients, used, log>>

\* ht_tcp_server_stop: a server that does not run has nothing to stop.
StopNotRunning ==
  /\ pc[Stopper] = "clear" /\ ~running
  /\ pc' = [pc EXCEPT ![Stopper] = "release"]
  /\ UNCHANGED <<server, running, mutexes, listener, event, rest, out, after,
                 accepting, clients, used, log>>

\* Forget the clients, ...
StopClear ==
  /\ pc[Stopper] = "clear" /\ running /\ clientMtx = Nobody
  /\ bag' = << >>
  /\ pc' = [pc EXCEPT ![Stopper] = "shut"]
  /\ UNCHANGED <<server, running, mutexes, listener, event, rest, out, after,
                 accepting, index, broken, received, wire, start, amid, used,
                 log>>

\* ... shut the socket down, ...
StopShut ==
  /\ pc[Stopper] = "shut"
  /\ running' = FALSE
  /\ pc' = [pc EXCEPT ![Stopper] = "join"]
  /\ UNCHANGED <<server, mutexes, listener, event, rest, out, after, accepting,
                 clients, used, log>>

\* ... and join the accept thread, if there is one.
StopJoin ==
  /\ pc[Stopper] = "join" /\ apc = "exit"
  /\ pc' = [pc EXCEPT ![Stopper] = "release"]
  /\ UNCHANGED <<server, running, mutexes, listener, event, rest, out, after,
                 accepting, clients, used, log>>

\* Buffer and server are released, and the mutex is unlocked twice although
\* this thread does not hold it, which may or may not take it away from the
\* thread that does.
StopRelease ==
  /\ pc[Stopper] = "release"
  /\ server' = IF server = "unwanted" THEN "destroyed" ELSE "freed"
  /\ pushMtx' \in {pushMtx, Nobody}
  /\ pc' = [pc EXCEPT ![Stopper] = "stopped"]
  /\ UNCHANGED <<running, clientMtx, listener, event, rest, out, after, accepting,
                 clients, used, log>>

\* The rest of ht_tcp_listener_destroy: no timeline has the listener any more.
Destroy ==
  /\ server = "freed" /\ pc[Stopper] = "stopped"
  /\ \A t \in Threads : pc[t] = "idle"
  /\ server' = "destroyed"
  /\ UNCHANGED <<running, mutexes, listener, pc, event, rest, out, after,
                 accepting, clients, used, log>>

Stopping ==
  \/ Stop \/ StopNotRunning \/ StopClear \/ StopShut \/ StopJoin
  \/ StopRelease \/ Write(Stopper)

Next ==
  \/ Register \/ Accepting \/ Stopping \/ Destroy
  \/ \E t \in Threads : Push(t) \/ \E e \in Events : Callback(t, e)

Spec == Init /\ [][Next]_vars

\* Threads keep running and send returns, with an error if the connection is
\* broken.  A mutex is not withheld from the accept thread or the Stopper
\* for ever, as only finitely many events are pushed.
FairSpec ==
  /\ Spec
  /\ WF_vars(Accepting)
  /\ WF_vars(Stopping /\ (pc[Stopper] # "idle" \/ server = "unwanted"))
  /\ \A t \in Threads : WF_vars(Push(t))

-----------------------------------------------------------------------------
(***************************************************************************)
(* Properties.                                                             *)
(***************************************************************************)

\* The bytes accepted and not yet written, in the order in which they will be.
Unsent ==
  LET w == {a \in Actors : pc[a] = "write"}
      c == {a \in Actors : rest[a] # << >>}
  IN (IF w = {} THEN << >> ELSE out[CHOOSE a \in w : TRUE]) \o buf
       \o (IF c = {} THEN << >> ELSE rest[CHOOSE a \in c : TRUE])

\* What is written to the server, and what waits in the buffer and in the
\* running call, is exactly what was accepted: no byte is lost or reordered.
WireIsLog == wire \o Unsent = log

\* What client c is to receive: the metadata, then everything written since it
\* was added.
Due(c) == MetaBytes \o Dropped(wire, start[c])

\* s is a beginning of t.
Begins(s, t) == Len(s) <= Len(t) /\ s = Taken(t, Len(s))

\* What client c receives after the metadata starts with the first byte of an
\* event.
StartsWithEvent(c) ==
  Len(received[c]) > MetaPieces => received[c][MetaPieces + 1][2] = 1

\* A client receives the beginning of what is written after it was added and
\* nothing else, also when the connection breaks in the middle of a write; and
\* a client that was added between two calls of push_events does not start in
\* the middle of an event: after a call the buffer holds whole events or
\* nothing.
ClientsGetPrefix ==
  /\ \A c \in Clients : Begins(received[c], Due(c))
  /\ \A c \in Clients \ amid : StartsWithEvent(c)

\* Between two writes every client in the bag has everything it is to receive,
\* although failing clients are removed while the loop runs over the bag.
ClientsUpToDate ==
  clientMtx = Nobody =>
    \A p \in DOMAIN bag : bag[p] \notin broken => received[bag[p]] = Due(bag[p])

\* The listener does not send half of an event to a client.
NoHalfEvents == \A c \in Clients : StartsWithEvent(c)

\* ht_tcp_listener_stop returns, as the accept thread it joins can always
\* finish the client it is handling; a listener that could not be started or
\* registered is destroyed, whatever clients it has got by then; and a timeline that notifies the listener
\* is not blocked for ever, whatever clients connect and disconnect.
CallsReturn ==
  /\ (pc[Stopper] # "idle") ~> (pc[Stopper] = "stopped")
  /\ (server = "unwanted") ~> (server = "destroyed" /\ apc = "exit")
  /\ \A t \in Threads : (pc[t] # "idle") ~> (pc[t] = "idle")

-----------------------------------------------------------------------------
\* What the proofs of the properties rest on.

Byte == (Events \cup {Meta}) \X Nat

\* Where the threads that push, the Stopper and the accept thread can be.
PushPCs == {"idle", "lock", "copy", "write", "send", "unlock"}
StopPCs == {"idle", "write", "send", "clear", "shut", "join", "release", "stopped"}
AcceptPCs == {"exit", "accept", "meta", "connected", "add"}

\* The types of the variables.
TypeOK ==
  /\ server \in {"none", "up", "unwanted", "freed", "destroyed"}
  /\ running \in BOOLEAN /\ flushed \in BOOLEAN
  /\ pushMtx \in Threads \cup {Nobody} /\ clientMtx \in Actors \cup {Nobody}
  /\ buf \in Seq(Byte) /\ log \in Seq(Byte) /\ wire \in Seq(Byte)
  /\ bag \in Seq(Clients) /\ index \in Nat \ {0}
  /\ pc \in [Actors -> PushPCs \cup StopPCs]
  /\ event \in [Actors -> Events \cup {NoEvent}]
  /\ rest \in [Actors -> Seq(Byte)] /\ out \in [Actors -> Seq(Byte)]
  /\ after \in [Actors -> {"idle", "copy", "unlock", "clear"}]
  /\ apc \in AcceptPCs
  /\ fresh \in Clients \cup {NoClient} /\ pieces \in 0..MetaPieces
  /\ waiting \subseteq Clients /\ broken \subseteq Clients /\ amid \subseteq Clients
  /\ received \in [Clients -> Seq(Byte)] /\ start \in [Clients -> Nat]

\* Who is inside which mutex: a thread that pushes has _push_action_mutex from
\* Lock to Unlock, whoever sends has client_mutex, and nobody pushes while the
\* listener is being stopped.
CallInv ==
  /\ \A t \in Threads : pc[t] \in PushPCs
  /\ pc[Stopper] \in StopPCs
  /\ \A t \in Threads : pushMtx = t <=> pc[t] \in {"copy", "write", "send", "unlock"}
  /\ \A a \in Actors : clientMtx = a <=> pc[a] = "send"
  /\ pc[Stopper] \notin {"idle", "stopped"} => \A t \in Threads : pc[t] = "idle"
  /\ \A t \in Threads : pc[t] \in {"write", "send"} => after[t] \in {"copy", "unlock"}
  /\ pc[Stopper] \in {"write", "send"} => after[Stopper] = "clear"

\* The bytes of a call: they belong to the thread that pushes, and all are in the
\* buffer, which is never overrun, before the call ends.
RestInv ==
  /\ \A a \in Actors : rest[a] # << >> => pushMtx = a
  /\ \A t \in Threads : pc[t] # "idle" => event[t] \in Events
  /\ \A t \in Threads : event[t] \in Raw => Len(rest[t]) <= MaxSize
  /\ \A t \in Threads : pc[t] = "unlock" => rest[t] = << >>
  /\ \A t \in Threads :
       pc[t] \in {"write", "send"} /\ after[t] = "unlock" => rest[t] = << >> /\ buf = << >>
  /\ Len(buf) <= MaxSize

\* s starts with the first byte of an event.
Starts(s) == s # << >> => s[1][2] = 1

\* Where the bytes in the buffer start: between two calls with the first byte of
\* an event, and within a call as long as nothing was flushed.
WholeInv ==
  /\ pushMtx = Nobody => Starts(buf)
  /\ pc[Stopper] = "write" => Starts(out[Stopper]) /\ buf = << >>
  /\ \A t \in Threads : pc[t] = "copy" /\ ~flushed => Starts(buf \o rest[t])
  /\ \A t \in Threads : pc[t] = "unlock" => Starts(buf)

\* The first byte that is accepted after the ones a client missed is the first
\* one of an event.
BoundaryInv ==
  /\ \A c \in Clients : start[c] <= Len(wire)
  /\ \A c \in Clients \ amid : start[c] < Len(log) => log[start[c] + 1][2] = 1

\* The clients: in the bag at most once, and not before they are accepted and have
\* the metadata.
BagInv ==
  /\ \A p, q \in DOMAIN bag : bag[p] = bag[q] => p = q
  /\ \A p \in DOMAIN bag : bag[p] \notin waiting /\ bag[p] # fresh
  /\ fresh \notin waiting
  /\ fresh = NoClient <=> apc \in {"exit", "accept"}
  /\ server = "none" => apc = "exit"
  /\ apc = "meta" => pieces < MetaPieces

\* The metadata of the client that is handled.
MetaInv ==
  /\ \A c \in waiting : received[c] = << >>
  /\ fresh # NoClient => Begins(received[fresh], MetaBytes)
  /\ apc = "meta" /\ fresh \notin broken => received[fresh] = Taken(MetaBytes, pieces)
  /\ apc \in {"connected", "add"} /\ fresh \notin broken => received[fresh] = MetaBytes

\* The clients in the bag: those the running write has visited, or all if none is
\* running, have everything, the others lack what is being written.
SentInv ==
  /\ \A c \in Clients : Begins(received[c], Due(c))
  /\ ClientsUpToDate
  /\ \A a \in Actors, p \in DOMAIN bag :
       pc[a] = "send" /\ bag[p] \notin broken =>
         IF p < index THEN received[bag[p]] = Due(bag[p])
                      ELSE received[bag[p]] \o out[a] = Due(bag[p])

\* The inductive invariant.
IInv ==
  /\ TypeOK
  /\ CallInv
  /\ RestInv
  /\ WireIsLog
  /\ WholeInv
  /\ BoundaryInv
  /\ BagInv
  /\ MetaInv
  /\ SentInv

=============================================================================
