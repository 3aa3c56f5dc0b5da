---------------------------- MODULE ClientReader ----------------------------
(***************************************************************************)
(* A client reads a stream of events: the protocol reader with its thread  *)
(* (protocol_reader.cpp), the two kinds of stream, a file (file_stream.cpp)*)
(* and a connection with a receiving thread (tcp_client_stream.cpp), and   *)
(* the thread that uses them: the command line client (main.cpp) or a      *)
(* Python program (client_context.cpp, hawktracer_client_python.cpp).      *)
(*                                                                         *)
(* The stream carries bytes.  It may end anywhere: a file that was being   *)
(* written when its program died, a server that closes the connection.     *)
(* The program of the user's thread is a list of calls of the interface.   *)
(* A Python program with a callback holds the interpreter lock while it is *)
(* in a call other than wait; the callback needs it.                       *)
(***************************************************************************)
EXTENDS ParserKlasses, FiniteSets, TLC

CONSTANTS Sources,   \* records [kind, endian, events, cut]: what is read
          Programs,  \* records [kind, calls, callback]: who reads it
          ChunkSizes,\* sizes of the pieces recv returns
          MaxQueued  \* bound on the pieces that wait for the reader in _datas

-----------------------------------------------------------------------------
(* The bytes of the events, as the library serialises them.                *)

Reversed(bytes, endian) == IF endian = Little THEN bytes ELSE Reverse(bytes)

\* A value with its kind in bytes.  A string ends with 0.
FieldBytes(f, endian) ==
  CASE f.kind = "u8"     -> <<f.value>>
    [] f.kind = "wide"   -> Reversed(<<f.value % 256, f.value \div 256>>, endian)
    [] f.kind = "string" -> Append(f.value, 0)

EventBytes(e, endian) == FlattenSeq([i \in DOMAIN e |-> FieldBytes(e[i], endian)])

EndOf(src, n) ==
  Len(FlattenSeq([i \in 1..n |-> EventBytes(src.events[i], src.endian)]))

\* Events of which src has every byte.
Whole(src) == Cardinality({n \in DOMAIN src.events : EndOf(src, n) <= src.cut})

\* read_byte of a connection returns a char, which is negative from 128 on.
Negative(src, b) == src.kind = "tcp" /\ b >= 128

Readable(src, e) ==
  \A i \in DOMAIN e : e[i].kind = "string" =>
    \A j \in DOMAIN e[i].value : ~Negative(src, e[i].value[j])

-----------------------------------------------------------------------------
VARIABLES
  source,   \* the member of Sources that is read
  wire,     \* its bytes
  pos,      \* bytes that were taken from the file or the connection
  open,     \* the file is open, _sock_fd # -1
  hangup,   \* the server has closed the connection
  datas,    \* _datas: the pieces not yet read
  rx,       \* receiving thread: "none", "check", "recv", "notify", "last", "done"
  running,  \* _is_running
  rd,       \* reader thread: "none", "loop", "read", "held", "blocked",
            \* "event", "callback", "end", "notify", "done", "crashed"
  todo,     \* fields still to be read of the event, or its header
  part,     \* bytes of the first of them
  got,      \* values that were read
  header,   \* base_event, << >> while it is being read
  endian,   \* _endianness
  register,
  given,    \* events handed to the client's listener, or put in _events
  polled,   \* how many of them poll_event has returned
  program,  \* the member of Programs that runs
  call,     \* index of the call it is in
  at,       \* place in it: "in", "held", "blocked", "join", "close", "joinrx"
  asked,    \* history: stop was called before the reader had ended
  lost      \* history: a notification came between a predicate that was found
            \* false and the blocking of its thread

stream == <<pos, open, hangup, datas, rx>>
decode == <<todo, part, got, header, endian, register>>
user   == <<program, call, at, asked, lost>>
vars   == <<source, wire, stream, running, rd, decode, given, polled, user>>

Init ==
  /\ source \in Sources /\ program \in {p \in Programs : p.kind = source.kind}
  /\ wire = SubSeq(FlattenSeq([i \in DOMAIN source.events |->
                      EventBytes(source.events[i], source.endian)]), 1, source.cut)
  /\ pos = 0 /\ open = FALSE /\ hangup = FALSE /\ datas = << >> /\ rx = "none"
  /\ running = FALSE /\ rd = "none"
  /\ todo = << >> /\ part = << >> /\ got = << >> /\ header = << >>
  /\ endian = Little /\ register = WellKnown
  /\ given = << >> /\ polled = 0
  /\ call = 1 /\ at = "in" /\ asked = FALSE /\ lost = FALSE

IsFile == source.kind = "file"

-----------------------------------------------------------------------------
(* The receiving thread of a connection, and the server.                   *)

\* The loop's test and the call of recv.
RxLoop ==
  /\ rx = "check"
  /\ rx' = IF open THEN "recv" ELSE "last"
  /\ UNCHANGED <<source, wire, pos, open, hangup, datas, running, rd, decode, given, polled, user>>

\* recv returns a piece, which is queued under the lock.
RxData ==
  /\ rx = "recv" /\ pos < Len(wire)
  /\ rd # "held" /\ (Len(datas) < MaxQueued \/ rd = "done")
  /\ \E n \in ChunkSizes :
       LET end == IF pos + n < Len(wire) THEN pos + n ELSE Len(wire)
       IN  pos' = end /\ datas' = Append(datas, SubSeq(wire, pos + 1, end))
  /\ rx' = "notify"
  /\ UNCHANGED <<source, wire, open, hangup, running, rd, decode, given, polled, user>>

\* _datas_cv.notify_one
Wake == rd' = IF rd = "blocked" THEN "read" ELSE rd

RxNotify ==
  /\ rx = "notify"
  /\ Wake /\ rx' = "check"
  /\ UNCHANGED <<source, wire, pos, open, hangup, datas, running, decode, given, polled, user>>

\* recv returns 0, or -1 for a socket that was closed before the call (a call
\* that is under way goes on): the socket is closed, and the loop ends.
RxEnd ==
  /\ rx = "recv" /\ ((pos = Len(wire) /\ hangup) \/ ~open)
  /\ open' = FALSE /\ rx' = "last"
  /\ UNCHANGED <<source, wire, pos, hangup, datas, running, rd, decode, given, polled, user>>

\* The thread ends and tells nobody.
RxLastSilent ==
  /\ rx = "last"
  /\ rx' = "done"
  /\ UNCHANGED <<source, wire, pos, open, hangup, datas, running, rd, decode, given, polled, user>>

\* The notification after the loop, without the lock.
RxLast ==
  /\ rx = "last"
  /\ Wake /\ rx' = "done"
  /\ lost' = (lost \/ rd = "held")
  /\ UNCHANGED <<source, wire, pos, open, hangup, datas, running, decode, given, polled,
                 program, call, at, asked>>

ServerClose ==
  /\ ~IsFile /\ ~hangup /\ hangup' = TRUE
  /\ UNCHANGED <<source, wire, pos, open, datas, rx, running, rd, decode, given, polled, user>>

-----------------------------------------------------------------------------
(* The thread of the reader.                                               *)

\* _read_events: another event, or the end.
ReadLoop ==
  /\ rd = "loop"
  /\ IF running
     THEN /\ rd' = "read" /\ todo' = register[EventKlass].fields
          /\ got' = << >> /\ header' = << >> /\ part' = << >>
     ELSE rd' = "end" /\ UNCHANGED <<todo, got, header, part>>
  /\ UNCHANGED <<source, wire, stream, running, endian, register, given, polled, user>>

\* Bytes the reader asks the stream for: read_data for what is missing of a
\* number, read_byte for a string.
Needed ==
  CASE Head(todo).kind = "string" -> 1
    [] Head(todo).kind = "u8"     -> 1
    [] OTHER                      -> 2 - Len(part)

\* The reader has received bytes bs: the field may be complete, the event may.
\* A negative byte in a string and a field that is a pointer end the reading.
Take(bs) ==
  LET f == Head(todo)
      all == part \o bs
      string == f.kind = "string"
      complete == IF string THEN Last(all) = 0
                  ELSE Len(all) = IF f.kind = "u8" THEN 1 ELSE 2
      value == IF string THEN Front(all) ELSE ToNative(all, endian)
  IN  /\ rd' = IF (string /\ Negative(source, Last(all))) \/ f.kind = "pointer" THEN "end"
               ELSE IF complete /\ Len(todo) = 1 THEN "event" ELSE "read"
      /\ part' = IF complete THEN << >> ELSE all
      /\ todo' = IF complete THEN Tail(todo) ELSE todo
      /\ got' = IF complete THEN SetValue(got, f.name, value) ELSE got
      /\ UNCHANGED <<header, endian, register>>

\* FileStream::read_data and read_byte
ReadFile ==
  /\ rd = "read" /\ IsFile /\ pos + Needed <= Len(wire)
  /\ pos' = pos + Needed
  /\ Take(SubSeq(wire, pos + 1, pos'))
  /\ UNCHANGED <<source, wire, open, hangup, datas, rx, running, given, polled, user>>

ReadFileEnds ==
  /\ rd = "read" /\ IsFile /\ pos + Needed > Len(wire)
  /\ pos' = Len(wire) /\ rd' = "end"
  /\ UNCHANGED <<source, wire, open, hangup, datas, rx, running, decode, given, polled, user>>

\* TCPClientStream::read_data and read_byte: what the first piece has of the
\* bytes, with _pop_if_used.
ReadTcp ==
  /\ rd = "read" /\ ~IsFile /\ datas # << >>
  /\ LET piece == Head(datas)
         n == IF Needed < Len(piece) THEN Needed ELSE Len(piece)
     IN  /\ Take(SubSeq(piece, 1, n))
         /\ datas' = IF n = Len(piece) THEN Tail(datas)
                     ELSE <<SubSeq(piece, n + 1, Len(piece))>> \o Tail(datas)
  /\ UNCHANGED <<source, wire, pos, open, hangup, rx, running, given, polled, user>>

\* The connection is gone before the pieces are looked at.
ReadTcpEager ==
  /\ rd = "read" /\ ~IsFile /\ ~open
  /\ rd' = "end"
  /\ UNCHANGED <<source, wire, stream, running, decode, given, polled, user>>

\* _wait_for_data: there is nothing left and the connection is gone.
ReadTcpEnds ==
  /\ rd = "read" /\ ~IsFile /\ datas = << >> /\ ~open
  /\ rd' = "end"
  /\ UNCHANGED <<source, wire, stream, running, decode, given, polled, user>>

\* The predicate is false; the lock is held until the thread is blocked.
ReadTcpMustWait ==
  /\ rd = "read" /\ ~IsFile /\ datas = << >> /\ open
  /\ rd' = "held"
  /\ UNCHANGED <<source, wire, stream, running, decode, given, polled, user>>

ReadTcpBlocks ==
  /\ rd = "held" /\ rd' = "blocked"
  /\ UNCHANGED <<source, wire, stream, running, decode, given, polled, user>>

\* An event of the base klass is complete with its header; the others go on
\* with the fields of their klass.  An unknown klass is a null pointer.
Dispatch(klass, v) ==
  /\ endian' = IF klass = EndiannessKlass THEN v["endianness"] ELSE endian
  /\ IF Throws(register, klass, v)
     THEN rd' = "crashed" /\ UNCHANGED register
     ELSE rd' = "callback" /\ register' = HandleRegisterEvents(register, klass, v)
  /\ got' = v
  /\ UNCHANGED <<todo, part, header>>

EventRead ==
  /\ rd = "event"
  /\ IF header # << >>
     THEN Dispatch(header["klass_id"], Merge(got, header))
     ELSE IF got["klass_id"] = EventKlass
     THEN Dispatch(EventKlass, got)
     ELSE LET k == got["klass_id"]
          IN  /\ header' = got /\ got' = << >>
              /\ todo' = IF k \in DOMAIN register THEN Layout(register, k) ELSE << >>
              /\ rd' = IF k \notin DOMAIN register
                          \/ \E i \in DOMAIN todo' : todo'[i].kind = "missing" THEN "crashed"
                       ELSE IF todo' = << >> THEN "event" ELSE "read"
              /\ UNCHANGED <<part, endian, register>>
  /\ UNCHANGED <<source, wire, stream, running, given, polled, user>>

Calls == program.calls
InCall(name) == call <= Len(Calls) /\ Calls[call] = name

\* The user's thread is in a call that keeps the interpreter lock.
LockKept == program.callback /\ InCall("stop")

\* The listener of the client has the event.
Handed ==
  /\ rd = "callback"
  /\ given' = Append(given, got)
  /\ rd' = "loop"
  /\ UNCHANGED <<source, wire, stream, running, decode, polled, user>>

\* process_event of the command line client, or the queue of the context, ...
Callback == Handed /\ ~program.callback

\* ... or the callback of a Python program, with the interpreter lock.
TriggerCallback == Handed /\ program.callback /\ ~LockKept

\* The end of _read_events; the notification is sent without the lock.
ReadEnd ==
  /\ rd = "end" /\ running' = FALSE /\ rd' = "notify"
  /\ UNCHANGED <<source, wire, stream, decode, given, polled, user>>

ReadNotify ==
  /\ rd = "notify" /\ rd' = "done"
  /\ at' = IF at = "blocked" THEN "in" ELSE at
  /\ lost' = (lost \/ at = "held")
  /\ UNCHANGED <<source, wire, stream, running, decode, given, polled, program, call, asked>>

-----------------------------------------------------------------------------
(* The thread of the user.                                                 *)

Return == call' = call + 1 /\ at' = "in"

\* The file is opened, or the connection made (connect is repeated until the
\* server answers) and its thread started.
StartStream ==
  /\ open' = TRUE
  /\ rx' = IF IsFile THEN "none" ELSE "check"

\* start of the reader, with that of its stream.
Start ==
  /\ InCall("start")
  /\ StartStream
  /\ running' = TRUE /\ rd' = "loop"
  /\ Return
  /\ UNCHANGED <<source, wire, pos, hangup, datas, decode, given, polled, program, asked, lost>>

\* The file, which could be read when the stream was made, cannot be opened:
\* the command line client gives up.
StartFails ==
  /\ InCall("start") /\ IsFile /\ ~program.callback
  /\ call' = Len(Calls) + 1 /\ at' = "in"
  /\ UNCHANGED <<source, wire, stream, running, rd, decode, given, polled, program, asked, lost>>

\* The user hits Enter.
Enter ==
  /\ InCall("enter") /\ Return
  /\ UNCHANGED <<source, wire, stream, running, rd, decode, given, polled, program, asked, lost>>

\* stop of the reader: the flag, the join, then the stream.
StopFlag ==
  /\ InCall("stop") /\ at = "in"
  /\ running' = FALSE /\ at' = "join"
  /\ asked' = (asked \/ rd # "done")
  /\ UNCHANGED <<source, wire, stream, rd, decode, given, polled, program, call, lost>>

\* A join that does not wait.
StopJoinNot ==
  /\ at = "join"
  /\ at' = "close"
  /\ UNCHANGED <<source, wire, stream, running, rd, decode, given, polled, program, call, asked, lost>>

StopJoin ==
  /\ at = "join" /\ rd \in {"none", "done"}
  /\ at' = "close"
  /\ UNCHANGED <<source, wire, stream, running, rd, decode, given, polled, program, call, asked, lost>>

\* FileStream::stop, and TCPClientStream::stop up to its join.
StopStream ==
  /\ at = "close" /\ open' = FALSE
  /\ IF IsFile THEN Return ELSE at' = "joinrx" /\ UNCHANGED call
  /\ UNCHANGED <<source, wire, pos, hangup, datas, rx, running, rd, decode, given, polled,
                 program, asked, lost>>

StopJoinRx ==
  /\ at = "joinrx" /\ rx \in {"none", "done"}
  /\ Return
  /\ UNCHANGED <<source, wire, stream, running, rd, decode, given, polled, program, asked, lost>>

\* wait_for_complete: the predicate, and blocking when it is false.
WaitReturns ==
  /\ InCall("wait") /\ at = "in" /\ ~running
  /\ Return
  /\ UNCHANGED <<source, wire, stream, running, rd, decode, given, polled, program, asked, lost>>

WaitMustWait ==
  /\ InCall("wait") /\ at = "in" /\ running
  /\ at' = "held"
  /\ UNCHANGED <<source, wire, stream, running, rd, decode, given, polled, program, call, asked, lost>>

WaitBlocks ==
  /\ at = "held" /\ at' = "blocked"
  /\ UNCHANGED <<source, wire, stream, running, rd, decode, given, polled, program, call, asked, lost>>

\* poll_event, which returns None when there is nothing in the queue.
Poll ==
  /\ InCall("poll") /\ Return
  /\ polled' = IF polled < Len(given) /\ ~program.callback THEN polled + 1 ELSE polled
  /\ UNCHANGED <<source, wire, stream, running, rd, decode, given, program, asked, lost>>

Finished == call > Len(Calls)

Receiver == RxLoop \/ RxData \/ RxNotify \/ RxEnd \/ RxLast
Reader   == \/ ReadLoop \/ ReadFile \/ ReadFileEnds \/ ReadTcp \/ ReadTcpEnds
            \/ ReadTcpMustWait \/ ReadTcpBlocks \/ EventRead \/ Callback
            \/ TriggerCallback \/ ReadEnd \/ ReadNotify
User     == \/ Start \/ StartFails \/ Enter \/ StopFlag \/ StopJoin \/ StopStream
            \/ StopJoinRx \/ WaitReturns \/ WaitMustWait \/ WaitBlocks \/ Poll

Next == Receiver \/ ServerClose \/ Reader \/ User

Spec == Init /\ [][Next]_vars

\* The three threads run, the user hits Enter, the server ends its connection.
FairSpec == /\ Spec
            /\ WF_vars(Receiver) /\ WF_vars(Reader) /\ WF_vars(User)
            /\ WF_vars(ServerClose)

-----------------------------------------------------------------------------
(* Properties.                                                             *)

ValuesOf(e) == [n \in {e[i].name : i \in DOMAIN e} |->
                  (CHOOSE f \in {e[i] : i \in DOMAIN e} : f.name = n).value]

\* The events handed to the client are the first events of the stream, with
\* the values their sender gave them, in whatever pieces they arrived and
\* whatever the byte order of the sender: the klasses read from the stream
\* (handle_register_events) are those the next events are read with.  Of the
\* event that tells the byte order, only that value is certain.
EventsIntact ==
  /\ rd # "crashed"
  /\ Len(given) <= Whole(source)
  /\ \A i \in DOMAIN given :
       LET sent == ValuesOf(source.events[i])
       IN  IF sent["klass_id"] = EndiannessKlass
           THEN given[i]["klass_id"] = EndiannessKlass /\ given[i]["endianness"] = sent["endianness"]
           ELSE given[i] = sent

\* A reader that nobody has stopped ends only when it has handed out every
\* event that is whole in the stream, also what was still queued when the
\* server hung up (_wait_for_data).  Over a connection it ends earlier when a
\* string has a byte from 128 on, which read_byte gives as a failure.
CompleteAtEnd ==
  rd = "done" /\ ~asked =>
    Len(given) = Cardinality({n \in 1..Whole(source) :
                                \A i \in 1..n : Readable(source, source.events[i])})

\* When stop has returned no thread of the reader or of its stream is left: no
\* event reaches the listener any more (main stops its converter next, Python
\* frees the context), and the file was not closed under the reader.
StopIsFinal ==
  /\ call > 1 /\ Calls[call - 1] = "stop" => rd \in {"none", "done"} /\ rx \in {"none", "done"}
  /\ IsFile /\ rd \notin {"none", "done"} => open

\* A client comes to the end of its program - wait_for_complete and stop
\* return - unless one of the two notifications that are sent without the
\* lock was lost.
ClientFinishes == <>(Finished \/ lost)

=============================================================================
