--------------------------- MODULE TracedProgram ---------------------------
(***************************************************************************)
(* A Python program whose functions are traced, from the first call to the *)
(* profile the client makes of its trace.                                  *)
(*                                                                         *)
(* The threads of the program take turns with the interpreter lock, so     *)
(* each entry into the Python module (hawktracer_core_python.cpp) is one   *)
(* step.  C functions mark their scope with a string label.  Each thread   *)
(* has its own global timeline with a callstack feature; its buffer is     *)
(* flushed to the file listener they share.  Afterwards the client         *)
(* (converter.cpp and the two converters) reads the file.                  *)
(*                                                                         *)
(* The clock advances with every timestamp taken.  The buffers, the file   *)
(* and the protocol are the lists of events of other modules' properties.  *)
(***************************************************************************)
EXTENDS CallStack, CallGraph, TLC

CONSTANTS Threads, Main,       \* the main thread is one of them
          PyFunctions,         \* functions the decorator may wrap
          CFunctions,          \* functions with a scoped string tracepoint
          IntSize, StringSize, \* words of the two callstack events
          BufferSize,          \* events the buffer of a timeline holds
          Micro,               \* clock ticks in a microsecond
          Budgets,             \* bounds on the traced calls of each thread
          MaxDepth             \* bound on the open calls of a thread

Functions == PyFunctions \cup CFunctions

ASSUME TracedProgramAssumption ==
  /\ Main \in Threads /\ PyFunctions \cap CFunctions = {}
  /\ {IntSize, StringSize, BufferSize, Micro} \subseteq Nat \ {0}
  /\ Budgets \subseteq [Threads -> Nat] /\ MaxDepth \in Nat

VARIABLES
  clock,
  decorator, tracing,  \* trace_method # NULL, tracing_enabled
  defined,    \* functions whose definition was executed
  wrapped,    \* those of them that trace has wrapped
  known,      \* tracepoint_map
  frames,     \* frames[t]: open calls <<function, start of its event or 0>>
  stack,      \* stack[t]: the stack of the callstack feature
  exited,     \* threads that have ended
  left,       \* left[t]: traced calls t may still begin
  id, lastId, \* thread_id of each thread, _ht_current_thread_id
  buffer,     \* buffer[t]: events in the buffer of t's global timeline
  listener,   \* a file listener is registered
  file,       \* the events in its file
  phase,      \* "import", "run", "ended", and "done" after the client
  entries,    \* the entries of the Chrome trace
  report,     \* report[i]: the Callgrind file of thread number i
  truth       \* history: start of a traced call -> its caller, function, ...

program == <<decorator, tracing, defined, wrapped, known, frames, stack, exited, id, lastId, left>>
output  == <<entries, report>>
vars    == <<clock, program, buffer, listener, file, phase, output, truth>>

\* The klass information that opens a file, as far as the converter uses it.
Info == [kind |-> "info"]

Init ==
  /\ clock = 0
  /\ decorator = FALSE /\ tracing = FALSE
  /\ defined = {} /\ wrapped = {} /\ known = {}
  /\ frames = [t \in Threads |-> << >>]
  /\ stack = [t \in Threads |-> StackInit]
  /\ exited = {}
  /\ left \in Budgets
  /\ id = [t \in Threads |-> 0] /\ lastId = 0
  /\ buffer = [t \in Threads |-> << >>]
  /\ listener = FALSE /\ file = << >>
  /\ phase = "import"
  /\ entries = << >> /\ report = << >>
  /\ truth = << >>

-----------------------------------------------------------------------------
(* The program.                                                            *)

\* While the program is imported: enable_decorator, disable_decorator.
SetDecorator(on) ==
  /\ phase = "import" /\ decorator # on
  /\ decorator' = on
  /\ UNCHANGED <<clock, tracing, defined, wrapped, known, frames, stack, exited, left, id, lastId, buffer,
                 listener, file, phase, output, truth>>

\* trace: the decorator returns the function wrapped, or as it is.
Trace(f) ==
  /\ phase = "import" /\ f \notin defined
  /\ defined' = defined \cup {f}
  /\ wrapped' = IF decorator THEN wrapped \cup {f} ELSE wrapped
  /\ phase' = IF defined' = PyFunctions THEN "run" ELSE phase
  /\ UNCHANGED <<clock, decorator, tracing, known, frames, stack, exited, left, id, lastId, buffer,
                 listener, file, output, truth>>

\* enable_tracing, disable_tracing
SetTracing(on) ==
  /\ phase = "run" /\ tracing # on
  /\ tracing' = on
  /\ UNCHANGED <<clock, decorator, defined, wrapped, known, frames, stack, exited, left, id, lastId, buffer,
                 listener, file, phase, output, truth>>

\* The innermost open traced call of thread t, 0 if there is none.
Caller0(t) == LET open == {i \in DOMAIN frames[t] : frames[t][i][2] # 0}
              IN  IF open = {} THEN 0 ELSE frames[t][Max(open)][2]

\* ht_feature_callstack_start: the event gets its timestamp and is pushed.
Start(t, f, size) ==
  /\ left[t] > 0 /\ left' = [left EXCEPT ![t] = @ - 1]
  /\ clock' = clock + 1
  /\ stack' = [stack EXCEPT ![t] =
       StackPush(@, [label |-> f, start |-> clock', size |-> size])]
  /\ frames' = [frames EXCEPT ![t] = Append(@, <<f, clock'>>)]
  /\ truth' = truth @@ (clock' :> [caller |-> Caller0(t), thread |-> t, function |-> f, stop |-> 0])

\* ht_feature_callstack_start_int, ht_feature_callstack_start_string
StartInt(t, f) == Start(t, f, IntSize)
StartString(t, f) == Start(t, f, StringSize)

Callable(t) == phase = "run" /\ t \notin exited /\ Len(frames[t]) < MaxDepth

ToFile(t) == IF listener THEN file \o buffer[t] ELSE file

\* ht_timeline_push_event on the global timeline of t: a full buffer is
\* flushed to the listener first.
Push(t, e) ==
  IF Len(buffer[t]) < BufferSize
  THEN buffer' = [buffer EXCEPT ![t] = Append(@, e)] /\ UNCHANGED file
  ELSE buffer' = [buffer EXCEPT ![t] = << e >>] /\ file' = ToFile(t)

\* get_label_address: the mapping of a function is pushed the first time one
\* of its calls is traced, on the timeline of the thread that makes it.
GetLabelAddress(t, f) ==
  /\ known' = known \cup {f}
  /\ IF f \in known THEN UNCHANGED <<buffer, file>>
     ELSE Push(t, [kind |-> "map", label |-> f])

\* trace_function up to the call, while tracing is enabled.
CallTraced(t, f) ==
  /\ Callable(t) /\ f \in wrapped /\ tracing
  /\ GetLabelAddress(t, f)
  /\ StartInt(t, f)
  /\ UNCHANGED <<decorator, tracing, defined, wrapped, exited, id, lastId, listener, phase, output>>

\* A function that is not wrapped, or trace_function while tracing is not
\* enabled: the address stays 0.
CallPlain(t, f) ==
  /\ Callable(t) /\ (f \notin wrapped \/ ~tracing)
  /\ frames' = [frames EXCEPT ![t] = Append(@, <<f, 0>>)]
  /\ UNCHANGED <<clock, decorator, tracing, defined, wrapped, known, stack, exited, left, id, lastId, buffer,
                 listener, file, phase, output, truth>>

\* The beginning of the scope of a C function.
CallC(t, f) ==
  /\ Callable(t)
  /\ StartString(t, f)
  /\ UNCHANGED <<decorator, tracing, defined, wrapped, known, exited, id, lastId, buffer, listener, file,
                 phase, output>>

\* ht_thread_get_current_thread_id
GetThreadId(t) ==
  /\ lastId' = IF id[t] = 0 THEN lastId + 1 ELSE lastId
  /\ id' = [id EXCEPT ![t] = IF @ = 0 THEN lastId' ELSE @]

\* ht_feature_callstack_stop
Stop(t) ==
  LET e == StackTop(stack[t])
  IN  /\ clock' = clock + 1
      /\ GetThreadId(t)
      /\ Push(t, [kind |-> "call", label |-> e.label, start |-> e.start,
                  duration |-> clock' - e.start, thread |-> id'[t]])
      /\ \E ok, okBag \in BOOLEAN :
           stack' = [stack EXCEPT ![t] = StackPop(@, ok, okBag)]

\* trace_function after the call as it would be if it asked tracing_enabled
\* again instead of remembering the address it started with.
ReturnIfTracing(t) ==
  /\ phase = "run" /\ frames[t] # << >>
  /\ frames' = [frames EXCEPT ![t] = Front(@)]
  /\ IF tracing /\ stack[t].size > 0
     THEN Stop(t) /\ truth' = IF Last(frames[t])[2] = 0 THEN truth
                              ELSE [truth EXCEPT ![Last(frames[t])[2]].stop = clock']
     ELSE UNCHANGED <<clock, stack, buffer, file, id, lastId, truth>>
  /\ UNCHANGED <<decorator, tracing, defined, wrapped, known, exited, left, listener, phase, output>>

\* trace_function after the call: it stops what it started, whatever
\* tracing_enabled is now.
Return(t) ==
  /\ phase = "run" /\ frames[t] # << >>
  /\ frames' = [frames EXCEPT ![t] = Front(@)]
  /\ IF Last(frames[t])[2] # 0
     THEN Stop(t) /\ truth' = [truth EXCEPT ![Last(frames[t])[2]].stop = clock']
     ELSE UNCHANGED <<clock, stack, buffer, file, id, lastId, truth>>
  /\ UNCHANGED <<decorator, tracing, defined, wrapped, known, exited, left, listener, phase, output>>

Flushed(t) == file' = ToFile(t) /\ buffer' = [buffer EXCEPT ![t] = << >>]

\* A thread other than the main one ends: its timeline is destroyed, with a
\* last flush.
Exit(t) ==
  /\ phase = "run" /\ t \notin exited \cup {Main} /\ frames[t] = << >>
  /\ exited' = exited \cup {t}
  /\ Flushed(t)
  /\ UNCHANGED <<clock, decorator, tracing, defined, wrapped, known, frames, stack, left, id, lastId,
                 listener, phase, output, truth>>

\* register_file_listener
RegisterFileListener ==
  /\ phase = "run" /\ ~listener
  /\ listener' = TRUE /\ file' = << Info >>
  /\ UNCHANGED <<clock, program, buffer, phase, output, truth>>

\* clear_module: only the timeline of the thread that exits is flushed.
ClearModule ==
  /\ phase = "run" /\ frames[Main] = << >>
  /\ Flushed(Main)
  /\ listener' = FALSE
  /\ phase' = "ended"
  /\ UNCHANGED <<clock, program, output, truth>>

-----------------------------------------------------------------------------
(* The client.                                                             *)

Number(l) == <<"number", l>>

\* A converter before its first event: the klass of the mapping events is not
\* known, no label has a name, no thread has a call.
NewConverter == [mapKlass |-> FALSE, labels |-> << >>, entries |-> << >>, calls |-> << >>]

\* get_label_info: a label without a mapping is shown, and remembered, as the
\* number it is.
LabelInfo(v, l) == IF l \in DOMAIN v.labels THEN v.labels[l] ELSE Number(l)

AddMapEntry(v, l) == [v EXCEPT !.labels = (l :> l) @@ @]

\* _convert_value_to_string: a number is looked up, a string is the label.
LabelOf(v, e) == IF e.label \in CFunctions THEN e.label ELSE LabelInfo(v, e.label)

\* _try_setting_mapping_klass_id
TrySettingMapKlass(v, e) == [v EXCEPT !.mapKlass = (e.kind = "info")]

\* _get_label: whether event e has a label, and what looking for it does to
\* the converter.  Nothing has one until the klass of the mappings is known.
Labelled(v, e) == v.mapKlass /\ e.kind = "call"

GetLabel(v, e) ==
  CASE ~v.mapKlass    -> TrySettingMapKlass(v, e)
    [] e.kind = "map" -> AddMapEntry(v, e.label)
    [] Labelled(v, e) -> [v EXCEPT !.labels = (e.label :> LabelOf(v, e)) @@ @]
    [] OTHER          -> v

\* ns_to_ms
Micros(t) == t \div Micro

\* An entry whose start was left in nanoseconds.
ChromeEventRaw(v, e) ==
  IF ~Labelled(v, e) THEN GetLabel(v, e)
  ELSE [GetLabel(v, e) EXCEPT !.entries = Append(@,
         [name |-> LabelOf(v, e), ts |-> e.start, dur |-> Micros(e.duration), tid |-> e.thread])]

\* ChromeTraceConverter::process_event
ChromeEvent(v, e) ==
  IF ~Labelled(v, e) THEN GetLabel(v, e)
  ELSE [GetLabel(v, e) EXCEPT !.entries = Append(@,
         [name |-> LabelOf(v, e), ts |-> Micros(e.start), dur |-> Micros(e.duration), tid |-> e.thread])]

\* CallgrindConverter::process_event
CallgrindEvent(v, e) ==
  LET call == [label |-> LabelOf(v, e), start |-> e.start, stop |-> e.start + e.duration]
  IN  IF ~Labelled(v, e) THEN GetLabel(v, e)
      ELSE [GetLabel(v, e) EXCEPT !.calls =
             IF e.thread \in DOMAIN @ THEN [@ EXCEPT ![e.thread] = Append(@, call)]
             ELSE @ @@ (e.thread :> << call >>)]

\* The client run on the file with one of the formats, up to the end of stop,
\* which makes and prints the call graph of every thread.
RunChrome ==
  /\ phase = "ended" /\ phase' = "done"
  /\ entries' = FoldLeft(ChromeEvent, NewConverter, file).entries
  /\ UNCHANGED <<clock, program, buffer, listener, file, report, truth>>

RunCallgrind ==
  /\ phase = "ended" /\ phase' = "done"
  /\ LET calls == FoldLeft(CallgrindEvent, NewConverter, file).calls
     IN  \E sorted \in [DOMAIN calls -> UNION {Sorts(calls[i]) : i \in DOMAIN calls}] :
           /\ \A i \in DOMAIN calls : sorted[i] \in Sorts(calls[i])
           /\ report' = [i \in DOMAIN calls |-> Report(Make(sorted[i]))]
  /\ UNCHANGED <<clock, program, buffer, listener, file, entries, truth>>

Finished == phase = "done" /\ UNCHANGED vars

Next ==
  \/ \E on \in BOOLEAN : SetDecorator(on) \/ SetTracing(on)
  \/ \E f \in PyFunctions : Trace(f)
  \/ \E t \in Threads : \/ \E f \in PyFunctions : CallTraced(t, f) \/ CallPlain(t, f)
                        \/ \E f \in CFunctions : CallC(t, f)
                        \/ Return(t) \/ Exit(t)
  \/ RegisterFileListener \/ ClearModule
  \/ RunChrome \/ RunCallgrind
  \/ Finished

Spec == Init /\ [][Next]_vars

-----------------------------------------------------------------------------
(* Properties.                                                             *)

\* However the block of a callstack has grown and shrunk (ht_stack_push,
\* ht_stack_pop, with shrinking reallocations that fail), the events of the
\* open calls lie behind each other inside it, and the bag of their offsets
\* inside its own block (ht_bag_resize_).
StackInBounds ==
  \A t \in Threads :
    LET s == stack[t]
        at(i) == s.offsets.data[i]
        n == Len(s.offsets.data)
    IN  /\ s.size <= s.cap /\ s.cap >= MinCapacity
        /\ BagFits(s.offsets, 1)
        /\ \A i \in 1..n : at(i) + s.mem[at(i)].size =
                             IF i = n THEN s.size ELSE at(i + 1)

\* The callstack feature of a thread holds exactly the open traced calls of
\* the thread, oldest first, also when tracing is enabled or disabled while
\* they run (trace_function): each stop ends the call it belongs to.
StackMirrorsCalls ==
  \A t \in Threads :
    LET open == SelectSeq(frames[t], LAMBDA c : c[2] # 0)
        held == StackEvents(stack[t])
    IN  /\ Len(open) = Len(held)
        /\ \A i \in DOMAIN open : open[i] = <<held[i].label, held[i].start>>

IsCall(e) == e.kind = "call"

\* Starts of the calls of thread t whose event is in the file.
Reported(t) ==
  {e.start : e \in {file[i] : i \in {j \in DOMAIN file : IsCall(file[j]) /\ file[j].thread = id[t]}}}

\* The calls in the file that enclose c, innermost first, beginning with c.
Enclosing(t) ==
  LET up[c \in 0..clock] ==
        IF c = 0 THEN << >>
        ELSE (IF c \in Reported(t) THEN << c >> ELSE << >>) \o up[truth[c].caller]
  IN  up

\* What the profile of thread t has to say, from the calls it really made.
TrueReport(t) ==
  LET S == Reported(t)
      up == [c \in S |-> Enclosing(t)[c]]
      path == [c \in S |-> [i \in DOMAIN up[c] |-> truth[up[c][i]].function]]
      dur(c) == truth[c].stop - c
      on(p) == {c \in S : path[c] = p}
      under(p) == {c \in S : Len(path[c]) > 1 /\ Tail(path[c]) = p}
      paths == {path[c] : c \in S}
  IN  [functions |-> {[name |-> p, self |-> MapThenSumSet(dur, on(p)) - MapThenSumSet(dur, under(p))] :
                        p \in paths},
       edges     |-> {[name |-> p, calls |-> Cardinality(on(p)), total |-> MapThenSumSet(dur, on(p))] :
                        p \in {q \in paths : Len(q) > 1}}]

\* The mapping of every function is in the file before its first call.
MappingsFirst ==
  \A i \in DOMAIN file : IsCall(file[i]) /\ file[i].label \in PyFunctions
    => \E j \in 1..(i - 1) : file[j].kind = "map" /\ file[j].label = file[i].label

\* From a file in which every mapping precedes its uses the Callgrind
\* converter prints, for each thread, exactly the calls that the thread made:
\* every function below its real callers, how often and how long it was
\* called, and the time it spent itself (call_graph.cpp rebuilds the nesting
\* from times alone, callgrind_converter.cpp subtracts the callees).
ProfileIsRight ==
  phase = "done" /\ DOMAIN report # {} /\ MappingsFirst
    => \A t \in {u \in Threads : Reported(u) # {}} : report[id[t]] = TrueReport(t)

\* In the Chrome trace a call lies inside its caller up to one microsecond,
\* although start and duration are rounded down separately (ns_to_ms), and
\* every call event of the file has its entry.
ChromeNests ==
  phase = "done" /\ entries # << >>
    => LET shown == SelectSeq(file, IsCall)
           inside(c, p) == /\ p.ts <= c.ts /\ c.tid = p.tid
                           /\ c.ts + c.dur <= p.ts + p.dur + 1
       IN  /\ Len(entries) = Len(shown)
           /\ \A i, j \in DOMAIN shown :
                truth[shown[i].start].caller = shown[j].start => inside(entries[i], entries[j])

=============================================================================
