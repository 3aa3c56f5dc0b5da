--------------------------- MODULE MCClientReader ---------------------------
(* A stream that announces a klass with a base klass and a label, then has *)
(* an event of it and one of the base klass; read by the command line      *)
(* client and by Python programs.                                          *)
EXTENDS ClientReader

Wire == <<"HT_Event", "base", "CallBase", "Call", "duration", "label", "uint64_t", "char*">>

Str(n) == <<CHOOSE i \in DOMAIN Wire : Wire[i] = n>>

Value(n, k, v) == [name |-> n, kind |-> k, value |-> v]

Header(k, t) ==
  <<Value("klass_id", "wide", k), Value("timestamp", "wide", t), Value("id", "wide", t + 300)>>

KlassEvent(t, k, name, n) ==
  Header(2, t) \o <<Value("info_klass_id", "wide", k), Value("event_klass_name", "string", Str(name)),
                    Value("field_count", "u8", n)>>

\* Type: 1 a struct, 2 a string, 3 an integer.
FieldEvent(t, k, type, name, size, data) ==
  Header(3, t) \o <<Value("info_klass_id", "wide", k), Value("field_type", "string", Str(type)),
                    Value("field_name", "string", Str(name)), Value("size", "wide", size),
                    Value("data_type", "u8", data)>>

EndiannessEvent(t, e) == Header(0, t) \o <<Value("endianness", "u8", e)>>

Announcements ==
  <<KlassEvent(2, 8, "CallBase", 2), FieldEvent(3, 8, "HT_Event", "base", 9, 1),
    FieldEvent(4, 8, "uint64_t", "duration", 2, 3),
    KlassEvent(5, 9, "Call", 2), FieldEvent(6, 9, "CallBase", "base", 9, 1),
    FieldEvent(7, 9, "char*", "label", 2, 2)>>

CallEvent(t, label) ==
  Header(9, t) \o <<Value("duration", "wide", 517), Value("label", "string", label)>>

File(e) == <<EndiannessEvent(1, e)>> \o Announcements \o <<CallEvent(8, <<200>>), Header(1, 9)>>

\* The name in the second event has the byte b.
Conn(e, b) ==
  <<EndiannessEvent(1, e),
    Header(2, 258) \o <<Value("info_klass_id", "wide", 8), Value("event_klass_name", "string", <<b>>),
                        Value("field_count", "u8", 0)>>,
    Header(1, 3)>>

Bytes(events) == Len(FlattenSeq([i \in DOMAIN events |-> EventBytes(events[i], Little)]))

\* A file may end at any byte; connections end at two places.
Read ==
  UNION {{[kind |-> "file", endian |-> e, events |-> File(e), cut |-> n] : n \in 0..Bytes(File(e))} :
           e \in {Little, Big}}
  \cup
  {[kind |-> "tcp", endian |-> e, events |-> Conn(e, IF e = Big THEN 4 ELSE 200), cut |-> n] :
     e \in {Little, Big}, n \in {10, Bytes(Conn(Little, 4))}}

Clients ==
  {[kind |-> "file", calls |-> <<"start", "wait", "stop">>, callback |-> FALSE],
   [kind |-> "tcp", calls |-> <<"start", "enter", "stop", "wait", "stop">>, callback |-> FALSE],
   [kind |-> "tcp", calls |-> <<"start", "poll", "wait", "poll", "stop">>, callback |-> FALSE],
   [kind |-> "file", calls |-> <<"start", "wait", "stop">>, callback |-> TRUE]}

=============================================================================
