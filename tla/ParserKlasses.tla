--------------------------- MODULE ParserKlasses ---------------------------
(***************************************************************************)
(* The klass register of the parser (klass_register.cpp, event_klass.cpp)  *)
(* and the layout of events it implies (protocol_reader.cpp).              *)
(*                                                                         *)
(* A string is a sequence of bytes; a name is a string of one byte, its    *)
(* place in Names.  Numbers are one byte ("u8") or two ("wide": the 16, 32 *)
(* and 64 bit types).  A register maps klass ids to klasses; a field is a  *)
(* record [name, type, kind].                                              *)
(***************************************************************************)
EXTENDS Integers, Sequences, SequencesExt

CONSTANTS Names  \* the names that occur on the wire

Field(n, k) == [name |-> n, type |-> "", kind |-> k]

\* The register before the first event: KlassRegister's constructor.
EventKlass == 1
EndiannessKlass == 0
KlassInfo == 2
FieldInfo == 3

WellKnown ==
  [k \in {EndiannessKlass, EventKlass, KlassInfo, FieldInfo} |->
     CASE k = EventKlass ->
            [name |-> "HT_Event",
             fields |-> <<Field("klass_id", "wide"), Field("timestamp", "wide"), Field("id", "wide")>>]
       [] k = EndiannessKlass ->
            [name |-> "HT_EndiannessInfoEvent", fields |-> <<Field("endianness", "u8")>>]
       [] k = KlassInfo ->
            [name |-> "HT_EventKlassInfoEvent",
             fields |-> <<Field("info_klass_id", "wide"), Field("event_klass_name", "string"),
                          Field("field_count", "u8")>>]
       [] OTHER ->
            [name |-> "HT_EventKlassFieldInfoEvent",
             fields |-> <<Field("info_klass_id", "wide"), Field("field_type", "string"),
                          Field("field_name", "string"), Field("size", "wide"),
                          Field("data_type", "u8")>>]]

IsWellKnown(k) == k \in {EventKlass, KlassInfo, FieldInfo}

NameOf(s) == IF Len(s) = 1 /\ s[1] \in DOMAIN Names THEN Names[s[1]] ELSE "?"

\* get_type_id, for the data types that are on the wire.
TypeIds == <<"struct", "string", "integer", "pointer">>

TypeId(size, type) == IF TypeIds[type] # "integer" THEN TypeIds[type]
                      ELSE IF size = 1 THEN "u8" ELSE "wide"

\* _add_klass: the first klass with an id stays.
AddKlass(reg, k, name) ==
  IF k \in DOMAIN reg THEN reg
  ELSE [j \in DOMAIN reg \cup {k} |-> IF j = k THEN [name |-> name, fields |-> << >>] ELSE reg[j]]

\* _add_klass_field and add_field: the first field with a name stays.
AddField(reg, k, f) ==
  IF \E i \in DOMAIN reg[k].fields : reg[k].fields[i].name = f.name THEN reg
  ELSE [reg EXCEPT ![k].fields = Append(@, f)]

\* handle_register_events, for an event e with its values v.
HandleRegisterEvents(reg, klass, v) ==
  CASE klass = KlassInfo -> AddKlass(reg, v["info_klass_id"], NameOf(v["event_klass_name"]))
    [] klass = FieldInfo /\ ~IsWellKnown(v["info_klass_id"]) ->
         AddField(reg, v["info_klass_id"],
                  [name |-> NameOf(v["field_name"]), type |-> NameOf(v["field_type"]),
                   kind |-> TypeId(v["size"], v["data_type"])])
    [] OTHER -> reg

\* _register.at throws for the field of a klass that was not announced.
Throws(reg, klass, v) ==
  klass = FieldInfo /\ ~IsWellKnown(v["info_klass_id"]) /\ v["info_klass_id"] \notin DOMAIN reg

\* get_klass_id: the klasses of that name.
Named(reg, name) == {k \in DOMAIN reg : reg[k].name = name}

RECURSIVE Layout(_, _)

\* The fields _read_event reads for an event of klass k, those of its structs
\* in their places (_read_struct).  The "base" of type HT_Event has been read
\* before; reading a struct of an unknown klass is not defined.
Layout(reg, k) ==
  FlattenSeq([i \in DOMAIN reg[k].fields |->
    LET f == reg[k].fields[i]
    IN  IF f.kind # "struct" THEN <<f>>
        ELSE IF f.type = "HT_Event" /\ f.name = "base" THEN << >>
        ELSE IF Named(reg, f.type) = {} THEN <<Field(f.name, "missing")>>
        ELSE Layout(reg, CHOOSE j \in Named(reg, f.type) : TRUE)])

Little == 0
Big == 1

\* Bytes taken as they are, whoever sent them.
ToNativeRaw(bytes, endianness) ==
  IF Len(bytes) = 1 THEN bytes[1] ELSE bytes[1] + 256 * bytes[2]

\* The number two bytes stand for: convert_endianness_to_native.
ToNative(bytes, endianness) ==
  IF Len(bytes) = 1 THEN bytes[1]
  ELSE IF endianness = Little THEN bytes[1] + 256 * bytes[2]
  ELSE bytes[2] + 256 * bytes[1]

\* set_value: the first value of a name stays.
SetValue(v, n, x) ==
  IF n \in DOMAIN v THEN v
  ELSE [m \in DOMAIN v \cup {n} |-> IF m = n THEN x ELSE v[m]]

\* merge of the values w into v.
Merge(v, w) ==
  [m \in DOMAIN v \cup DOMAIN w |-> IF m \in DOMAIN v THEN v[m] ELSE w[m]]

=============================================================================
