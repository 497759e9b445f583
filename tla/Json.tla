-------------------------------- MODULE Json --------------------------------
(***************************************************************************)
(* The protobuf JSON mapping: json_to_message and message_to_json, which   *)
(* call each other's helpers down the descriptors, as operators.  A result *)
(* is the set of what is returned: one value, or none for an Err.          *)
(*                                                                         *)
(* A JSON value is <<"null">>, <<"bool", b>>, <<"number", n>>,             *)
(* <<"string", s>>, <<"array", vs>> or <<"object", function>>; JsonScan    *)
(* has refused keys that repeat.  A value of a message is tagged in the    *)
(* same way, a message is a function from the fields it has.  The members  *)
(* of an object are visited in the order of their keys: it decides the     *)
(* order of map entries, and nothing else.                                 *)
(*                                                                         *)
(* Numbers are integers of one width, spelled by IntegerText when they are *)
(* strings; bytes, floats, Duration, Timestamp and FieldMask are texts of  *)
(* their own (Scalars).  The payload of an Any is the message that         *)
(* decoding the bytes gives back.                                          *)
(***************************************************************************)
EXTENDS Integers, Sequences, FiniteSets, SequencesExt, TLC

CONSTANTS
  Fields,      \* the fields of each message type, with its extensions
  WellKnown,   \* the special mapping of each message type, or "no"
  Enums,       \* the names and numbers of each enum, and whether it is closed
  MinInt, MaxInt, \* the range of the integer fields
  IntegerText, \* the integers that strings spell, as in Scalars
  Exponents,   \* those of the strings that have a point or an exponent
  TypeUrls,    \* the types that strings name in an Any
  KeyOrder,    \* the keys of objects in their order
  None

\* A field has the keys that name it (names) and the one that is written, the
\* kind of its values ("int" for those written as numbers, "long" for those
\* written as strings) and the name of their enum or message type, the kind of
\* its keys if it is a map, its cardinality, its oneof, its presence.
ASSUME DescriptorAssumption ==
  \A t \in DOMAIN Fields :
    \A i, j \in DOMAIN Fields[t] :
      LET f == Fields[t][i]
      IN  /\ f.writes \in f.names
          /\ Fields[t][j].writes = f.writes => i = j
          /\ f.oneof # None => f.explicit /\ f.card = "optional"
          /\ f.kind = "message" \/ f.card = "required" => f.explicit
          /\ f.card = "repeated" /\ f.key = None => f.explicit

Names(e) == {Enums[e].values[i][1] : i \in DOMAIN Enums[e].values}

\* The field of a name, and the first field that a key names.
Described ==
  [t \in DOMAIN Fields |->
     [n \in {Fields[t][i].name : i \in DOMAIN Fields[t]} |->
        Fields[t][CHOOSE i \in DOMAIN Fields[t] : Fields[t][i].name = n]]]

KeyNames ==
  [t \in DOMAIN Fields |->
     [k \in UNION {Fields[t][i].names : i \in DOMAIN Fields[t]} |->
        Fields[t][Min({i \in DOMAIN Fields[t] : k \in Fields[t][i].names})]]]

Known(t)           == DOMAIN KeyNames[t]
FieldOf(t, k)      == KeyNames[t][k]
FieldNamed(t, name) == Described[t][name]

\* The results of a loop that collects one result of each element, or none.
Each(results) ==
  FoldLeft(LAMBDA got, result : {Append(vs, v) : vs \in got, v \in result}, {<<>>}, results)

Only(name, value) == name :> value

-----------------------------------------------------------------------------
(* Enums and keys.                                                         *)

\* The first name of a number, and the number of a name.
NumberOf(e, name) ==
  Enums[e].values[Min({i \in DOMAIN Enums[e].values : Enums[e].values[i][1] = name})][2]
Spelled(e, n) == {i \in DOMAIN Enums[e].values : Enums[e].values[i][2] = n}

\* unknown_enum_name: a string that names no value of the enum.  It is asked of a
\* singular value, of the elements of a list and of the values of a map.
UnknownEnumName(kind, e, d) == kind = "enum" /\ d[1] = "string" /\ d[2] \notin Names(e)

\* Mutant: null is skipped for every type but Value.
TakesNullValueOnly(f) == f.key = None /\ f.kind = "message" /\ WellKnown[f.of] = "Value"

\* The types that have a value null.
TakesNull(f) ==
  /\ f.key = None
  /\ \/ f.kind = "message" /\ WellKnown[f.of] = "Value"
     \/ f.kind = "enum" /\ f.of = "NullValue"

\* Mutant: numbers are cast without a check of the range.
IntegerUnchecked(d) ==
  CASE d[1] = "number" -> {d[2]}
    [] d[1] = "string" /\ d[2] \in DOMAIN IntegerText -> {IntegerText[d[2]]}
    [] OTHER -> {}

\* integer_i64 and integer_u64.
Integer(d) ==
  LET n == CASE d[1] = "number" -> {d[2]}
             [] d[1] = "string" /\ d[2] \in DOMAIN IntegerText -> {IntegerText[d[2]]}
             [] OTHER -> {}
  IN  {i \in n : MinInt <= i /\ i <= MaxInt}

\* json_map_key and map_key_string.
MapKey(kind, k) ==
  CASE kind = "string" -> {<<"string", k>>}
    [] kind = "bool"   -> IF k \in {"true", "false"} THEN {<<"bool", k = "true">>} ELSE {}
    [] kind = "int"    -> IF k \in Exponents THEN {} ELSE {<<"int", n>> : n \in Integer(<<"string", k>>)}

KeyText(key) ==
  CASE key[1] = "string" -> key[2]
    [] key[1] = "bool"   -> IF key[2] THEN "true" ELSE "false"
    [] key[1] = "int"    -> ToString(key[2])

Sorted(keys) == SelectSeq(KeyOrder, LAMBDA k : k \in keys)

\* json_is_default.
IsDefault(v) ==
  \/ v[1] \in {"int", "long", "enum"} /\ v[2] = 0
  \/ v[1] = "bool" /\ ~v[2]
  \/ v[1] = "string" /\ v[2] = ""
  \/ v[1] \in {"list", "map", "payload"} /\ v[2] = <<>>

DefaultOf(kind) ==
  CASE kind \in {"int", "long", "enum"} -> <<kind, 0>>
    [] kind = "bool"    -> <<"bool", FALSE>>
    [] kind = "string"  -> <<"string", "">>
    [] kind = "message" -> <<"message", <<>>>>

-----------------------------------------------------------------------------
(* The codec, as encode_any and decode_any use it.                         *)

\* The last entry of each key, in the place of the first.
LastWins(entries) ==
  LET keys  == {entries[i][1] : i \in DOMAIN entries}
      first(k) == Min({i \in DOMAIN entries : entries[i][1] = k})
      last(k)  == Max({i \in DOMAIN entries : entries[i][1] = k})
      order == SelectSeq([i \in DOMAIN entries |-> i], LAMBDA i : i = first(entries[i][1]))
  IN  [i \in DOMAIN order |-> entries[last(entries[order[i]][1])]]

RECURSIVE Received(_, _), ReceivedValue(_, _)

\* The message that is read back after encode and decode: without the implicit
\* defaults.
Received(t, m) ==
  LET kept == {n \in DOMAIN m : LET f == FieldNamed(t, n) IN
                 ~(IsDefault(m[n]) /\ (~f.explicit \/ m[n][1] \in {"list", "map"}))}
  IN  [n \in kept |-> ReceivedValue(FieldNamed(t, n), m[n])]

ReceivedValue(f, v) ==
  CASE v[1] = "message" -> <<"message", Received(f.of, v[2])>>
    [] v[1] = "list" -> <<"list", [i \in DOMAIN v[2] |-> ReceivedValue(f, v[2][i])]>>
    [] v[1] = "map"  -> LET entries == LastWins(v[2]) IN
                        <<"map", [i \in DOMAIN entries |->
                                    <<entries[i][1], ReceivedValue(f, entries[i][2])>>]>>
    [] OTHER -> v

RECURSIVE Encodes(_, _)

\* encode accepts the message: map keys differ, required fields are there, closed
\* enums have declared numbers, in every submessage.
EncodesValue(f, v) ==
  CASE v[1] = "message" -> Encodes(f.of, v[2])
    [] v[1] = "enum"    -> Enums[f.of].closed => Spelled(f.of, v[2]) # {}
    [] OTHER -> TRUE

Encodes(t, m) ==
  /\ \A i \in DOMAIN Fields[t] : Fields[t][i].card = "required" => Fields[t][i].name \in DOMAIN m
  /\ \A n \in DOMAIN m :
       LET f == FieldNamed(t, n)
       IN  CASE m[n][1] = "list" -> \A i \in DOMAIN m[n][2] : EncodesValue(f, m[n][2][i])
             [] m[n][1] = "map"  ->
                  /\ \A i, j \in DOMAIN m[n][2] : m[n][2][i][1] = m[n][2][j][1] => i = j
                  /\ \A i \in DOMAIN m[n][2] : EncodesValue(f, m[n][2][i][2])
             [] OTHER -> (~f.explicit /\ IsDefault(m[n])) \/ EncodesValue(f, m[n])

-----------------------------------------------------------------------------
(* From JSON.  o.ignore is ignore_unknown_fields.                          *)

\* is_custom_json_well_known.
Custom(t) == WellKnown[t] # "no"

\* Mutant: unknown enum names are skipped by strict decoding too.
SkippedAlways(f, d, o) ==
  \/ f.key = None /\ UnknownEnumName(f.kind, f.of, d)
  \/ d[1] = "null" /\ ~TakesNull(f)

Skipped(f, d, o) ==
  \/ o.ignore /\ f.key = None /\ UnknownEnumName(f.kind, f.of, d)
  \/ d[1] = "null" /\ ~TakesNull(f)

\* Mutant: a member that is skipped does not count.
AliasedValues(t, object, o) ==
  \E j, k \in Known(t) \cap DOMAIN object :
    /\ j # k /\ FieldOf(t, j) = FieldOf(t, k)
    /\ ~Skipped(FieldOf(t, j), object[j], o) /\ ~Skipped(FieldOf(t, k), object[k], o)

\* Two keys name one field, whatever their values.
Aliased(t, object, o) ==
  \E j, k \in Known(t) \cap DOMAIN object :
    j # k /\ FieldOf(t, j) = FieldOf(t, k)

\* Two members are in one oneof.
Conflicting(t, used) ==
  \E j, k \in used : /\ FieldOf(t, j).name # FieldOf(t, k).name
                     /\ FieldOf(t, j).oneof = FieldOf(t, k).oneof /\ FieldOf(t, j).oneof # None

RECURSIVE JsonToMessage(_, _, _), JsonToScalar(_, _, _, _)

\* Mutant: the unknown enum names of a list are not ignored.
ElementsAll(f, d, o) == d[2]

Elements(f, d, o) ==
  SelectSeq(d[2], LAMBDA e : ~(o.ignore /\ UnknownEnumName(f.kind, f.of, e)))

\* The repeated case of json_to_message, and decode_map.
JsonToList(f, d, o) ==
  LET es == Elements(f, d, o)
  IN  IF d[1] # "array" THEN {}
      ELSE IF \E i \in DOMAIN d[2] : d[2][i][1] = "null" THEN {}
      ELSE {<<"list", xs>> : xs \in Each([i \in DOMAIN es |-> JsonToScalar(f.kind, f.of, es[i], o)])}

JsonToMap(f, d, o) ==
  IF d[1] # "object" THEN {}
  ELSE IF \E k \in DOMAIN d[2] : d[2][k][1] = "null" THEN {}
  ELSE LET keys == Sorted({k \in DOMAIN d[2] : ~(o.ignore /\ UnknownEnumName(f.kind, f.of, d[2][k]))})
       IN  {<<"map", es>> : es \in Each([i \in DOMAIN keys |->
              {<<k, v>> : k \in MapKey(f.key, keys[i]),
                          v \in JsonToScalar(f.kind, f.of, d[2][keys[i]], o)}])}

JsonToField(f, d, o) ==
  IF f.key # None THEN JsonToMap(f, d, o)
  ELSE IF f.card = "repeated" THEN JsonToList(f, d, o)
  ELSE JsonToScalar(f.kind, f.of, d, o)

\* Mutant: presence is not looked at.
InsertedUnlessDefault(m, f, v) == IF IsDefault(v) THEN m ELSE Only(f.name, v) @@ m

\* insert, unless the value is an implicit default.
Inserted(m, f, v) == IF f.explicit \/ ~IsDefault(v) THEN Only(f.name, v) @@ m ELSE m

\* The fields of an ordinary message.
JsonToFields(t, object, o) ==
  LET named == Known(t) \cap DOMAIN object
      used  == {k \in named : ~Skipped(FieldOf(t, k), object[k], o)}
      visit(ms, k) == {Inserted(m, FieldOf(t, k), v) :
                         m \in ms, v \in JsonToField(FieldOf(t, k), object[k], o)}
  IN  IF \/ ~o.ignore /\ named # DOMAIN object
         \/ Aliased(t, object, o) \/ Conflicting(t, used)
      THEN {}
      ELSE FoldLeft(visit, {<<>>}, Sorted(used))

\* json_to_scalar and json_enum.
JsonToScalar(kind, of, d, o) ==
  CASE kind \in {"int", "long"} -> {<<kind, n>> : n \in Integer(d)}
    [] kind = "bool"   -> IF d[1] = "bool" THEN {d} ELSE {}
    [] kind = "string" -> IF d[1] = "string" THEN {d} ELSE {}
    [] kind = "enum" ->
         IF of = "NullValue" /\ d[1] = "null" THEN {<<"enum", 0>>}
         ELSE IF d[1] = "string"
              THEN IF d[2] \in Names(of) THEN {<<"enum", NumberOf(of, d[2])>>} ELSE {}
              ELSE {<<"enum", n>> : n \in Integer(d)}
    [] kind = "message" -> {<<"message", m>> : m \in JsonToMessage(of, d, o)}

JsonToValue(d, o) ==
  CASE d[1] = "null"   -> {Only("null_value", <<"enum", 0>>)}
    [] d[1] = "bool"   -> {Only("bool_value", d)}
    [] d[1] = "number" -> {Only("number_value", <<"int", d[2]>>)}
    [] d[1] = "string" -> {Only("string_value", d)}
    [] d[1] = "array"  -> {Only("list_value", <<"message", m>>) :
                             m \in JsonToMessage("ListValue", d, o)}
    [] d[1] = "object" -> {Only("struct_value", <<"message", m>>) :
                             m \in JsonToMessage("Struct", d, o)}

\* decode_any.
JsonToAny(d, o) ==
  IF d[1] # "object" THEN {}
  ELSE IF "@type" \notin DOMAIN d[2] THEN IF DOMAIN d[2] = {} THEN {<<>>} ELSE {}
  ELSE LET url == d[2]["@type"]
       IN  IF url[1] # "string" THEN {}
           ELSE IF url[2] \notin DOMAIN TypeUrls THEN {}
           ELSE LET t == TypeUrls[url[2]]
                    inner == CASE ~Custom(t) ->
                                    {<<"object", [k \in DOMAIN d[2] \ {"@type"} |-> d[2][k]]>>}
                               [] OTHER -> IF "value" \in DOMAIN d[2] THEN {d[2]["value"]} ELSE {}
                    sent == UNION {JsonToMessage(t, i, o) : i \in inner}
                IN  {Only("type_url", url) @@ Only("value", <<"payload", Received(t, m)>>) :
                       m \in {n \in sent : Encodes(t, n)}}

JsonToMessage(t, d, o) ==
  CASE WellKnown[t] = "Wrapper" ->
         {Only("value", v) : v \in JsonToScalar(Fields[t][1].kind, Fields[t][1].of, d, o)}
    [] WellKnown[t] = "Any"   -> JsonToAny(d, o)
    [] WellKnown[t] = "Value" -> JsonToValue(d, o)
    [] WellKnown[t] = "ListValue" ->
         IF d[1] # "array" THEN {}
         ELSE {Only("values", <<"list", [i \in DOMAIN ms |-> <<"message", ms[i]>>]>>) :
                 ms \in Each([i \in DOMAIN d[2] |-> JsonToMessage("Value", d[2][i], o)])}
    [] WellKnown[t] = "Struct" ->
         IF d[1] # "object" THEN {}
         ELSE LET keys == Sorted(DOMAIN d[2]) IN
              {Only("fields", <<"map", [i \in DOMAIN ms |->
                                  <<<<"string", keys[i]>>, <<"message", ms[i]>>>>]>>) :
                 ms \in Each([i \in DOMAIN keys |-> JsonToMessage("Value", d[2][keys[i]], o)])}
    [] WellKnown[t] = "no" -> IF d[1] # "object" THEN {} ELSE JsonToFields(t, d[2], o)

-----------------------------------------------------------------------------
(* To JSON.                                                                *)

\* A JSON object built by insertions: the last value of a key stays.
Object(pairs) ==
  <<"object", [k \in {pairs[i][1] : i \in DOMAIN pairs} |->
                 pairs[Max({i \in DOMAIN pairs : pairs[i][1] = k})][2]]>>

RECURSIVE MessageToJson(_, _), ScalarToJson(_, _, _)

\* A tag that is not the kind's is a dynamic value of another type.
ScalarToJson(kind, of, v) ==
  CASE v[1] # kind      -> {}
    [] kind = "int"     -> {<<"number", v[2]>>}
    [] kind = "long"    -> {<<"string", ToString(v[2])>>}
    [] kind \in {"bool", "string"} -> {v}
    [] kind = "enum" ->
         IF of = "NullValue" THEN {<<"null">>}
         ELSE IF Spelled(of, v[2]) = {} THEN {<<"number", v[2]>>}
         ELSE {<<"string", Enums[of].values[Min(Spelled(of, v[2]))][1]>>}
    [] kind = "message" -> MessageToJson(of, v[2])

\* encode_map, and the other cases of message_to_json.
FieldToJson(f, v) ==
  IF f.key # None
  THEN IF v[1] # "map" THEN {}
       ELSE {Object([i \in DOMAIN ds |-> <<KeyText(v[2][i][1]), ds[i]>>]) :
               ds \in Each([i \in DOMAIN v[2] |-> ScalarToJson(f.kind, f.of, v[2][i][2])])}
  ELSE IF f.card = "repeated"
  THEN IF v[1] # "list" THEN {}
       ELSE {<<"array", ds>> :
               ds \in Each([i \in DOMAIN v[2] |-> ScalarToJson(f.kind, f.of, v[2][i])])}
  ELSE ScalarToJson(f.kind, f.of, v)

FieldsToJson(t, m) ==
  LET present == SelectSeq(Fields[t], LAMBDA f : f.name \in DOMAIN m)
  IN  {Object([i \in DOMAIN ds |-> <<present[i].writes, ds[i]>>]) :
         ds \in Each([i \in DOMAIN present |-> FieldToJson(present[i], m[present[i].name])])}

\* encode_any: bytes that are absent decode to an empty message.
AnyToJson(m) ==
  IF "type_url" \notin DOMAIN m THEN {<<"object", <<>>>>}
  ELSE LET url == m["type_url"]
       IN  IF url[2] \notin DOMAIN TypeUrls THEN {}
           ELSE LET t == TypeUrls[url[2]]
                    inner == IF "value" \in DOMAIN m THEN m["value"][2] ELSE <<>>
                IN  {IF Custom(t) THEN <<"object", ("@type" :> url) @@ ("value" :> d)>>
                     ELSE <<"object", d[2] @@ ("@type" :> url)>> : d \in MessageToJson(t, inner)}

MessageToJson(t, m) ==
  CASE WellKnown[t] = "Wrapper" ->
         LET f == Fields[t][1]
         IN  ScalarToJson(f.kind, f.of, IF f.name \in DOMAIN m THEN m[f.name] ELSE DefaultOf(f.kind))
    [] WellKnown[t] = "Any" -> AnyToJson(m)
    [] WellKnown[t] = "Value" ->
         LET present == SelectSeq(Fields[t], LAMBDA f : f.name \in DOMAIN m)
         IN  IF present = <<>> THEN {<<"null">>}
             ELSE ScalarToJson(present[1].kind, present[1].of, m[present[1].name])
    [] WellKnown[t] = "ListValue" ->
         IF "values" \notin DOMAIN m THEN {<<"array", <<>>>>}
         ELSE LET vs == m["values"][2]
              IN  {<<"array", ds>> :
                     ds \in Each([i \in DOMAIN vs |-> MessageToJson("Value", vs[i][2])])}
    [] WellKnown[t] = "Struct" ->
         IF "fields" \notin DOMAIN m THEN {<<"object", <<>>>>}
         ELSE LET es == m["fields"][2]
              IN  {Object([i \in DOMAIN ds |-> <<es[i][1][2], ds[i]>>]) :
                     ds \in Each([i \in DOMAIN es |-> MessageToJson("Value", es[i][2][2])])}
    [] WellKnown[t] = "no" -> FieldsToJson(t, m)
=============================================================================
