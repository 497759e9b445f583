---------------------------- MODULE JsonMapping ----------------------------
(***************************************************************************)
(* A message that comes from a JSON document or from the wire, goes over   *)
(* the wire or not, is written as JSON and read back:                      *)
(* decode_json_with_options, encode, decode and encode_json called one     *)
(* after the other by an application.                                      *)
(***************************************************************************)
EXTENDS Json

CONSTANTS
  Documents, \* pairs of a type and a JSON document for it
  FromWire   \* pairs of a type and a message that decode returned

Strict   == [ignore |-> FALSE]
Ignoring == [ignore |-> TRUE]

VARIABLES
  type,    \* the message type
  doc,     \* the document, None if there was none
  o,       \* JsonDecodeOptions
  phase,   \* "parse", "hold", "written", "reread", or where an Err ended it:
           \* "refused", "unwritable", "unreadable"
  message, \* the message the application holds
  sent,    \* the message when it was first held
  json     \* what encode_json returned

vars == <<type, doc, o, phase, message, sent, json>>

Init ==
  /\ \/ /\ \E d \in Documents : type = d[1] /\ doc = d[2]
        /\ o \in {Strict, Ignoring}
        /\ phase = "parse" /\ message = None
     \/ /\ \E m \in FromWire : type = m[1] /\ message = m[2]
        /\ doc = None /\ o = Strict /\ phase = "hold"
  /\ sent = message /\ json = None

DecodeJson ==
  /\ phase = "parse"
  /\ LET read == JsonToMessage(type, doc, o)
     IN  \/ /\ read = {} /\ phase' = "refused"
            /\ UNCHANGED <<message, sent>>
         \/ \E m \in read : phase' = "hold" /\ message' = m /\ sent' = m
  /\ UNCHANGED <<type, doc, o, json>>

\* encode, then decode.
Transmit ==
  /\ phase = "hold"
  /\ message' = IF Encodes(type, message) THEN Received(type, message) ELSE message
  /\ phase' = IF Encodes(type, message) THEN "hold" ELSE "refused"
  /\ UNCHANGED <<type, doc, o, sent, json>>

EncodeJson ==
  /\ phase = "hold"
  /\ LET written == MessageToJson(type, message)
     IN  \/ written = {} /\ phase' = "unwritable" /\ json' = None
         \/ \E d \in written : phase' = "written" /\ json' = d
  /\ UNCHANGED <<type, doc, o, message, sent>>

\* decode_json, which is strict.
Reread ==
  /\ phase = "written"
  /\ LET read == JsonToMessage(type, json, Strict)
     IN  \/ read = {} /\ phase' = "unreadable" /\ UNCHANGED message
         \/ \E m \in read : phase' = "reread" /\ message' = m
  /\ UNCHANGED <<type, doc, o, sent, json>>

Next == DecodeJson \/ Transmit \/ EncodeJson \/ Reread

Spec == Init /\ [][Next]_vars

-----------------------------------------------------------------------------
(* Properties.                                                             *)

RECURSIVE Fits(_, _)

FitsValue(f, v) ==
  CASE v[1] = "message" -> f.kind = "message" /\ Fits(f.of, v[2])
    [] v[1] \in {"int", "long", "enum"} -> f.kind = v[1] /\ v[2] \in MinInt .. MaxInt
    [] OTHER -> v[1] = f.kind

Fits(t, m) ==
  \A n \in DOMAIN m :
    LET f == FieldNamed(t, n)
    IN  /\ n \in DOMAIN Described[t]
        /\ \A k \in DOMAIN m \ {n} : f.oneof = None \/ FieldNamed(t, k).oneof # f.oneof
        /\ CASE m[n][1] = "list" -> /\ f.card = "repeated" /\ f.key = None
                                    /\ \A i \in DOMAIN m[n][2] : FitsValue(f, m[n][2][i])
             [] m[n][1] = "map"  -> /\ f.key # None
                                    /\ \A i \in DOMAIN m[n][2] : /\ m[n][2][i][1][1] = f.key
                                                                 /\ FitsValue(f, m[n][2][i][2])
             [] OTHER -> f.card # "repeated" /\ FitsValue(f, m[n])

\* A message that decode_json returns fits its descriptor at every depth: its
\* fields are declared, hold one value, a list or a map as declared, of the
\* declared kind and in range, and no two of them are members of one oneof.
MessagesFit == message # None => Fits(type, message)

\* A document in which two keys name one field (its name, its JSON name or its
\* name in brackets) is refused, even if the value of one is null, the default
\* or an unknown enum name that is ignored: neither value is chosen silently.
AliasesRefused ==
  phase = "hold" /\ doc # None /\ ~Custom(type) =>
    \A n \in DOMAIN Described[type] :
      Cardinality(DOMAIN doc[2] \cap FieldNamed(type, n).names) <= 1

\* Whatever the document, what decode_json returns is a message of its descriptor,
\* and every field of it comes from one member.
DecodedFits == MessagesFit /\ AliasesRefused

RECURSIVE Pruned(_, _)

PrunedValue(f, d) ==
  IF f.kind # "message" THEN d ELSE Pruned(f.of, d)

\* The members of an object that stay, and the elements of a list: those that are
\* declared and are not an enum name that is not.
PrunedField(f, d) ==
  CASE f.key # None /\ d[1] = "object" ->
         <<"object", [k \in {k \in DOMAIN d[2] : ~UnknownEnumName(f.kind, f.of, d[2][k])} |->
                        PrunedValue(f, d[2][k])]>>
    [] f.key = None /\ f.card = "repeated" /\ d[1] = "array" ->
         LET kept == SelectSeq(d[2], LAMBDA e : ~UnknownEnumName(f.kind, f.of, e))
         IN  <<"array", [i \in DOMAIN kept |-> PrunedValue(f, kept[i])]>>
    [] f.key = None /\ f.card # "repeated" -> PrunedValue(f, d)
    [] OTHER -> d

PrunedAny(d) ==
  LET t    == TypeUrls[d[2]["@type"][2]]
      rest == [k \in DOMAIN d[2] \ {"@type"} |-> d[2][k]]
  IN  <<"object", ("@type" :> d[2]["@type"]) @@
          IF Custom(t)
          THEN [k \in DOMAIN rest |-> IF k = "value" THEN Pruned(t, rest[k]) ELSE rest[k]]
          ELSE Pruned(t, <<"object", rest>>)[2]>>

\* The document without the members and elements that ignore_unknown_fields is
\* documented to ignore, but with every key of a field that has two.
Pruned(t, d) ==
  IF d[1] # "object" THEN d
  ELSE CASE WellKnown[t] = "no" ->
              LET known == Known(t) \cap DOMAIN d[2]
                  kept  == {k \in known :
                              LET f == FieldOf(t, k)
                              IN  \/ f.key # None \/ ~UnknownEnumName(f.kind, f.of, d[2][k])
                                  \/ \E j \in known \ {k} : FieldOf(t, j) = f}
              IN  <<"object", [k \in kept |-> PrunedField(FieldOf(t, k), d[2][k])]>>
         [] WellKnown[t] = "Any" ->
              IF "@type" \in DOMAIN d[2]
              THEN IF d[2]["@type"][1] = "string" /\ d[2]["@type"][2] \in DOMAIN TypeUrls
                   THEN PrunedAny(d) ELSE d
              ELSE d
         [] OTHER -> d

\* What decode_json accepts has no unknown member and no unknown enum name at any
\* depth, in lists, maps and the payloads of Any included: nothing was dropped.
StrictDropsNothing ==
  phase = "hold" /\ doc # None /\ o = Strict => Pruned(type, doc) = doc

\* ignore_unknown_fields ignores unknown members and enum names, at any depth, and
\* changes nothing else: the document decodes as what remains of it does strictly,
\* and is refused if that is.
IgnoringPrunes ==
  /\ phase = "hold" /\ doc # None /\ o = Ignoring =>
       JsonToMessage(type, Pruned(type, doc), Strict) = {sent}
  /\ phase = "refused" /\ sent = None /\ o = Ignoring =>
       JsonToMessage(type, Pruned(type, doc), Strict) = {}

\* The option decides about unknown members and enum names and about nothing else.
IgnoresExactly == StrictDropsNothing /\ IgnoringPrunes

-----------------------------------------------------------------------------
(* The round trip.                                                         *)

\* Values that are written as null, in a place where null is not read, or that
\* null is read as something else for.
RECURSIVE Loses(_, _)

WrittenNull(f, v) ==
  \/ f.kind = "enum" /\ f.of = "NullValue"
  \/ /\ f.kind = "message" /\ WellKnown[f.of] = "Value"
     /\ DOMAIN v[2] \subseteq {"null_value"}

LosesValue(f, v) == v[1] = "message" /\ Loses(f.of, v[2])

LosesField(f, v) ==
  CASE v[1] = "list" -> \E i \in DOMAIN v[2] : WrittenNull(f, v[2][i]) \/ LosesValue(f, v[2][i])
    [] v[1] = "map"  -> \E i \in DOMAIN v[2] : WrittenNull(f, v[2][i][2]) \/ LosesValue(f, v[2][i][2])
    [] OTHER -> \/ f.kind = "enum" /\ f.of = "NullValue" /\ v[2] # 0
                \/ LosesValue(f, v)

Loses(t, m) ==
  CASE WellKnown[t] = "Value" ->
         m = <<>> \/ \E n \in DOMAIN m : LosesField(FieldNamed(t, n), m[n])
    [] WellKnown[t] = "Any" ->
         IF "type_url" \notin DOMAIN m THEN m # <<>>
         ELSE "value" \in DOMAIN m /\ Loses(TypeUrls[m["type_url"][2]], m["value"][2])
    [] WellKnown[t] \in {"ListValue", "Struct"} ->
         \E n \in DOMAIN m : \E i \in DOMAIN m[n][2] :
           LET v == IF m[n][1] = "list" THEN m[n][2][i] ELSE m[n][2][i][2]
           IN  Loses("Value", v[2])
    [] OTHER -> \E n \in DOMAIN m : LosesField(FieldNamed(t, n), m[n])

\* A message as its receiver takes it: map entries have no order.
RECURSIVE Meaning(_, _), MeaningOf(_, _)

MeaningOf(f, v) ==
  CASE v[1] = "message" -> <<"message", Meaning(f.of, v[2])>>
    [] v[1] = "list" -> <<"list", [i \in DOMAIN v[2] |-> MeaningOf(f, v[2][i])]>>
    [] v[1] = "map"  -> <<"map", {<<v[2][i][1], MeaningOf(f, v[2][i][2])>> : i \in DOMAIN v[2]}>>
    [] OTHER -> v

Meaning(t, m) == [n \in DOMAIN m |-> MeaningOf(FieldNamed(t, n), m[n])]

\* Every message that fits can be written as JSON, decode_json accepts what was
\* written, and the message it returns means what was written, also if it went
\* over the wire before.  Exempt are the nulls of Loses.
SurvivesRoundTrip ==
  /\ phase # "unwritable"
  /\ phase = "unreadable" => Loses(type, sent)
  /\ phase = "reread" /\ ~Loses(type, sent) =>
       Meaning(type, Received(type, message)) = Meaning(type, Received(type, sent))
=============================================================================
