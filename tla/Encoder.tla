------------------------------- MODULE Encoder -------------------------------
(***************************************************************************)
(* encode_with_options: what encode_inner writes for a message, and when   *)
(* it refuses.                                                             *)
(*                                                                         *)
(* encode_inner recurses over the submessages; with the message laid flat  *)
(* (DynMessage) its output is a function from addresses to the sequence of *)
(* occurrences it writes for the node there, and a submessage's occurrence *)
(* stands for the sequence at its own address.  Every address is visited,  *)
(* so one refusal anywhere refuses the message.                            *)
(*                                                                         *)
(* Not modelled: fields the application adds (add_field), the order of map *)
(* entries (a map is a function here, so they come in key order) and the   *)
(* bit patterns of floats.                                                 *)
(***************************************************************************)
EXTENDS DynMessage, SequencesExt

CONSTANTS
  Declared, \* the fields in declaration order
  Number,   \* field numbers; Number[None] is that of the unknown fields
  Implicit, \* the fields without explicit presence
  Packed    \* the repeated fields written as one occurrence

\* resolve_features gives explicit presence to messages and oneof members, and
\* packs only repeated scalars; validate_message_fields keeps numbers apart.
ASSUME EncodingAssumption ==
  /\ Declared \in Seq(Field) /\ IsInjective(Declared) /\ Range(Declared) = Field
  /\ Number \in [Field \cup {None} -> Nat \ {0}]
  /\ \A f, g \in Field : f # g /\ Desc[f].owner = Desc[g].owner => Number[f] # Number[g]
  /\ Implicit \subseteq {f \in ScalarField : Desc[f].card = "optional" /\ Desc[f].oneof = None}
  /\ Packed \subseteq {f \in RepeatedField : Desc[f].child = None}

EncodeOptions ==
  [forward_unknown_fields : BOOLEAN, forward_unknown_messages : BOOLEAN,
   duplicates : {"LastOnly", "PreserveAll"},
   field_order : {"Declaration", "FieldNumber"}, max_output_bytes : Nat]

\* One occurrence in the output.  A "message" is at the address of its field.
Occurrence(form, f, payload) == [form |-> form, field |-> f, payload |-> payload]

-----------------------------------------------------------------------------
(* What one node writes.                                                   *)

\* Mutant: every record is replayed.
ReplayedAll(node, e) ==
  LET raw == SelectSeq(node.audit, LAMBDA r : r.field \in ScalarField \cup MapField)
  IN  [i \in DOMAIN raw |->
         Occurrence(IF raw[i].field \in MapField THEN "entry" ELSE "scalar",
                    raw[i].field, raw[i].payload)]

Discarded(node) == SelectSeq(node.audit, LAMBDA r : r.tag = "DuplicateDiscarded")

\* The displaced occurrences come first.
Replayed(node, e) ==
  LET raw == IF e.duplicates = "PreserveAll" THEN Discarded(node) ELSE <<>>
  IN  [i \in DOMAIN raw |->
         Occurrence(IF raw[i].field \in MapField THEN "entry" ELSE "scalar",
                    raw[i].field, raw[i].payload)]

\* Mutant: every zero is taken for an absent field.
ElidesZero(f, v) == v = 0

\* An implicit field with its default value is not written.
Elided(f, v) == f \in Implicit /\ v = 0

\* The occurrences of f for the message at address a.
Known(m, a, f) ==
  LET node == m[a] IN
  CASE ~HasAt(m, a, f) -> <<>>
    [] f \in ScalarField ->
         IF Elided(f, node.scalar[f]) THEN <<>>
         ELSE <<Occurrence("scalar", f, <<node.scalar[f]>>)>>
    [] f \in MessageField -> <<Occurrence("message", f, <<>>)>>
    [] f \in RepeatedField ->
         LET xs == node.rep[f] IN
         IF f \notin Packed THEN [i \in DOMAIN xs |-> Occurrence("scalar", f, <<xs[i]>>)]
         ELSE IF xs = <<>> THEN <<>> ELSE <<Occurrence("packed", f, xs)>>
    [] f \in MapField ->
         LET keys == SetToSortSeq(Keys(node.map[f]), <)
         IN  [i \in DOMAIN keys |->
                Occurrence("entry", f, <<keys[i], node.map[f][keys[i]]>>)]

Forwards(entry, e) ==
  IF entry.payload[1] \in {WireBytes, WireGroup}
  THEN e.forward_unknown_messages ELSE e.forward_unknown_fields

Forwarded(node, e) ==
  LET kept == SelectSeq(node.unknown, LAMBDA u : Forwards(u, e))
  IN  [i \in DOMAIN kept |->
         Occurrence(IF kept[i].field = None THEN "unknown" ELSE "scalar",
                    kept[i].field, kept[i].payload)]

\* apply_field_order: a stable sort by field number.
FieldOrder(os, e) ==
  IF e.field_order = "Declaration" THEN os
  ELSE LET numbers == SetToSortSeq(Range(Number), <)
       IN  FlattenSeq([i \in DOMAIN numbers |->
                         SelectSeq(os, LAMBDA o : Number[o.field] = numbers[i])])

\* Mutant: the unknown fields are left behind.
EncodedWithoutUnknown(m, e) ==
  [a \in DOMAIN m |->
     FieldOrder(Replayed(m[a], e)
                \o FlattenSeq([i \in DOMAIN Declared |-> Known(m, a, Declared[i])]), e)]

Encoded(m, e) ==
  [a \in DOMAIN m |->
     FieldOrder(Replayed(m[a], e)
                \o FlattenSeq([i \in DOMAIN Declared |-> Known(m, a, Declared[i])])
                \o Forwarded(m[a], e), e)]

-----------------------------------------------------------------------------
(* Sizes: a key, a length, a scalar or an unknown value takes one byte; a  *)
(* map entry has two keys and two values.                                  *)

OccurrenceSize(o, body) ==
  CASE o.form \in {"scalar", "unknown"} -> 2
    [] o.form = "packed"  -> 2 + Len(o.payload)
    [] o.form = "entry"   -> 6
    [] o.form = "message" -> 2 + body

\* The size of the output for each address.
Sizes(output) ==
  LET size[a \in DOMAIN output] ==
        FoldLeft(LAMBDA n, o : n + OccurrenceSize(o, IF o.form = "message"
                                                     THEN size[Append(a, o.field)] ELSE 0),
                 0, output[a])
  IN  size

-----------------------------------------------------------------------------
(* Refusals.                                                               *)

\* validate_message_shape.
OneofConflict(m, a) == \E f \in Field : HasAt(m, a, f) /\ \E g \in Siblings(f) : HasAt(m, a, g)

\* A declared field would write a number its closed enum does not declare.
WritesUndeclared(m, a) ==
  \E f \in Field : /\ Desc[f].enum = "closed"
                   /\ \E i \in DOMAIN Known(m, a, f) :
                        LET o == Known(m, a, f)[i]
                            values == IF o.form = "entry" THEN {o.payload[2]} ELSE Range(o.payload)
                        IN  ~(values \subseteq KnownValue)

TypeOf(root, a) == IF a = <<>> THEN root ELSE Desc[a[Len(a)]].child

LacksRequired(m, root, a) ==
  \E f \in Field : Desc[f].owner = TypeOf(root, a) /\ Desc[f].card = "required" /\ ~HasAt(m, a, f)

\* PreserveAll needs the bytes of what it replays.
CannotReplay(m, a, e) ==
  e.duplicates = "PreserveAll" /\ \E i \in DOMAIN Discarded(m[a]) : Discarded(m[a])[i].bytes = 0

TooLarge(m, e) ==
  LET size == Sizes(Encoded(m, e)) IN \E a \in DOMAIN size : size[a] > e.max_output_bytes

Refuses(m, root, e) ==
  \/ \E a \in DOMAIN m : \/ OneofConflict(m, a) \/ WritesUndeclared(m, a)
                         \/ LacksRequired(m, root, a) \/ CannotReplay(m, a, e)
  \/ TooLarge(m, e)
=============================================================================
