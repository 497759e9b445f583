------------------------------- MODULE Decoder -------------------------------
(***************************************************************************)
(* decode_with_options: the recursive binary decoder, as a state machine   *)
(* over its call stack.                                                    *)
(*                                                                         *)
(* A frame is one activation of decode_inner ("message"), of               *)
(* decode_map_entry ("entry"), of the loop over packed elements ("packed") *)
(* or of the group loop of skip_decode ("group").  The input is revealed   *)
(* as it is read: each step decodes one wire occurrence, the key with the  *)
(* value it announces, and the environment chooses which.  Lengths are     *)
(* real: a frame knows how many bytes of its slice are left, and every     *)
(* key, length and scalar takes one byte.  Only what one occurrence holds  *)
(* is abstract; whatever the reader functions reject about it (truncation, *)
(* a wrong wire type, an overlong varint, invalid UTF-8, a mismatched end  *)
(* tag) is the action Malformed.                                           *)
(***************************************************************************)
EXTENDS DynMessage, SequencesExt

CONSTANTS
  RootTypes,   \* the descriptors given to decode
  Options,     \* the DecodeOptions values callers use
  MaxInput     \* bound: bytes of the input

ASSUME InputAssumption ==
  /\ RootTypes \subseteq Type
  /\ MaxInput \in Nat

DecodeOptions ==
  [max_message_bytes : Nat, max_recursion_depth : Nat,
   max_field_occurrences : Nat, max_length_delimited_bytes : Nat,
   max_repeated_values : Nat, max_map_entries : Nat, max_audit_bytes : Nat,
   unknown_fields : {"Preserve", "Drop", "Reject"},
   duplicates : {"Allow", "Reject"},
   audit_mode : {"Full", "MetadataOnly"},
   enum_values : {"Preserve", "RejectUnknown"}]

ASSUME OptionsAssumption == Options \subseteq DecodeOptions

VARIABLES
  options,           \* DecodeContext.options
  field_occurrences, \* DecodeContext.field_occurrences
  audit_bytes,       \* DecodeContext.audit_bytes
  stack,             \* the activations, innermost last
  status             \* "idle", "decoding", "ok" or "error"

vars == <<options, field_occurrences, audit_bytes, stack, status>>

\* via is the field of the caller that the frame decodes, size the bytes of
\* that occurrence (for a group: the bytes the caller had left before it).
\* key and val are what an entry has read, items what a packed loop has read.
IsFrame(fr) ==
  /\ IsMessage(fr.msg)
  /\ fr \in [kind : {"message", "entry", "packed", "group"},
             type : Type \cup {None}, via : Field \cup {None},
             depth : Nat, left : Nat, size : Nat, msg : {fr.msg},
             key : Scalar \cup {None}, val : Value \cup {None}, items : Seq(Scalar)]

MessageFrame(type, via, depth, left, size) ==
  [kind |-> "message", type |-> type, via |-> via, depth |-> depth,
   left |-> left, size |-> size, msg |-> New, key |-> None, val |-> None,
   items |-> <<>>]

EntryFrame(via, depth, left, size) ==
  [MessageFrame(None, via, depth, left, size) EXCEPT !.kind = "entry"]

PackedFrame(via, depth, left, size) ==
  [MessageFrame(None, via, depth, left, size) EXCEPT !.kind = "packed"]

GroupFrame(depth, left, size) ==
  [MessageFrame(None, None, depth, left, size) EXCEPT !.kind = "group"]

Top    == stack[Len(stack)]
Caller == stack[Len(stack) - 1]
Below(n) == SubSeq(stack, 1, Len(stack) - n)

-----------------------------------------------------------------------------
(* Limits and policies.                                                    *)

Init ==
  /\ options \in Options
  /\ field_occurrences = 0
  /\ audit_bytes = 0
  /\ stack = <<>>
  /\ status = "idle"

\* Mutant: an error is swallowed and the loop goes on.
Swallow == UNCHANGED vars

\* Return Err: the partial message and the context are dropped.
Fail ==
  /\ status' = "error"
  /\ stack' = <<>>
  /\ UNCHANGED <<options, field_occurrences, audit_bytes>>

\* Mutants: each limit is reached one too late.
TooDeepLate(depth)     == depth > options.max_recursion_depth + 1
AuditFullLate(bytes)   == audit_bytes > options.max_audit_bytes
RepeatedFullLate(n)    == n > options.max_repeated_values
MapFullLate(n)         == n > options.max_map_entries

TooDeep(depth)   == depth > options.max_recursion_depth
TooLong(length)  == length > options.max_length_delimited_bytes
TooMany          == field_occurrences >= options.max_field_occurrences
AuditFull(bytes) == audit_bytes + bytes > options.max_audit_bytes
RepeatedFull(n)  == n >= options.max_repeated_values
MapFull(n)       == n >= options.max_map_entries
RejectDuplicates == options.duplicates = "Reject"

\* The head of decode_inner on a nested message of n bytes.
RefusesNested(depth, n) == TooDeep(depth) \/ n > options.max_message_bytes

ClosedUnknown(f, v) == Desc[f].enum = "closed" /\ v \notin KnownValue

\* Mutant: map values are not checked.
RefusesEnumOutsideMaps(f, v) ==
  /\ Desc[f].enum # "not" /\ options.enum_values = "RejectUnknown"
  /\ v \notin KnownValue /\ Desc[f].card # "map"

\* The enum policy of val.
RefusesEnum(f, v) ==
  Desc[f].enum # "not" /\ options.enum_values = "RejectUnknown" /\ v \notin KnownValue

\* An occurrence of a present field, or of a sibling in its oneof.
Duplicate(m, f) == \E g \in Siblings(f) \cup {f} : Has(m, g)

\* Mutants: a sibling in the oneof is not a conflict, a message never is.
RefusesScalarDuplicate(m, f) == RejectDuplicates /\ f \in ScalarField /\ Duplicate(m, f)
RefusesSameField(m, f) == RejectDuplicates /\ Has(m, f)

RefusesDuplicate(m, f) == RejectDuplicates /\ Duplicate(m, f)

\* Mutant: only the root is checked.
MissingRequiredAtRoot(frame) ==
  frame.depth = 0 /\ \E f \in Field : /\ Desc[f].owner = frame.type
                                      /\ Desc[f].card = "required"
                                      /\ ~Has(frame.msg, f)

MissingRequired(frame) ==
  \E f \in Field : /\ Desc[f].owner = frame.type
                   /\ Desc[f].card = "required"
                   /\ ~Has(frame.msg, f)

\* Mutant: Drop retains the value too.
KeepUnlessRejected(m, entries) ==
  IF options.unknown_fields # "Reject" THEN PushUnknown(m, entries) ELSE m

KeepUnknown(m, entries) ==
  IF options.unknown_fields = "Preserve" THEN PushUnknown(m, entries) ELSE m

\* A frame whose decoder is at the head of its loop, able to count the next
\* occurrence and with the size bytes it takes still to read.
Reading(kinds, size) ==
  /\ status = "decoding"
  /\ Top.kind \in kinds
  /\ Top.left >= size
  /\ ~TooMany

\* A known field of the current message starts.
Starts(f, size) ==
  Reading({"message"}, size) /\ Desc[f].owner = Top.type

Consume(frame, size) == [frame EXCEPT !.left = @ - size]

\* audit_record and the push that follows it, on a frame whose occurrence is
\* complete; counted is 1 when count_field ran in this same step.
Commit(below, frame, tag, f, payload, size, counted) ==
  LET bytes  == IF options.audit_mode = "Full" THEN size ELSE 0
      record == [tag |-> tag, field |-> f, payload |-> payload, bytes |-> bytes]
  IN  IF bytes > 0 /\ AuditFull(bytes)
      THEN Fail
      ELSE /\ stack' = Append(below, [frame EXCEPT !.msg = PushAudit(@, record)])
           /\ audit_bytes' = audit_bytes + bytes
           /\ field_occurrences' = field_occurrences + counted
           /\ UNCHANGED <<options, status>>

\* A step that keeps no audit record.
Advance(frames) ==
  /\ stack' = frames
  /\ field_occurrences' = field_occurrences + 1
  /\ UNCHANGED <<options, audit_bytes, status>>

-----------------------------------------------------------------------------
(* The call, malformed input and the occurrence limit.                     *)

\* decode_with_options for the descriptor type: the root slice has n bytes.
Decode(type, n) ==
  /\ status = "idle"
  /\ IF n > options.max_message_bytes THEN Fail
     ELSE /\ stack' = <<MessageFrame(type, None, 0, n, 0)>>
          /\ status' = "decoding"
          /\ UNCHANGED <<options, field_occurrences, audit_bytes>>

\* count_field at its limit.
CountField == status = "decoding" /\ Top.kind # "packed" /\ Top.left > 0 /\ TooMany /\ Fail

\* Any defect of the bytes of the next occurrence.
Malformed ==
  /\ status = "decoding" /\ Top.left > 0
  /\ Top.kind = "packed" \/ ~TooMany
  /\ Fail

\* The slice ends inside a group.
Unterminated == status = "decoding" /\ Top.kind = "group" /\ Top.left = 0 /\ Fail

-----------------------------------------------------------------------------
(* Scalars.                                                                *)

\* The tag of an occurrence of f and the demotion of the record it displaces.
OccurrenceTag(duplicate, merged) ==
  IF ~duplicate THEN "SchemaField"
  ELSE IF merged THEN "DuplicateMerged" ELSE "DuplicateLastWins"

\* Mutants: a sibling's record is not demoted, a map's records never are.
DemoteSameField(m, f, duplicate, merged) ==
  IF duplicate /\ ~merged THEN DemoteIn(m, {f}) ELSE m
DemoteOutsideMaps(m, f, duplicate, merged) ==
  IF duplicate /\ ~merged /\ f \notin MapField
  THEN DemoteIn(m, Siblings(f) \cup {f}) ELSE m

DemoteDisplaced(m, f, duplicate, merged) ==
  IF duplicate /\ ~merged THEN DemoteIn(m, Siblings(f) \cup {f}) ELSE m

\* A number that a closed enum does not declare belongs to the unknown fields.
UnknownEnumValue(f, v) ==
  /\ Starts(f, 2) /\ Desc[f].card # "map" /\ ClosedUnknown(f, v)
  /\ IF options.unknown_fields = "Reject" THEN Fail
     ELSE Commit(Below(1),
                 Consume([Top EXCEPT !.msg =
                            KeepUnknown(@, <<[field |-> f, payload |-> <<v>>]>>)], 2),
                 "UnknownField", f, <<v>>, 2, 1)

SingularScalar(f, v) ==
  /\ Starts(f, 2) /\ f \in ScalarField /\ ~ClosedUnknown(f, v)
  /\ LET m         == Top.msg
         duplicate == Duplicate(m, f)
         stored    == SetScalar(Displace(m, f), f, v)
     IN  IF RefusesDuplicate(m, f) \/ RefusesEnum(f, v) THEN Fail
         ELSE Commit(Below(1),
                     Consume([Top EXCEPT !.msg =
                                DemoteDisplaced(stored, f, duplicate, FALSE)], 2),
                     OccurrenceTag(duplicate, FALSE), f, <<v>>, 2, 1)

UnpackedElement(f, v) ==
  /\ Starts(f, 2) /\ f \in RepeatedField /\ Desc[f].child = None
  /\ ~ClosedUnknown(f, v)
  /\ LET xs == Items(Top.msg[<<>>].rep[f])
     IN  IF RefusesEnum(f, v) \/ RepeatedFull(Len(xs)) THEN Fail
         ELSE Commit(Below(1),
                     Consume([Top EXCEPT !.msg = SetRep(@, f, Append(xs, v))], 2),
                     "SchemaField", f, <<v>>, 2, 1)

(* A packed occurrence: its elements gather in the frame and join the       *)
(* field when the slice ends.                                               *)

BeginPacked(f, n) ==
  /\ Starts(f, n + 2) /\ f \in RepeatedField /\ Desc[f].child = None
  /\ IF TooLong(n) THEN Fail
     ELSE Advance(Below(1) \o <<Consume(Top, n + 2), PackedFrame(f, Top.depth, n, n + 2)>>)

Packing == status = "decoding" /\ Top.kind = "packed"

\* The limit is checked before each element, also before one that a closed
\* enum sends to the unknown fields.
PackedElement(v) ==
  /\ Packing /\ Top.left > 0
  /\ LET f  == Top.via
         xs == Items(Top.msg[<<>>].rep[f])
         stored == IF ClosedUnknown(f, v)
                   THEN KeepUnknown(Top.msg, <<[field |-> f, payload |-> <<v>>]>>)
                   ELSE SetRep(Top.msg, f, Append(xs, v))
     IN  IF \/ RepeatedFull(Len(Items(Caller.msg[<<>>].rep[f])) + Len(xs))
            \/ RefusesEnum(f, v)
            \/ (ClosedUnknown(f, v) /\ options.unknown_fields = "Reject")
         THEN Fail
         ELSE /\ stack' = Append(Below(1),
                           Consume([Top EXCEPT !.msg = stored,
                                               !.items = Append(@, v)], 1))
              /\ UNCHANGED <<options, field_occurrences, audit_bytes, status>>

EndPacked ==
  /\ Packing /\ Top.left = 0
  /\ LET f    == Top.via
         node == Top.msg[<<>>]
         xs   == Items(Caller.msg[<<>>].rep[f]) \o Items(node.rep[f])
     IN  Commit(Below(2),
                [Caller EXCEPT !.msg = SetRep(PushUnknown(@, node.unknown), f, xs)],
                "SchemaField", f, Top.items, Top.size, 0)

-----------------------------------------------------------------------------
(* Embedded messages: length-delimited, or a group when the field says so. *)

BeginMessage(f, n) ==
  /\ Starts(f, n + 2) /\ Desc[f].card # "map" /\ Desc[f].child # None
  /\ IF \/ (f \in MessageField /\ RefusesDuplicate(Top.msg, f))
        \/ (~Desc[f].delimited /\ TooLong(n))
        \/ RefusesNested(Top.depth + 1, n)
     THEN Fail
     ELSE Advance(Below(1) \o <<Consume(Top, n + 2),
                    MessageFrame(Desc[f].child, f, Top.depth + 1, n, n + 2)>>)

\* The innermost decode_inner has read its whole slice.
Ends == status = "decoding" /\ Top.kind = "message" /\ Top.left = 0

EndSubmessage ==
  /\ Ends /\ Len(stack) > 1 /\ Top.via \in MessageField
  /\ LET f         == Top.via
         m         == Caller.msg
         duplicate == Duplicate(m, f)
         stored    == MergeMessage(Displace(m, f), f, Top.msg)
     IN  IF MissingRequired(Top) THEN Fail
         ELSE Commit(Below(2),
                     [Caller EXCEPT !.msg = DemoteDisplaced(stored, f, duplicate, duplicate)],
                     OccurrenceTag(duplicate, duplicate), f, <<>>, Top.size, 0)

EndElement ==
  /\ Ends /\ Len(stack) > 1 /\ Top.via \in RepeatedField
  /\ LET f  == Top.via
         xs == Items(Caller.msg[<<>>].rep[f])
     IN  IF MissingRequired(Top) \/ RepeatedFull(Len(xs)) THEN Fail
         ELSE Commit(Below(2), [Caller EXCEPT !.msg = SetRep(@, f, Append(xs, Elem))],
                     "SchemaField", f, <<>>, Top.size, 0)

\* Ok(m) of the outermost call.
EndRoot ==
  /\ Ends /\ Len(stack) = 1
  /\ IF MissingRequired(Top) THEN Fail
     ELSE status' = "ok" /\ UNCHANGED <<options, field_occurrences, audit_bytes, stack>>

-----------------------------------------------------------------------------
(* Map entries: decode_map_entry, then the insertion in the map.           *)

BeginEntry(f, n) ==
  /\ Starts(f, n + 2) /\ f \in MapField
  /\ IF TooLong(n) THEN Fail
     ELSE Advance(Below(1) \o <<Consume(Top, n + 2), EntryFrame(f, Top.depth, n, n + 2)>>)

EntryKey(k) ==
  /\ Reading({"entry"}, 2)
  /\ IF RejectDuplicates /\ Top.key # None THEN Fail
     ELSE Advance(Append(Below(1), Consume([Top EXCEPT !.key = k], 2)))

EntryScalar(v) ==
  /\ Reading({"entry"}, 2) /\ Desc[Top.via].child = None
  /\ IF (RejectDuplicates /\ Top.val # None) \/ RefusesEnum(Top.via, v) THEN Fail
     ELSE Advance(Append(Below(1), Consume([Top EXCEPT !.val = v], 2)))

BeginEntryMessage(n) ==
  /\ Reading({"entry"}, n + 2) /\ Desc[Top.via].child # None
  /\ IF \/ (RejectDuplicates /\ Top.val # None)
        \/ TooLong(n)
        \/ RefusesNested(Top.depth + 1, n)
     THEN Fail
     ELSE Advance(Below(1) \o <<Consume(Top, n + 2),
                    MessageFrame(Desc[Top.via].child, Top.via, Top.depth + 1, n, n + 2)>>)

EndEntryMessage ==
  /\ Ends /\ Top.via \in MapField
  /\ IF MissingRequired(Top) THEN Fail
     ELSE /\ stack' = Append(Below(2), [Caller EXCEPT !.val = Elem])
          /\ UNCHANGED <<options, field_occurrences, audit_bytes, status>>

\* Mutant: the missing key stays absent.
PairWithoutDefaultKey(frame) ==
  <<frame.key, IF frame.val # None THEN frame.val
               ELSE IF Desc[frame.via].child = None THEN 0 ELSE Elem>>

\* Mutant: a map is only refused when it is full.
RefusesKeyIfFull(entries, key) == key \notin Keys(entries) /\ MapFull(Cardinality(Keys(entries)))

\* A key is refused: by policy if it is there already, else by the limit.
RefusesKey(entries, key) ==
  IF key \in Keys(entries) THEN RejectDuplicates ELSE MapFull(Cardinality(Keys(entries)))

\* default_value of the missing half of an entry.
EntryPair(frame) ==
  <<IF frame.key = None THEN 0 ELSE frame.key,
    IF frame.val # None THEN frame.val
    ELSE IF Desc[frame.via].child = None THEN 0 ELSE Elem>>

EndEntry ==
  /\ status = "decoding" /\ Top.kind = "entry" /\ Top.left = 0
  /\ LET f         == Top.via
         pair      == EntryPair(Top)
         entries   == Caller.msg[<<>>].map[f]
         duplicate == pair[1] \in Keys(entries)
         stored    == SetMap(Caller.msg, f, PutEntry(entries, pair[1], pair[2]))
     IN  IF RefusesKey(entries, pair[1]) THEN Fail
         ELSE Commit(Below(2),
                     [Caller EXCEPT !.msg = DemoteDisplaced(stored, f, duplicate, FALSE)],
                     OccurrenceTag(duplicate, FALSE), f, pair, Top.size, 0)

-----------------------------------------------------------------------------
(* Fields that the descriptor does not know: skip_decode.                  *)

UnknownTag(wire) == IF wire = WireVarint THEN "UnknownField" ELSE "UnknownMessage"

\* An unknown occurrence of a message is complete.
CommitUnknown(below, frame, wire, size, counted) ==
  IF options.unknown_fields = "Reject" THEN Fail
  ELSE Commit(below,
              [frame EXCEPT !.msg = KeepUnknown(@, <<[field |-> None, payload |-> <<wire>>]>>)],
              UnknownTag(wire), None, <<wire>>, size, counted)

\* Inside an entry or a group the skipped bytes leave no trace.
Skip(wire, size) ==
  IF Top.kind = "message"
  THEN CommitUnknown(Below(1), Consume(Top, size), wire, size, 1)
  ELSE Advance(Append(Below(1), Consume(Top, size)))

SkipScalar == Reading({"message", "entry", "group"}, 2) /\ Skip(WireVarint, 2)

SkipBytes(n) ==
  /\ Reading({"message", "entry", "group"}, n + 2)
  /\ IF TooLong(n) THEN Fail ELSE Skip(WireBytes, n + 2)

BeginGroup ==
  /\ Reading({"message", "entry", "group"}, 1)
  /\ IF TooDeep(Top.depth + 1) THEN Fail
     ELSE Advance(Append(stack, GroupFrame(Top.depth + 1, Top.left - 1, Top.left)))

\* The matching end tag: the caller goes on with the bytes after it.
EndGroup ==
  /\ Reading({"group"}, 1)
  /\ LET left   == Top.left - 1
         caller == [Caller EXCEPT !.left = left]
     IN  IF caller.kind = "message"
         THEN CommitUnknown(Below(2), caller, WireGroup, Top.size - left, 1)
         ELSE Advance(Append(Below(2), caller))

-----------------------------------------------------------------------------
Terminated == status \in {"ok", "error"} /\ UNCHANGED vars

Next ==
  \/ \E type \in RootTypes, n \in 0 .. MaxInput : Decode(type, n)
  \/ CountField
  \/ Malformed
  \/ Unterminated
  \/ \E f \in Field, v \in Scalar :
       UnknownEnumValue(f, v) \/ SingularScalar(f, v) \/ UnpackedElement(f, v)
  \/ \E f \in Field, n \in 0 .. MaxInput :
       BeginPacked(f, n) \/ BeginMessage(f, n) \/ BeginEntry(f, n)
  \/ \E v \in Scalar : PackedElement(v)
  \/ EndPacked
  \/ EndSubmessage
  \/ EndElement
  \/ EndRoot
  \/ \E v \in Scalar : EntryKey(v) \/ EntryScalar(v)
  \/ \E n \in 0 .. MaxInput : BeginEntryMessage(n) \/ SkipBytes(n)
  \/ EndEntryMessage
  \/ EndEntry
  \/ SkipScalar
  \/ BeginGroup
  \/ EndGroup
  \/ Terminated

\* The decoder is a loop that always runs on: it waits for nothing.
Spec == Init /\ [][Next]_vars /\ WF_vars(Next)

-----------------------------------------------------------------------------
(* Properties.  The audit trail, which records every occurrence in order,  *)
(* is the history that the retained contents are compared with.            *)

\* Every variable has its type; in particular each frame's message is a tree
\* of nodes whose fields have the shape the descriptor gives them.
TypeOK ==
  /\ options \in Options
  /\ field_occurrences \in Nat /\ audit_bytes \in Nat
  /\ status \in {"idle", "decoding", "ok", "error"}
  /\ stack \in Seq(Range(stack))
  /\ \A i \in DOMAIN stack : IsFrame(stack[i])

\* The activations of decode_inner.
MessageFrames == {i \in DOMAIN stack : stack[i].kind = "message"}

Slot(f) == Siblings(f) \cup {f}

OneofExclusiveAt(m, a) ==
  \A f \in SingularField : HasAt(m, a, f) => \A g \in Siblings(f) : ~HasAt(m, a, g)

\* A message under decoding never holds two members of one oneof: decode_inner
\* removes the siblings before it inserts or merges a member.
OneofExclusive == \A i \in DOMAIN stack : OneofExclusiveAt(stack[i].msg, <<>>)

\* The occurrences of a slot that decode accepted as values, by index.
Occurrences(audit, S) ==
  {j \in DOMAIN audit : audit[j].field \in S /\ audit[j].tag # "UnknownField"}

LastOccurrence(audit, S) == audit[Max(Occurrences(audit, S))]

\* The slot of f ends with an occurrence of f.
WonBy(audit, f) ==
  Occurrences(audit, Slot(f)) # {} /\ LastOccurrence(audit, Slot(f)).field = f

\* A singular field is present exactly when the last occurrence of its slot is
\* its own, and a scalar then has that occurrence's value.
SingularFollowsHistory(m, a, f) ==
  LET audit == m[a].audit
  IN  /\ HasAt(m, a, f) <=> WonBy(audit, f)
      /\ f \in ScalarField /\ WonBy(audit, f) =>
           m[a].scalar[f] = LastOccurrence(audit, Slot(f)).payload[1]

\* What the occurrences of a repeated field add to it: their elements, but for
\* the numbers that a closed enum does not declare.
Retained(f, payload) ==
  IF Desc[f].child # None THEN <<Elem>>
  ELSE FlattenSeq([j \in DOMAIN payload |->
                     IF ClosedUnknown(f, payload[j]) THEN <<>> ELSE <<payload[j]>>])

RetainedBy(f, record) ==
  IF record.field = f /\ record.tag = "SchemaField" THEN Retained(f, record.payload) ELSE <<>>

\* A repeated field holds the known elements of its occurrences, in order.
RepeatedFollowsHistory(m, a, f) ==
  Items(m[a].rep[f]) =
    FlattenSeq([j \in DOMAIN m[a].audit |-> RetainedBy(f, m[a].audit[j])])

\* The occurrences of the key k in the map field f, by index.
Seen(audit, f, k) == {j \in DOMAIN audit : audit[j].field = f /\ audit[j].payload[1] = k}

\* A map holds the keys of its occurrences, each with its last value.
MapFollowsHistory(m, a, f) ==
  LET audit == m[a].audit
  IN  \A k \in Scalar : m[a].map[f][k] = IF Seen(audit, f, k) = {} THEN None
                                         ELSE audit[Max(Seen(audit, f, k))].payload[2]

FieldsFollowHistory(m, a) ==
  /\ \A f \in SingularField : a = <<>> \/ Desc[f].oneof = None
                              => SingularFollowsHistory(m, a, f)
  /\ \A f \in RepeatedField : RepeatedFollowsHistory(m, a, f)
  /\ \A f \in MapField : MapFollowsHistory(m, a, f)

\* The unknown fields of a node are the unknown occurrences and the undeclared
\* closed-enum numbers its records tell of, in order: all of them under
\* Preserve, none under Drop.
Undeclared(f, payload) ==
  FlattenSeq([j \in DOMAIN payload |->
                IF ClosedUnknown(f, payload[j])
                THEN <<[field |-> f, payload |-> <<payload[j]>>]>> ELSE <<>>])

UnknownEntries(record) ==
  IF record.tag \in {"UnknownField", "UnknownMessage"}
  THEN <<[field |-> record.field, payload |-> record.payload]>>
  ELSE IF record.field \in RepeatedField THEN Undeclared(record.field, record.payload)
  ELSE <<>>

UnknownFollowsHistory(m, a) ==
  m[a].unknown = IF options.unknown_fields = "Preserve"
                 THEN FlattenSeq([j \in DOMAIN m[a].audit |-> UnknownEntries(m[a].audit[j])])
                 ELSE <<>>

\* Everything a decode retains, unknown fields included, is what the protobuf
\* merge rules make of the occurrences it has read, in each message under
\* decoding and in every submessage merged into it.  Oneof members of merged
\* submessages are left out: see OneofExclusiveInTree.
ContentsFollowHistory ==
  \A i \in MessageFrames : LET m == stack[i].msg IN
    \A a \in DOMAIN m : FieldsFollowHistory(m, a) /\ UnknownFollowsHistory(m, a)

LiveRecords(audit, S) == {j \in DOMAIN audit : audit[j].field \in S /\ Live(audit[j])}

\* The trail tells the retained value: a scalar slot has exactly one live
\* record while a member is present, that of the member's last occurrence, and
\* none otherwise; a map has as many live records as entries.
TrailNamesRetained ==
  \A i \in DOMAIN stack : LET m == stack[i].msg
                              audit == m[<<>>].audit IN
    /\ \A f \in ScalarField : Slot(f) \subseteq ScalarField =>
         LiveRecords(audit, Slot(f)) =
           IF Occurrences(audit, Slot(f)) = {} THEN {}
           ELSE {Max(Occurrences(audit, Slot(f)))}
    /\ \A f \in MapField :
         Cardinality(LiveRecords(audit, {f})) = Cardinality(Keys(m[<<>>].map[f]))

CollectionsBoundedAt(m, a) ==
  /\ \A f \in RepeatedField : Len(Items(m[a].rep[f])) <= options.max_repeated_values
  /\ \A f \in MapField : Cardinality(Keys(m[a].map[f])) <= options.max_map_entries

\* No message under decoding retains more values or keys in a field of its own than
\* the options allow, whatever mix of packed, unpacked and duplicate occurrences.
\* Submessages that it has merged are left out: see CollectionsBoundedInTree.
CollectionsBounded == \A i \in DOMAIN stack : CollectionsBoundedAt(stack[i].msg, <<>>)

AllRecords ==
  UNION {UNION {{<<i, a, j>> : j \in DOMAIN stack[i].msg[a].audit} :
                  a \in DOMAIN stack[i].msg} : i \in DOMAIN stack}

RecordBytes == [r \in AllRecords |-> stack[r[1]].msg[r[2]].audit[r[3]].bytes]

\* The shared counters pay for everything retained: each record and each open
\* frame is a counted occurrence, each retained byte a counted byte, and both
\* counters stay within their limits.
CountersPayForTrail ==
  /\ Cardinality(AllRecords) + Len(stack) <= field_occurrences + 1
  /\ SumFunction(RecordBytes) <= audit_bytes
  /\ field_occurrences <= options.max_field_occurrences
  /\ audit_bytes <= options.max_audit_bytes

\* No activation is deeper than max_recursion_depth, and neither is any
\* submessage of what has been decoded, after any number of merges.
DepthBounded ==
  \A i \in DOMAIN stack : \A a \in DOMAIN stack[i].msg :
    stack[i].depth + Len(a) <= options.max_recursion_depth

TypeAt(frame, a) == IF a = <<>> THEN frame.type ELSE Desc[a[Len(a)]].child

\* Every submessage retained in a singular field, at any depth, has its required
\* fields, merged or not, and on success so has the root.
RequiredPresent ==
  \A i \in DOMAIN stack : \A a \in DOMAIN stack[i].msg :
    a # <<>> \/ status = "ok" =>
      \A f \in Field : Desc[f].owner = TypeAt(stack[i], a) /\ Desc[f].card = "required"
                       => HasAt(stack[i].msg, a, f)

\* With duplicates rejected nothing ambiguous is accepted anywhere in the
\* tree: no record tells of a duplicate, no singular slot has two occurrences,
\* oneofs are exclusive and the collection limits hold in every submessage.
StrictDuplicates ==
  options.duplicates = "Reject" =>
    \A i \in DOMAIN stack : LET m == stack[i].msg IN
      \A a \in DOMAIN m :
        /\ \A j \in DOMAIN m[a].audit :
             m[a].audit[j].tag \in {"SchemaField", "UnknownField", "UnknownMessage"}
        /\ \A f \in SingularField : Cardinality(Occurrences(m[a].audit, Slot(f))) <= 1
        /\ OneofExclusiveAt(m, a) /\ CollectionsBoundedAt(m, a)

UndeclaredAt(m, a, f) ==
  \/ f \in ScalarField   /\ m[a].scalar[f] \notin KnownValue \cup {None}
  \/ f \in RepeatedField /\ ~(Range(Items(m[a].rep[f])) \subseteq KnownValue)
  \/ f \in MapField      /\ \E k \in Keys(m[a].map[f]) : m[a].map[f][k] \notin KnownValue

\* The enum policy reaches every path a value can take (singular, packed,
\* unpacked, map, merged), and a closed enum field that is not a map never
\* holds a number its enum does not declare.  The one exception is the default
\* that stands for a missing map value, which is 0 whatever the enum declares.
StrictDomains ==
  \A i \in DOMAIN stack : LET m == stack[i].msg IN
    \A a \in DOMAIN m :
      /\ options.enum_values = "RejectUnknown" =>
           /\ \A f \in Field \ MapField : Desc[f].enum # "not" => ~UndeclaredAt(m, a, f)
           /\ \A f \in MapField, k \in Scalar :
                Desc[f].enum # "not" => m[a].map[f][k] \in KnownValue \cup {0, None}
      /\ \A f \in Field \ MapField : Desc[f].enum = "closed" => ~UndeclaredAt(m, a, f)

\* The trail of a message only grows, by one record at a time, and an old
\* record changes only by losing its claim to be the retained one.
TrailGrows ==
  [][\A i \in DOMAIN stack \cap DOMAIN stack' :
       LET old == stack[i].msg[<<>>].audit
           new == stack'[i].msg[<<>>].audit
           changed == {j \in DOMAIN old : new[j] # old[j]}
       IN  /\ Len(new) \in {Len(old), Len(old) + 1}
           /\ Cardinality(changed) <= Len(new) - Len(old)
           /\ \A j \in changed :
                Live(old[j]) /\ new[j] = [old[j] EXCEPT !.tag = "DuplicateDiscarded"]]_vars

\* Every call returns.
Terminates == <>(status \in {"ok", "error"})

-----------------------------------------------------------------------------
(* What the documentation says and the code does not do.                   *)

\* "Encountering a different oneof member removes the previously selected
\* one" (codec.rs, Decoding rules): also in a submessage that was merged from
\* several occurrences.  merge_message does not look at oneofs.
OneofExclusiveInTree ==
  \A i \in DOMAIN stack : \A a \in DOMAIN stack[i].msg : OneofExclusiveAt(stack[i].msg, a)

\* "max_repeated_values limits the retained values in each repeated field",
\* "max_map_entries ... the distinct keys retained in each map field"
\* (SANITIZATION.md): also in a merged submessage.
CollectionsBoundedInTree ==
  \A i \in DOMAIN stack :
    \A a \in DOMAIN stack[i].msg : CollectionsBoundedAt(stack[i].msg, a)
=============================================================================
