------------------------------ MODULE MCDecoder ------------------------------
(***************************************************************************)
(* Small schemas and option sets for Decoder.  Each configuration takes    *)
(* one schema and the options that matter to it.                           *)
(***************************************************************************)
EXTENDS Decoder

MCScalar == {0, 1}
MCType   == {"Outer", "Inner"}
MCGroup  == {"pick", "sel"}

OuterOnly == {"Outer"}

Optional(owner) ==
  [owner |-> owner, card |-> "optional", child |-> None, oneof |-> None,
   enum |-> "not", delimited |-> FALSE]

Member(owner, group) == [Optional(owner) EXCEPT !.oneof = group]
Sub(owner, child)    == [Optional(owner) EXCEPT !.child = child]

\* message Outer { int32 v; oneof pick { int32 b; Inner a; } }
\* message Inner { oneof sel { int32 x; int32 y; } map<int32, int32> k; }
OneofDesc ==
  [v |-> Optional("Outer"),
   b |-> Member("Outer", "pick"),
   a |-> [Sub("Outer", "Inner") EXCEPT !.oneof = "pick"],
   x |-> Member("Inner", "sel"),
   y |-> Member("Inner", "sel"),
   k |-> [Optional("Inner") EXCEPT !.card = "map"]]

\* message Outer { Inner a; }
\* message Inner { repeated Closed xs; map<int32, int32> m; }
CollectionDesc ==
  [a  |-> Sub("Outer", "Inner"),
   xs |-> [Optional("Inner") EXCEPT !.card = "repeated", !.enum = "closed"],
   m  |-> [Optional("Inner") EXCEPT !.card = "map"]]

\* message Outer { Inner a = 1 [DELIMITED]; repeated Inner rs; map<int32, Inner> ms; }
\* message Inner { required Open q; Inner again; }
NestingDesc ==
  [a  |-> [Sub("Outer", "Inner") EXCEPT !.delimited = TRUE],
   rs |-> [Sub("Outer", "Inner") EXCEPT !.card = "repeated"],
   ms |-> [Sub("Outer", "Inner") EXCEPT !.card = "map"],
   q  |-> [Optional("Inner") EXCEPT !.card = "required", !.enum = "open"],
   again |-> Sub("Inner", "Inner")]

\* message Outer { Closed e; map<int32, Closed> me; repeated Open os; map<int32, Open> mo; }
EnumDesc ==
  [e  |-> [Optional("Outer") EXCEPT !.enum = "closed"],
   me |-> [Optional("Outer") EXCEPT !.card = "map", !.enum = "closed"],
   os |-> [Optional("Outer") EXCEPT !.card = "repeated", !.enum = "open"],
   mo |-> [Optional("Outer") EXCEPT !.card = "map", !.enum = "open"]]

OneofField      == DOMAIN OneofDesc
CollectionField == DOMAIN CollectionDesc
NestingField    == DOMAIN NestingDesc
EnumField       == DOMAIN EnumDesc

\* DecodeOptions::default, with every limit above what the bounds can reach.
Permissive ==
  [max_message_bytes |-> 100, max_recursion_depth |-> 100,
   max_field_occurrences |-> 100, max_length_delimited_bytes |-> 100,
   max_repeated_values |-> 100, max_map_entries |-> 100, max_audit_bytes |-> 100,
   unknown_fields |-> "Preserve", duplicates |-> "Allow",
   audit_mode |-> "Full", enum_values |-> "Preserve"]

\* DecodeOptions::hardened, with limits that the bounds do reach.
Hardened ==
  [max_message_bytes |-> 9, max_recursion_depth |-> 1,
   max_field_occurrences |-> 4, max_length_delimited_bytes |-> 6,
   max_repeated_values |-> 2, max_map_entries |-> 1, max_audit_bytes |-> 7,
   unknown_fields |-> "Reject", duplicates |-> "Reject",
   audit_mode |-> "MetadataOnly", enum_values |-> "RejectUnknown"]

\* The oneof schema, without the noise of unknown fields; a map of one key for the
\* strict policy.
OneofOptions ==
  LET known == [Permissive EXCEPT !.unknown_fields = "Reject"]
  IN  {known, [known EXCEPT !.duplicates = "Reject", !.max_map_entries = 1]}

\* Collections: the limits of one message on short inputs, with and without
\* the trail's bytes; on longer ones, without unknown fields, submessages that
\* merge and the keys of one message.
CollectionOptions ==
  LET limited == [Permissive EXCEPT !.max_message_bytes = 8, !.max_repeated_values = 2,
                                    !.max_map_entries = 1, !.max_audit_bytes = 7]
      long    == [Permissive EXCEPT !.unknown_fields = "Reject"]
  IN  {limited,
       [limited EXCEPT !.unknown_fields = "Drop", !.audit_mode = "MetadataOnly",
                       !.max_field_occurrences = 3],
       [limited EXCEPT !.duplicates = "Reject"],
       [long EXCEPT !.max_repeated_values = 1, !.max_map_entries = 1],
       [long EXCEPT !.max_message_bytes = 11, !.max_recursion_depth = 0]}

\* Nesting: two levels below the root, unknown values dropped.
NestingOptions ==
  LET deep == [Permissive EXCEPT !.unknown_fields = "Drop", !.max_recursion_depth = 2]
  IN  {deep, [deep EXCEPT !.max_recursion_depth = 1, !.max_message_bytes = 6,
                          !.max_audit_bytes = 7, !.enum_values = "RejectUnknown"]}

EnumOptions ==
  {Permissive, Hardened,
   [Permissive EXCEPT !.enum_values = "RejectUnknown", !.unknown_fields = "Drop"]}
=============================================================================
