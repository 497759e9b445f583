----------------------------- MODULE MCRoundTrip -----------------------------
(***************************************************************************)
(* Three root messages for RoundTrip, and the option sets.                 *)
(***************************************************************************)
EXTENDS RoundTrip

MCScalar == {0, 1}
MCType   == {"Outer", "Inner", "Enums"}
MCGroup  == {"pick"}

Optional(owner) ==
  [owner |-> owner, card |-> "optional", child |-> None, oneof |-> None,
   enum |-> "not", delimited |-> FALSE]

\* message Outer { required Inner a = 1; }
\* message Inner { oneof pick { int32 x = 2; int32 y = 1; } int32 v = 3; }
\* message Enums { Closed e = 3; map<int32, Closed> me = 2; repeated Open os = 1; }
MCDesc ==
  [a  |-> [Optional("Outer") EXCEPT !.card = "required", !.child = "Inner"],
   x  |-> [Optional("Inner") EXCEPT !.oneof = "pick"],
   y  |-> [Optional("Inner") EXCEPT !.oneof = "pick"],
   v  |-> Optional("Inner"),
   e  |-> [Optional("Enums") EXCEPT !.enum = "closed"],
   me |-> [Optional("Enums") EXCEPT !.card = "map", !.enum = "closed"],
   os |-> [Optional("Enums") EXCEPT !.card = "repeated", !.enum = "open"]]

MCField    == DOMAIN MCDesc
MCDeclared == <<"a", "x", "y", "v", "e", "me", "os">>
MCImplicit == {"v"}
MCPacked   == {"os"}
MCNumber   ==
  [f \in MCField \cup {None} |->
     CASE f \in {"a", "y", "os"} -> 1 [] f \in {"x", "me"} -> 2 [] f \in {"v", "e"} -> 3
       [] OTHER -> 4]

\* DecodeOptions::default, with every limit above what the bounds can reach.
MCUnlimited ==
  [max_message_bytes |-> 100, max_recursion_depth |-> 100,
   max_field_occurrences |-> 100, max_length_delimited_bytes |-> 100,
   max_repeated_values |-> 100, max_map_entries |-> 100, max_audit_bytes |-> 100,
   unknown_fields |-> "Preserve", duplicates |-> "Allow",
   audit_mode |-> "Full", enum_values |-> "Preserve"]

\* Unknown fields and lists on short inputs; on longer ones merges, displaced
\* values and maps, and the hardened policies; displaced values without bytes.
MCOptions ==
  LET long == [MCUnlimited EXCEPT !.unknown_fields = "Reject", !.enum_values = "RejectUnknown"]
  IN  {[MCUnlimited EXCEPT !.max_message_bytes = 6, !.max_field_occurrences = 4],
       [long EXCEPT !.max_field_occurrences = 4, !.max_repeated_values = 0],
       [long EXCEPT !.max_field_occurrences = 4, !.max_repeated_values = 1,
                    !.max_map_entries = 1, !.duplicates = "Reject",
                    !.audit_mode = "MetadataOnly"],
       [long EXCEPT !.max_message_bytes = 4, !.audit_mode = "MetadataOnly"]}

\* EncodeOptions::default.
Compatible ==
  [forward_unknown_fields |-> TRUE, forward_unknown_messages |-> TRUE,
   duplicates |-> "LastOnly", field_order |-> "Declaration", max_output_bytes |-> 100]

MCChoices ==
  {Compatible,
   [Compatible EXCEPT !.field_order = "FieldNumber", !.forward_unknown_messages = FALSE],
   [Compatible EXCEPT !.forward_unknown_fields = FALSE, !.forward_unknown_messages = FALSE,
                      !.max_output_bytes = 4],
   [Compatible EXCEPT !.duplicates = "PreserveAll"],
   [Compatible EXCEPT !.duplicates = "PreserveAll", !.field_order = "FieldNumber"]}
=============================================================================
