------------------------------- MODULE Parsing -------------------------------
(***************************************************************************)
(* From sources to a schema: parse_with_options, which builds the          *)
(* descriptors of one source and links them by themselves, and linking on  *)
(* the files of a registry, as loading returns them.                       *)
(***************************************************************************)
EXTENDS Linking, Builder

\* One source is parsed, or a registry has been loaded.
ParsingInit ==
  \/ /\ StartBuilding
     /\ registry = None /\ order = <<>> /\ files = None /\ todo = <<>>
     /\ schema = None /\ phase = "parsing" /\ reason = None
  \/ /\ Init
     /\ source = None /\ limit = 0 /\ cursor = 0 /\ stack = <<>>
     /\ package = None /\ imports = <<>> /\ built = None /\ stage = "loaded"

\* resolve_schema is called with what parse_file returned.
BeginLinking ==
  /\ phase = "parsing" /\ stage = "parsed"
  /\ registry' = [files |-> [p \in {Root} |-> built], sees |-> [p \in {Root} |-> {Root}]]
  /\ order' = <<Root>> /\ todo' = <<Root>> /\ files' = registry'.files
  /\ phase' = "resolving"
  /\ UNCHANGED <<schema, reason, building>>

Refused == stage = "refused" /\ UNCHANGED <<building, vars>>

ParsingNext ==
  \/ phase = "parsing" /\ Build /\ UNCHANGED vars
  \/ BeginLinking
  \/ phase # "parsing" /\ Next /\ UNCHANGED building
  \/ Refused

ParsingSpec == ParsingInit /\ [][ParsingNext]_<<building, vars>>
=============================================================================
