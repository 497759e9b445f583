------------------------------- MODULE Schema -------------------------------
(***************************************************************************)
(* The descriptors that parsing a source yields, and the rules about one   *)
(* file or one scope that linking applies to them.                         *)
(*                                                                         *)
(* A full name is the sequence of its identifiers, so an enclosing scope   *)
(* is a prefix.  What a descriptor says of itself only (documentation,     *)
(* enum numbers, streaming) is left out.  The integer and floating-point   *)
(* types are one, "number".  A named type is a "message" until it is       *)
(* resolved, as in the code.                                               *)
(***************************************************************************)
EXTENDS Naturals, Sequences, FiniteSets, FiniteSetsExt, TLC

CONSTANT None  \* no oneof, no packed option, no reason

Syntax == {"proto2", "proto3", "edition"}

Modern(syntax) == syntax # "proto2"

Prefix(m, n) == Len(m) <= Len(n) /\ SubSeq(n, 1, Len(m)) = m

\* The scope in which a name is declared.
Parent(n) == SubSeq(n, 1, Len(n) - 1)

-----------------------------------------------------------------------------
(* Features.                                                               *)

FeatureValues ==
  [field_presence          |-> {"EXPLICIT", "IMPLICIT", "LEGACY_REQUIRED"},
   enum_type               |-> {"OPEN", "CLOSED"},
   repeated_field_encoding |-> {"PACKED", "EXPANDED"},
   message_encoding        |-> {"LENGTH_PREFIXED", "DELIMITED"},
   utf8_validation         |-> {"VERIFY", "NONE"},
   json_format             |-> {"ALLOW", "LEGACY_BEST_EFFORT"}]

Feature == DOMAIN FeatureValues

\* The declarations that may set a feature.
Targets ==
  [field_presence          |-> {"file", "message", "field"},
   enum_type               |-> {"file", "enum"},
   repeated_field_encoding |-> {"file", "field"},
   message_encoding        |-> {"file", "field"},
   utf8_validation         |-> {"file", "field"},
   json_format             |-> {"file", "message", "enum"}]

\* FeatureSet::for_syntax.
Defaults(syntax) ==
  [field_presence          |-> IF syntax = "proto3" THEN "IMPLICIT" ELSE "EXPLICIT",
   enum_type               |-> IF Modern(syntax) THEN "OPEN" ELSE "CLOSED",
   repeated_field_encoding |-> IF Modern(syntax) THEN "PACKED" ELSE "EXPANDED",
   message_encoding        |-> "LENGTH_PREFIXED",
   utf8_validation         |-> "VERIFY",
   json_format             |-> IF Modern(syntax) THEN "ALLOW" ELSE "LEGACY_BEST_EFFORT"]

\* Two functions in one; where both are defined, the first counts.
Over(f, g) == [x \in DOMAIN f \cup DOMAIN g |-> IF x \in DOMAIN f THEN f[x] ELSE g[x]]

\* The function with x for n.
Put(f, n, x) == Over([m \in {n} |-> x], f)

\* The feature options of a declaration: a function from some features.
Applied(inherited, options) == Over(options, inherited)

\* Mutant: any value of a feature will do.
Misplaced(options, target, syntax) ==
  \E x \in DOMAIN options : syntax # "edition" \/ target \notin Targets[x]

\* apply_feature_options fails.
Misapplied(options, target, syntax) ==
  \E x \in DOMAIN options :
    syntax # "edition" \/ target \notin Targets[x] \/ options[x] \notin FeatureValues[x]

\* The innermost message of the file around a name.
Enclosing(file, n) ==
  LET around == {m \in DOMAIN file.messages : m # n /\ Prefix(m, n)}
  IN  IF around = {} THEN None ELSE CHOOSE m \in around : \A k \in around : Len(k) <= Len(m)

FileFeatures(file) == Applied(Defaults(file.syntax), file.options)

\* Mutants: nesting is not looked at, the outermost message is inherited from.
FeaturesOfFileOnly(file) ==
  [n \in DOMAIN file.messages |-> Applied(FileFeatures(file), file.messages[n].options)]

\* The features of the messages.  The code visits them in the order of their
\* names, in which a message comes after those around it.
MessageFeatures(file) ==
  LET features[n \in DOMAIN file.messages] ==
        LET outer == Enclosing(file, n)
        IN  Applied(IF outer = None THEN FileFeatures(file) ELSE features[outer],
                    file.messages[n].options)
  IN  features

\* What a declaration inherits in the scope of n.
Inherited(file, n) ==
  LET outer == Enclosing(file, n)
  IN  IF outer = None THEN FileFeatures(file) ELSE MessageFeatures(file)[outer]

-----------------------------------------------------------------------------
(* Types and lexical lookup.                                               *)

\* map is a map with such values; an absolute name starts with a dot.
Kind(of) == [of |-> of, name |-> <<>>, absolute |-> FALSE, map |-> FALSE]

Packable(kind) == ~kind.map /\ kind.of \notin {"string", "bytes", "message"}
IsMessage(kind) == ~kind.map /\ kind.of = "message"

\* What a name may mean in a scope, innermost first.
Candidates(kind, scope) ==
  IF kind.absolute THEN <<kind.name>>
  ELSE [i \in 1 .. Len(scope) + 1 |-> SubSeq(scope, 1, Len(scope) + 1 - i) \o kind.name]

Matches(kind, scope, S) ==
  LET c == Candidates(kind, scope) IN {i \in DOMAIN c : c[i] \in S}

Unknown(kind, scope, messages, enums) ==
  kind.of = "message" /\ Matches(kind, scope, messages \cup enums) = {}

\* Mutant: the outermost declaration is found first.
NamedOutermost(kind, of, scope, S) ==
  [kind EXCEPT !.of = of, !.absolute = FALSE,
               !.name = Candidates(kind, scope)[Max(Matches(kind, scope, S))]]

Named(kind, of, scope, S) ==
  [kind EXCEPT !.of = of, !.absolute = FALSE,
               !.name = Candidates(kind, scope)[Min(Matches(kind, scope, S))]]

\* resolve: messages in every scope come before enums in any.
Resolved(kind, scope, messages, enums) ==
  CASE kind.of # "message" -> kind
    [] kind.of = "message" /\ Matches(kind, scope, messages) # {} ->
         Named(kind, "message", scope, messages)
    [] OTHER -> Named(kind, "enum", scope, enums)

-----------------------------------------------------------------------------
(* The descriptors as parse_file returns them.                             *)

Name == Seq(STRING) \ {<<>>}

ASSUME SchemaAssumption == None \notin Name \cup BOOLEAN

ParsedFeatures(options) == DOMAIN options \subseteq Feature

ParsedKind ==
  [of : {"message", "bool", "string", "bytes", "number"}, name : Seq(STRING),
   absolute : BOOLEAN, map : BOOLEAN]

\* parse_field has put the options of the field in order.
ParsedField(f) ==
  /\ DOMAIN f = {"number", "kind", "cardinality", "oneof", "packed", "packed_explicit",
                 "explicit_presence", "default", "options", "features"}
  /\ f.kind \in ParsedKind /\ f.cardinality \in {"optional", "required", "repeated"}
  /\ f.packed_explicit \in BOOLEAN /\ f.explicit_presence \in BOOLEAN /\ f.default \in BOOLEAN
  /\ f.packed \in BOOLEAN \cup {None} /\ (f.packed_explicit => f.packed \in BOOLEAN)
  /\ f.cardinality # "repeated" => f.packed = None
  /\ f.default => f.cardinality # "repeated"
  /\ f.oneof # None => f.explicit_presence /\ f.cardinality = "optional"
  /\ ParsedFeatures(f.options)

ParsedMessage(message) ==
  /\ DOMAIN message = {"fields", "extension_ranges", "options", "features"}
  /\ ParsedFeatures(message.options)
  /\ \A f \in DOMAIN message.fields : ParsedField(message.fields[f])

ParsedEnum(enum) ==
  DOMAIN enum = {"values", "syntax", "options", "features"} /\ ParsedFeatures(enum.options)

\* A type that is named: the endpoint of a method, the target of an extension.
NamedKind(kind) == kind \in ParsedKind /\ kind.of = "message" /\ ~kind.map

ParsedOption(option) ==
  /\ DOMAIN option = {"extendee", "number", "kind", "cardinality"}
  /\ option.kind \in ParsedKind

ParsedExtension(extension) ==
  /\ DOMAIN extension = {"extendee", "field"}
  /\ NamedKind(extension.extendee) /\ ParsedField(extension.field)

\* Settings of options, on a target in a scope.
ParsedSettings(list) ==
  /\ list.scope \in Seq(STRING) /\ DOMAIN list.uses = 1 .. Len(list.uses)
  /\ \A i \in DOMAIN list.uses : /\ list.uses[i].option \in ParsedKind
                                 /\ list.uses[i].path \in Seq(STRING)

\* The options of one file have numbers of their own.
ParsedFile(file) ==
  /\ DOMAIN file = {"syntax", "options", "features", "messages", "enums", "services",
                    "custom_options", "extensions", "settings"}
  /\ file.syntax \in Syntax /\ ParsedFeatures(file.options)
  /\ \A n \in DOMAIN file.messages : n \in Name /\ ParsedMessage(file.messages[n])
  /\ \A n \in DOMAIN file.enums : n \in Name /\ ParsedEnum(file.enums[n])
  /\ \A n \in DOMAIN file.services : n \in Name /\ \A kind \in file.services[n] : NamedKind(kind)
  /\ \A n \in DOMAIN file.custom_options : n \in Name /\ ParsedOption(file.custom_options[n])
  /\ \A n \in DOMAIN file.extensions : n \in Name /\ ParsedExtension(file.extensions[n])
  /\ \A m, n \in DOMAIN file.custom_options :
       /\ file.custom_options[m].extendee = file.custom_options[n].extendee
       /\ file.custom_options[m].number = file.custom_options[n].number
       => m = n
  /\ \A list \in file.settings : ParsedSettings(list)

-----------------------------------------------------------------------------
(* Namespaces.                                                             *)

\* The symbols that validate_symbol_namespaces keeps apart: sort and owner say
\* which declaration has the name.
Symbol(sort, owner, name) == [sort |-> sort, owner |-> owner, name |-> name]

FieldSymbols(file) ==
  UNION {{Symbol("field", n, Append(n, f)) : f \in DOMAIN file.messages[n].fields} :
           n \in DOMAIN file.messages}

OneofsOf(message) == {message.fields[f].oneof : f \in DOMAIN message.fields} \ {None}

OneofSymbols(file) ==
  UNION {{Symbol("oneof", n, Append(n, o)) : o \in OneofsOf(file.messages[n])} :
           n \in DOMAIN file.messages}

\* An enum value is a name in the scope around the enum.
ValueSymbols(file) ==
  UNION {{Symbol("value", n, Append(Parent(n), v)) : v \in file.enums[n].values} :
           n \in DOMAIN file.enums}

Symbols(file) ==
  {Symbol("message", <<>>, n) : n \in DOMAIN file.messages}
    \cup {Symbol("enum", <<>>, n) : n \in DOMAIN file.enums}
    \cup {Symbol("service", <<>>, n) : n \in DOMAIN file.services}
    \cup {Symbol("option", <<>>, n) : n \in DOMAIN file.custom_options}
    \cup FieldSymbols(file) \cup OneofSymbols(file) \cup ValueSymbols(file)

\* Mutant: each sort of declaration has names of its own.
ConflictingInSort(file) ==
  \E s, t \in Symbols(file) : s # t /\ s.name = t.name /\ s.sort = t.sort

\* validate_symbol_namespaces fails.
Conflicting(file) == \E s, t \in Symbols(file) : s # t /\ s.name = t.name
=============================================================================
