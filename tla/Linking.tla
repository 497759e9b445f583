------------------------------- MODULE Linking -------------------------------
(***************************************************************************)
(* Linking the files of a registry into one schema: the second half of     *)
(* parse_registry, after the imports have been walked.  Each file is       *)
(* resolved against what it sees, then its option settings are checked,    *)
(* then the files are merged, one file per step.  With one file that sees  *)
(* itself this is resolve_schema, the linking of parse.                    *)
(*                                                                         *)
(* The code visits the files in the order of their paths, which say        *)
(* nothing about their contents: here the order is any.                    *)
(***************************************************************************)
EXTENDS Schema

CONSTANTS
  Root,       \* the path given to Registry::parse
  Registries  \* what loading returns: parsed files, and what each sees

\* Each loaded file sees itself and other loaded files.
Loaded(r) ==
  /\ IsFiniteSet(DOMAIN r.files) /\ Root \in DOMAIN r.files
  /\ \A p \in DOMAIN r.files : /\ ParsedFile(r.files[p])
                               /\ p \in r.sees[p] /\ r.sees[p] \subseteq DOMAIN r.files

ASSUME LinkAssumption == \A r \in Registries : Loaded(r)

\* Why linking fails.
Reason ==
  {"conflict", "unknown type", "proto2 enum", "packed", "default", "extendee", "number",
   "endpoint", "feature", "setting", "duplicate"}

ASSUME ReasonAssumption == None \notin Reason

VARIABLES
  registry,  \* the files as parsed, and their visibility
  order,     \* the order of the paths
  files,     \* the files, resolved so far
  todo,      \* the paths that the current loop has still to visit
  schema,    \* the merged schema, None before merging
  phase,     \* "resolving", "checking", "merging", "accepted" or "error"
  reason     \* why linking failed

vars == <<registry, order, files, todo, schema, phase, reason>>

\* The loaded files.
Path == DOMAIN registry.files

Orders == {s \in [1 .. Cardinality(Path) -> Path] : \A p \in Path : \E i \in DOMAIN s : s[i] = p}

Init ==
  /\ registry \in Registries
  /\ order \in Orders
  /\ files = registry.files /\ todo = order
  /\ schema = None /\ phase = "resolving" /\ reason = None

Fail(why) ==
  /\ phase' = "error" /\ reason' = why
  /\ UNCHANGED <<registry, order, files, todo, schema>>

\* What the declarations of a sort look like to p.
Visible(p, sort) == UNION {DOMAIN files[q][sort] : q \in registry.sees[p]}

\* The declaration that p sees under a name.
Lookup(p, sort, n) ==
  files[CHOOSE q \in registry.sees[p] : n \in DOMAIN files[q][sort]][sort][n]

-----------------------------------------------------------------------------
(* resolve_schema_declarations.                                            *)

UnknownIn(p, kind, scope) == Unknown(kind, scope, Visible(p, "messages"), Visible(p, "enums"))
ResolvedIn(p, kind, scope) == Resolved(kind, scope, Visible(p, "messages"), Visible(p, "enums"))

\* A resolved field of message type tracks presence, one that cannot be packed
\* is not.
ResolvedField(p, field, scope) ==
  LET kind == ResolvedIn(p, field.kind, scope)
  IN  [field EXCEPT !.kind = kind,
         !.explicit_presence = @ \/ IsMessage(kind),
         !.packed = IF field.cardinality = "repeated" /\ ~Packable(kind) THEN FALSE ELSE @]

\* Mutant: maps are not looked into.
Proto2EnumOutsideMaps(p, kind) ==
  kind.of = "enum" /\ ~kind.map /\ Lookup(p, "enums", kind.name).syntax = "proto2"

\* reject_proto2_enum_reference fails.
Proto2Enum(p, kind) ==
  kind.of = "enum" /\ Lookup(p, "enums", kind.name).syntax = "proto2"

FieldDefects(p, field, scope) ==
  IF UnknownIn(p, field.kind, scope) THEN {"unknown type"}
  ELSE LET kind == ResolvedIn(p, field.kind, scope)
       IN  {why \in {"proto2 enum", "packed", "default"} :
              \/ why = "proto2 enum" /\ Modern(files[p].syntax) /\ Proto2Enum(p, kind)
              \/ why = "packed" /\ field.packed_explicit /\ field.packed = TRUE /\ ~Packable(kind)
              \/ why = "default" /\ field.default /\ (kind.map \/ kind.of = "message")}

MessageDefects(p) ==
  UNION {UNION {FieldDefects(p, files[p].messages[n].fields[f], n) :
                  f \in DOMAIN files[p].messages[n].fields} : n \in DOMAIN files[p].messages}

OptionDefects(p) ==
  UNION {LET option == files[p].custom_options[n]
         IN  {why \in {"extendee", "unknown type"} :
                \/ why = "extendee" /\ option.extendee \notin Visible(p, "messages")
                \/ why = "unknown type" /\ UnknownIn(p, option.kind, Parent(n))} :
           n \in DOMAIN files[p].custom_options}

Extendee(p, n) == ResolvedIn(p, files[p].extensions[n].extendee, Parent(n))

\* Mutant: only the ranges of the target are looked at.
TakesNumberInRange(target, number) == number \in target.extension_ranges

\* The message has the number in its extension ranges, and no field with it.
TakesNumber(target, number) ==
  /\ number \in target.extension_ranges
  /\ \A f \in DOMAIN target.fields : target.fields[f].number # number

ExtensionDefects(p) ==
  UNION {LET extension == files[p].extensions[n]
         IN  IF UnknownIn(p, extension.extendee, Parent(n)) THEN {"unknown type"}
             ELSE {why \in {"extendee", "number", "unknown type"} :
                     \/ why = "extendee" /\ Extendee(p, n).of = "enum"
                     \/ why = "number" /\ Extendee(p, n).of = "message"
                        /\ ~TakesNumber(Lookup(p, "messages", Extendee(p, n).name),
                                        extension.field.number)
                     \/ why = "unknown type" /\ UnknownIn(p, extension.field.kind, Parent(n))} :
           n \in DOMAIN files[p].extensions}

\* Two extensions of the file have one target and one number.
SameNumbers(p) ==
  \E m, n \in DOMAIN files[p].extensions :
    /\ m # n /\ Extendee(p, m).name = Extendee(p, n).name
    /\ files[p].extensions[m].field.number = files[p].extensions[n].field.number

EndpointDefects(p) ==
  UNION {UNION {IF UnknownIn(p, kind, n) THEN {"unknown type"}
                ELSE IF ResolvedIn(p, kind, n).of = "enum" THEN {"endpoint"} ELSE {} :
                  kind \in files[p].services[n]} : n \in DOMAIN files[p].services}

DeclarationDefects(p) ==
  LET defects == MessageDefects(p) \cup OptionDefects(p) \cup ExtensionDefects(p)
                   \cup EndpointDefects(p)
  IN  IF defects = {} /\ SameNumbers(p) THEN {"number"} ELSE defects

ResolvedMessage(p, message, n) ==
  [message EXCEPT !.fields =
     [f \in DOMAIN message.fields |-> ResolvedField(p, message.fields[f], n)]]

ResolvedOption(p, option, n) == [option EXCEPT !.kind = ResolvedIn(p, option.kind, Parent(n))]

ResolvedExtension(p, extension, n) ==
  [extension EXCEPT !.extendee = Extendee(p, n),
                    !.field.kind = ResolvedIn(p, extension.field.kind, Parent(n))]

WithDeclarations(p) ==
  LET file == files[p]
  IN  [file EXCEPT
         !.messages = [n \in DOMAIN file.messages |-> ResolvedMessage(p, file.messages[n], n)],
         !.custom_options = [n \in DOMAIN file.custom_options |->
                               ResolvedOption(p, file.custom_options[n], n)],
         !.extensions = [n \in DOMAIN file.extensions |->
                           ResolvedExtension(p, file.extensions[n], n)],
         !.services = [n \in DOMAIN file.services |->
                         {ResolvedIn(p, kind, n) : kind \in file.services[n]}]]

-----------------------------------------------------------------------------
(* resolve_features.                                                       *)

\* Mutant: a field of message type is taken at its file's word.
PresentByFeature(field) == field.features.field_presence # "IMPLICIT"

TracksPresence(field) ==
  \/ field.explicit_presence
  \/ field.oneof # None
  \/ IsMessage(field.kind)
  \/ field.features.field_presence # "IMPLICIT"

\* The encoding of a repeated field that does not say how it is encoded.
PackedByFeature(field) ==
  IF field.cardinality = "repeated" /\ ~field.packed_explicit /\ Packable(field.kind)
  THEN field.features.repeated_field_encoding = "PACKED" ELSE field.packed

Featured(field, inherited) ==
  LET f == [field EXCEPT !.features = Applied(inherited, field.options)]
  IN  [f EXCEPT !.explicit_presence = TracksPresence(f), !.packed = PackedByFeature(f)]

\* An extension is not in a oneof, and a message it holds is not looked at.
FeaturedExtension(field, inherited) ==
  LET f == [field EXCEPT !.features = Applied(inherited, field.options)]
  IN  [f EXCEPT !.explicit_presence = f.cardinality # "repeated"
                                      /\ f.features.field_presence # "IMPLICIT",
                !.packed = PackedByFeature(f)]

ExtensionInherits(file, n) ==
  IF Parent(n) \in DOMAIN file.messages THEN MessageFeatures(file)[Parent(n)]
  ELSE FileFeatures(file)

\* A feature set on a field that it cannot apply to.
FieldMisuse(field, inherited) ==
  LET sets(x) == x \in DOMAIN field.options
      features == Applied(inherited, field.options)
  IN  \/ sets("message_encoding") /\ features.message_encoding = "DELIMITED"
         /\ ~IsMessage(field.kind)
      \/ sets("utf8_validation") /\ (field.kind.map \/ field.kind.of # "string")
      \/ sets("repeated_field_encoding") /\ field.cardinality # "repeated"
      \/ field.default /\ features.field_presence = "IMPLICIT"

\* resolve_features fails on a file whose declarations are resolved.
FeatureMisuse(file) ==
  \/ Misapplied(file.options, "file", file.syntax)
  \/ \E n \in DOMAIN file.messages :
       \/ Misapplied(file.messages[n].options, "message", file.syntax)
       \/ \E f \in DOMAIN file.messages[n].fields :
            \/ Misapplied(file.messages[n].fields[f].options, "field", file.syntax)
            \/ FieldMisuse(file.messages[n].fields[f], MessageFeatures(file)[n])
  \/ \E n \in DOMAIN file.enums : Misapplied(file.enums[n].options, "enum", file.syntax)
  \/ \E n \in DOMAIN file.extensions :
       Misapplied(file.extensions[n].field.options, "field", file.syntax)

FeaturedMessage(message, features) ==
  [message EXCEPT !.features = features,
                  !.fields = [f \in DOMAIN message.fields |-> Featured(message.fields[f], features)]]

FeaturedEnum(file, n) ==
  [file.enums[n] EXCEPT !.features = Applied(Inherited(file, n), file.enums[n].options)]

WithFeatures(file) ==
  [file EXCEPT
     !.features = FileFeatures(file),
     !.messages = [n \in DOMAIN file.messages |->
                     FeaturedMessage(file.messages[n], MessageFeatures(file)[n])],
     !.enums = [n \in DOMAIN file.enums |-> FeaturedEnum(file, n)],
     !.extensions = [n \in DOMAIN file.extensions |->
                       [file.extensions[n] EXCEPT !.field =
                          FeaturedExtension(file.extensions[n].field, ExtensionInherits(file, n))]]]

\* One iteration of the loop that resolves the files.
ResolveFile ==
  /\ phase = "resolving" /\ todo # <<>>
  /\ LET p == Head(todo)
     IN  IF Conflicting(files[p]) THEN Fail("conflict")
         ELSE IF DeclarationDefects(p) # {}
              THEN \E why \in DeclarationDefects(p) : Fail(why)
         ELSE IF FeatureMisuse(WithDeclarations(p)) THEN Fail("feature")
         ELSE /\ files' = [files EXCEPT ![p] = WithFeatures(WithDeclarations(p))]
              /\ todo' = Tail(todo)
              /\ UNCHANGED <<registry, order, schema, phase, reason>>

BeginChecking ==
  /\ phase = "resolving" /\ todo = <<>>
  /\ phase' = "checking" /\ todo' = order
  /\ UNCHANGED <<registry, order, files, schema, reason>>

-----------------------------------------------------------------------------
(* validate_schema_options: the custom options.                            *)

\* resolve_custom_option: the option that p sees under a name in a scope.
Options(p, setting, scope) ==
  LET found == Matches(setting.option, scope, Visible(p, "custom_options"))
  IN  IF found = {} THEN {}
      ELSE {Lookup(p, "custom_options", Candidates(setting.option, scope)[Min(found)])}

\* Mutant: the path of a setting is not walked.
TypeOfOption(p, kind, path) == kind

\* custom_option_value_type: the type at the end of a path of fields.
ValueType(p, kind, path) ==
  LET walk[i \in 0 .. Len(path)] ==
        IF i = 0 THEN kind
        ELSE LET k == walk[i - 1]
             IN  IF k = None THEN None
                 ELSE IF ~IsMessage(k) \/ k.name \notin Visible(p, "messages") THEN None
                 ELSE LET fields == Lookup(p, "messages", k.name).fields
                      IN  IF path[i] \in DOMAIN fields THEN fields[path[i]].kind ELSE None
  IN  walk[Len(path)]

\* custom_option_value_is_valid: the literals that a type takes.
Literals(kind) ==
  IF kind.map THEN {}
  ELSE CASE kind.of = "bool"    -> {"boolean"}
         [] kind.of \in {"string", "bytes"} -> {"string"}
         [] kind.of = "enum"    -> {"boolean", "identifier", "number"}
         [] kind.of = "message" -> {"aggregate"}
         [] kind.of = "number"  -> {"number"}

\* An earlier setting of the list is spelled the same.
SetBefore(list, i) ==
  \E j \in 1 .. i - 1 :
    list.uses[j].option = list.uses[i].option /\ list.uses[j].path = list.uses[i].path

\* The i-th setting of a list, made on a target in a scope, is in order.
SettingValid(p, list, i) ==
  \E option \in Options(p, list.uses[i], list.scope) :
    /\ option.extendee = <<list.target>>
    /\ option.cardinality = "repeated" \/ ~SetBefore(list, i)
    /\ LET kind == ValueType(p, option.kind, list.uses[i].path)
       IN  kind # None /\ list.uses[i].value \in Literals(kind)

SettingsValid(p) ==
  \A list \in files[p].settings : \A i \in DOMAIN list.uses : SettingValid(p, list, i)

CheckFile ==
  /\ phase = "checking" /\ todo # <<>>
  /\ IF ~SettingsValid(Head(todo)) THEN Fail("setting")
     ELSE /\ todo' = Tail(todo)
          /\ UNCHANGED <<registry, order, files, schema, phase, reason>>

\* The root is taken out, the others follow in order.
BeginMerging ==
  /\ phase = "checking" /\ todo = <<>>
  /\ phase' = "merging"
  /\ \E i \in DOMAIN order :
       order[i] = Root /\ todo' = SubSeq(order, 1, i - 1) \o SubSeq(order, i + 1, Len(order))
  /\ schema' = files[Root]
  /\ UNCHANGED <<registry, order, files, reason>>

-----------------------------------------------------------------------------
(* Merging.                                                                *)

Sorts == {"messages", "enums", "services", "custom_options", "extensions"}

NumberTaken(into, file) ==
  \/ \E m \in DOMAIN into.custom_options, n \in DOMAIN file.custom_options :
       /\ into.custom_options[m].extendee = file.custom_options[n].extendee
       /\ into.custom_options[m].number = file.custom_options[n].number
  \/ \E m \in DOMAIN into.extensions, n \in DOMAIN file.extensions :
       /\ into.extensions[m].extendee = file.extensions[n].extendee
       /\ into.extensions[m].field.number = file.extensions[n].field.number

\* Mutant: a declaration replaces one of the same sort and name.
DuplicateNumber(into, file) == NumberTaken(into, file)

Duplicate(into, file) ==
  \/ \E sort \in Sorts : DOMAIN into[sort] \cap DOMAIN file[sort] # {}
  \/ NumberTaken(into, file)

Merged(into, file) ==
  [sort \in DOMAIN into |-> IF sort \in Sorts THEN Over(file[sort], into[sort]) ELSE into[sort]]

MergeFile ==
  /\ phase = "merging" /\ todo # <<>>
  /\ LET file == files[Head(todo)]
     IN  IF Duplicate(schema, file) THEN Fail("duplicate")
         ELSE /\ schema' = Merged(schema, file)
              /\ todo' = Tail(todo)
              /\ UNCHANGED <<registry, order, files, phase, reason>>

\* The namespaces of all the files together.
Finish ==
  /\ phase = "merging" /\ todo = <<>>
  /\ IF Conflicting(schema) THEN Fail("conflict")
     ELSE /\ phase' = "accepted"
          /\ UNCHANGED <<registry, order, files, todo, schema, reason>>

Terminated == phase \in {"accepted", "error"} /\ UNCHANGED vars

Next ==
  \/ ResolveFile
  \/ BeginChecking
  \/ CheckFile
  \/ BeginMerging
  \/ MergeFile
  \/ Finish
  \/ Terminated

Spec == Init /\ [][Next]_vars

-----------------------------------------------------------------------------
(* Properties.  They are about the files as parsed, whatever the order.    *)

Accepted == phase = "accepted"

\* Two declarations, of one file or of two, share a full name.
SharedName ==
  \E p, q \in Path : \E s \in Symbols(registry.files[p]), t \in Symbols(registry.files[q]) :
    s.name = t.name /\ (p # q \/ s # t)

\* Two extensions or two options of different files share a name; the code
\* keeps extensions apart from each other only.
SharedExtension ==
  \E p, q \in Path : p # q /\ \E sort \in {"custom_options", "extensions"} :
    DOMAIN registry.files[p][sort] \cap DOMAIN registry.files[q][sort] # {}

\* What is extended, resolved, with the number that extends it.
ExtensionNumbers ==
  UNION {{[name |-> n, in |-> p, of |-> files[p].extensions[n].extendee.name,
           number |-> files[p].extensions[n].field.number] :
            n \in DOMAIN files[p].extensions} : p \in Path}

OptionNumbers ==
  UNION {{[name |-> n, in |-> p, of |-> files[p].custom_options[n].extendee,
           number |-> files[p].custom_options[n].number] :
            n \in DOMAIN files[p].custom_options} : p \in Path}

\* Two extensions, or two options, extend one message with one number.  The code
\* does not compare the one with the other: an extension is an option only if it
\* names the options message in full.
SharedNumber ==
  \E S \in {ExtensionNumbers, OptionNumbers} : \E x, y \in S :
    x # y /\ x.of = y.of /\ x.number = y.number

\* validate_symbol_namespaces, run on each file and on the merged schema,
\* together with the merge: no accepted registry has two declarations of one
\* name, wherever they are, and none is refused for it without having them.
NamesUnique ==
  /\ Accepted => ~SharedName /\ ~SharedExtension
  /\ reason = "conflict" => SharedName
  /\ reason = "duplicate" => SharedName \/ SharedExtension \/ SharedNumber

\* The numbers that extend a message are distinct over all files, in the ranges
\* of the message and not those of its fields.
NumbersUnique ==
  Accepted =>
    /\ ~SharedNumber
    /\ \A n \in DOMAIN schema.extensions :
         LET target == schema.extensions[n].extendee.name
             number == schema.extensions[n].field.number
         IN  /\ target \in DOMAIN schema.messages
             /\ number \in schema.messages[target].extension_ranges
             /\ \A f \in DOMAIN schema.messages[target].fields :
                  schema.messages[target].fields[f].number # number

\* validate_symbol_namespaces and the checks of numbers, which see one file at a
\* time, and the merge, which sees two: no accepted registry has two
\* declarations of one name or two extensions of one number, in whichever files.
NothingAmbiguous == NamesUnique /\ NumbersUnique

\* Merging loses nothing and changes nothing: the accepted schema has the
\* declarations of all files as they were resolved, and the file level of the
\* root.
MergeComplete ==
  Accepted =>
    /\ \A sort \in Sorts :
         /\ DOMAIN schema[sort] = UNION {DOMAIN registry.files[p][sort] : p \in Path}
         /\ \A p \in Path : \A n \in DOMAIN registry.files[p][sort] :
              schema[sort][n] = files[p][sort][n]
    /\ schema.syntax = registry.files[Root].syntax
    /\ schema.features = FileFeatures(registry.files[Root])

\* n is what a kind means in the scope to a file that sees the files S: no scope
\* further in has a declaration of the sort.
Means(kind, scope, n, sort, S) ==
  /\ \E p \in S : n \in DOMAIN registry.files[p][sort]
  /\ IF kind.absolute THEN n = kind.name
     ELSE \E k \in 0 .. Len(scope) :
            /\ n = SubSeq(scope, 1, k) \o kind.name
            /\ \A j \in k + 1 .. Len(scope) : \A p \in S :
                 SubSeq(scope, 1, j) \o kind.name \notin DOMAIN registry.files[p][sort]

Resolves(kind, scope, final, S) ==
  IF kind.of # "message" THEN final = kind
  ELSE \/ final.of = "message" /\ Means(kind, scope, final.name, "messages", S)
       \/ /\ final.of = "enum" /\ Means(kind, scope, final.name, "enums", S)
          /\ \A n \in UNION {DOMAIN registry.files[p].messages : p \in S} :
               ~Means(kind, scope, n, "messages", S)

\* resolve: in the accepted schema every type is a declaration of the schema,
\* from a file that the declaring file sees, and the innermost message of that
\* name or, if there is no message, the innermost enum.
TypesBound ==
  Accepted => \A p \in Path :
    /\ \A n \in DOMAIN registry.files[p].messages :
         \A f \in DOMAIN registry.files[p].messages[n].fields :
           Resolves(registry.files[p].messages[n].fields[f].kind, n,
                    schema.messages[n].fields[f].kind, registry.sees[p])
    /\ \A n \in DOMAIN registry.files[p].services :
         \A kind \in registry.files[p].services[n] :
           \E final \in schema.services[n] :
             final.of = "message" /\ Resolves(kind, n, final, registry.sees[p])

\* innermost-scope-first name lookup: a name means the declaration of the
\* innermost scope that has one, be it a message or an enum.  The code looks for
\* a message in all scopes first.
InnermostFirst ==
  Accepted => \A p \in Path : \A n \in DOMAIN registry.files[p].messages :
    \A f \in DOMAIN registry.files[p].messages[n].fields :
      LET kind  == registry.files[p].messages[n].fields[f].kind
          final == schema.messages[n].fields[f].kind
          nearer(m) == \E k \in 0 .. Len(n) :
                         m = SubSeq(n, 1, k) \o kind.name /\ Len(m) > Len(final.name)
      IN  kind.of = "message" /\ ~kind.absolute =>
            ~\E q \in registry.sees[p] : \E m \in DOMAIN registry.files[q].enums : nearer(m)

\* The option that sets feature x nearest to a declaration: its own, else that
\* of the innermost message around it with one, else the file's.
NearestSetting(file, own, scope, x) ==
  IF x \in DOMAIN own THEN own[x]
  ELSE LET setting == {k \in 0 .. Len(scope) :
                         /\ SubSeq(scope, 1, k) \in DOMAIN file.messages
                         /\ x \in DOMAIN file.messages[SubSeq(scope, 1, k)].options}
       IN  IF setting # {} THEN file.messages[SubSeq(scope, 1, Max(setting))].options[x]
           ELSE IF x \in DOMAIN file.options THEN file.options[x]
           ELSE Defaults(file.syntax)[x]

\* The message that an extension is declared in, <<>> for none.
Declarer(file, n) == IF Parent(n) \in DOMAIN file.messages THEN Parent(n) ELSE <<>>

\* resolve_features: every field, enum and extension of the accepted schema has
\* the nearest setting of each feature, in the file that declares it.
FeaturesNearest ==
  Accepted => \A p \in Path : \A x \in Feature :
    LET file == registry.files[p]
    IN  /\ \A n \in DOMAIN file.messages : \A f \in DOMAIN file.messages[n].fields :
             schema.messages[n].fields[f].features[x] =
               NearestSetting(file, file.messages[n].fields[f].options, n, x)
        /\ \A n \in DOMAIN file.enums :
             schema.enums[n].features[x] =
               NearestSetting(file, file.enums[n].options, Parent(n), x)
        /\ \A n \in DOMAIN file.extensions :
             schema.extensions[n].field.features[x] =
               NearestSetting(file, file.extensions[n].field.options, Declarer(file, n), x)

\* What the codec takes for granted of a field: a message tracks presence and
\* is never packed; a repeated field that can be packed has an encoding; a
\* default is that of a singular scalar that tracks presence; a oneof member
\* is singular and tracks presence; nothing else is written without a tag of
\* its own (implicit) but what its feature says.
FitForCodec(field) ==
  /\ IsMessage(field.kind) => field.explicit_presence
  /\ field.cardinality = "repeated" => field.packed \in BOOLEAN
  /\ field.packed = TRUE => field.cardinality = "repeated" /\ Packable(field.kind)
  /\ field.default => field.explicit_presence /\ field.cardinality # "repeated"
                      /\ ~IsMessage(field.kind)
  /\ field.oneof # None => field.explicit_presence /\ field.cardinality = "optional"
  /\ ~field.explicit_presence => field.features.field_presence = "IMPLICIT"
  /\ \A x \in Feature : field.features[x] \in FeatureValues[x]

\* A modern file never has a field of an enum that a proto2 file declares, also
\* through a map.
EnumsFit ==
  \A p \in Path : Modern(registry.files[p].syntax) =>
    \A n \in DOMAIN registry.files[p].messages :
      \A f \in DOMAIN schema.messages[n].fields :
        LET kind == schema.messages[n].fields[f].kind
        IN  kind.of = "enum" => Modern(schema.enums[kind.name].syntax)

\* Every field that linking accepts, in every file, is one the codec handles:
\* what the models of the codec assume of a descriptor.
CodecReady ==
  Accepted =>
    /\ \A n \in DOMAIN schema.messages : \A f \in DOMAIN schema.messages[n].fields :
         FitForCodec(schema.messages[n].fields[f])
    /\ EnumsFit

\* The types that a path leads to from a type in the accepted schema: one or
\* none.
Led(kind, path) ==
  LET step(k, f) == IF IsMessage(k) /\ f \in DOMAIN schema.messages[k.name].fields
                    THEN {schema.messages[k.name].fields[f].kind} ELSE {}
      led[i \in 0 .. Len(path)] ==
        IF i = 0 THEN {kind} ELSE UNION {step(k, path[i]) : k \in led[i - 1]}
  IN  led[Len(path)]

\* validate_custom_options: an option set in an accepted file is the innermost
\* one of that name that the file sees, made for that sort of declaration, and
\* its path leads through the merged schema to a type that takes the literal.
SettingsFit ==
  Accepted => \A p \in Path : \A list \in registry.files[p].settings :
    \A i \in DOMAIN list.uses : \E n \in DOMAIN schema.custom_options :
      /\ Means(list.uses[i].option, list.scope, n, "custom_options", registry.sees[p])
      /\ schema.custom_options[n].extendee = <<list.target>>
      /\ \E kind \in Led(schema.custom_options[n].kind, list.uses[i].path) :
           list.uses[i].value \in Literals(kind)
=============================================================================
