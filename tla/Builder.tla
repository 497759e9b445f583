------------------------------- MODULE Builder -------------------------------
(***************************************************************************)
(* The descriptor builder: parse_file, from a source that the grammar      *)
(* accepts to the descriptors of one file.                                 *)
(*                                                                         *)
(* A source is a sequence of statements; a block is opened by one and      *)
(* closed by "end".  The recursion of parse_message and the loops in it    *)
(* are the stack.  Names are atoms.  Options are left out but for those    *)
(* that the builder looks at (packed, default, allow_alias, json_name) and *)
(* the features.  The grammar admits the language as first statement only. *)
(***************************************************************************)
EXTENDS Schema, Integers

CONSTANTS
  Sources,        \* the sources to parse
  NestingLimits,  \* the values of max_nesting_depth that callers use
  MaxNumber,      \* MAX_FIELD_NUMBER
  Withheld,       \* RESERVED_FIELD_NUMBER_START .. RESERVED_FIELD_NUMBER_END
  EnumNumbers,    \* the numbers of an i32
  FirstOption,    \* CUSTOM_OPTION_MIN_FIELD_NUMBER
  OptionMessages, \* the messages that custom options extend
  JsonNames       \* the JSON name that a field name gives

Opening == {"message", "enum", "oneof", "service", "extend", "group"}

\* The number of open blocks after each statement.
Depths(s) ==
  [i \in 0 .. Len(s) |-> Cardinality({j \in 1 .. i : s[j].is \in Opening})
                          - Cardinality({j \in 1 .. i : s[j].is = "end"})]

\* The parts of a statement as the grammar gives them, as far as building and linking
\* rely on them; what else they are, the builder checks.
Grammatical(s) ==
  /\ s.is \in {"message", "enum", "service", "field"} => s.name \in STRING
  /\ s.is = "field" => /\ s.label \in {None, "optional", "required", "repeated"}
                       /\ s.kind \in ParsedKind /\ ParsedFeatures(s.options)
                       /\ s.packed \in Seq(BOOLEAN) /\ s.defaults \in Nat
  /\ s.is = "package" => s.name \in Name
  /\ s.is = "option"  => s.feature \in Feature
  /\ s.is = "rpc"     => NamedKind(s.input) /\ NamedKind(s.output)
  /\ s.is = "extend"  => NamedKind(s.of)
  /\ s.is = "reserved"    => s.names \in Seq(STRING) /\ s.ranges \in Seq(Int \X Int)
  /\ s.is = "allow_alias" => s.value \in BOOLEAN

ASSUME BuilderAssumption ==
  /\ NestingLimits \subseteq Nat
  /\ MaxNumber \in Nat /\ Withheld \subseteq 1 .. MaxNumber /\ EnumNumbers \subseteq Int
  /\ \A s \in Sources :
       /\ Len(s) \in Nat /\ DOMAIN s = 1 .. Len(s)
       /\ LET depth == Depths(s) IN depth[Len(s)] = 0 /\ \A i \in DOMAIN s : depth[i] >= 0
       /\ \A i \in DOMAIN s : Grammatical(s[i]) /\ (s[i].is = "language" => i = 1)

VARIABLES
  source,   \* the statements
  limit,    \* max_nesting_depth
  cursor,   \* the next statement
  stack,    \* the blocks around it, innermost last
  package,  \* the package so far, <<>> for none
  imports,  \* the imports so far
  built,    \* the descriptors so far
  stage     \* "scanning", "building", "parsed", "refused"

building == <<source, limit, cursor, stack, package, imports, built, stage>>

Nothing == <<>>

StartBuilding ==
  /\ source \in Sources /\ limit \in NestingLimits
  /\ cursor = 1 /\ stack = <<>> /\ package = <<>> /\ imports = <<>>
  /\ built = [syntax |-> "proto2", options |-> Nothing, features |-> Defaults("proto2"),
              messages |-> Nothing, enums |-> Nothing, services |-> Nothing,
              custom_options |-> Nothing, extensions |-> Nothing, settings |-> {}]
  /\ stage = "scanning"

Refuse == stage' = "refused" /\ UNCHANGED <<source, limit, cursor, stack, package, imports, built>>

Advance == cursor' = cursor + 1 /\ UNCHANGED <<source, limit, stage>>

FileSyntax  == built.syntax
Current  == source[cursor]
Top      == stack[Len(stack)]
Outer    == SubSeq(stack, 1, Len(stack) - 1)
Place    == IF stack = <<>> THEN "file" ELSE Top.kind
At(is, places) ==
  stage = "building" /\ cursor <= Len(source) /\ Current.is = is /\ Place \in places

\* Mutant: a nested block hands on its own name instead of its full name.
ScopeByName ==
  IF stack = <<>> THEN package
  ELSE IF Len(Top.name) < 2 THEN Top.name ELSE <<Top.name[Len(Top.name)]>>

\* qualify: the scope of a declaration, with the package declared so far.
Scope == IF stack = <<>> THEN package ELSE Top.name

\* A block; every kind of block uses some of the parts.
Opened(kind, name) ==
  [kind |-> kind, name |-> name, of |-> None, fields |-> <<>>, oneofs |-> {},
   names |-> <<>>, ranges |-> <<>>, extension_ranges |-> {}, options |-> Nothing,
   values |-> <<>>, allow_alias |-> FALSE, methods |-> <<>>]

Open(block) == stack' = Append(stack, block) /\ Advance /\ UNCHANGED <<package, imports, built>>

\* A part of the innermost block is replaced.
Within(block) == stack' = Append(Outer, block) /\ Advance /\ UNCHANGED <<package, imports, built>>

\* The innermost block ends and leaves a declaration behind.
Close(file) == stack' = Outer /\ built' = file /\ Advance /\ UNCHANGED <<package, imports>>

-----------------------------------------------------------------------------
(* Statements of the file.                                                 *)

\* validate_source_resource_limits: the braces are counted before anything is
\* parsed.
Scan ==
  /\ stage = "scanning"
  /\ IF \E i \in DOMAIN source : Depths(source)[i] > limit THEN Refuse
     ELSE /\ stage' = "building"
          /\ UNCHANGED <<source, limit, cursor, stack, package, imports, built>>

Language ==
  /\ At("language", {"file"})
  /\ IF Current.syntax \notin Syntax THEN Refuse
     ELSE /\ built' = [built EXCEPT !.syntax = Current.syntax, !.features = Defaults(Current.syntax)]
          /\ Advance /\ UNCHANGED <<stack, package, imports>>

Package ==
  /\ At("package", {"file"})
  /\ IF package # <<>> THEN Refuse
     ELSE package' = Current.name /\ Advance /\ UNCHANGED <<stack, imports, built>>

Import ==
  /\ At("import", {"file"})
  /\ imports' = Append(imports, [path |-> Current.path, kind |-> Current.kind])
  /\ Advance /\ UNCHANGED <<stack, package, built>>

\* A feature is set; of two settings the last counts.
SetFeature ==
  /\ At("option", {"file", "message", "enum"})
  /\ IF Place = "file"
     THEN /\ built' = [built EXCEPT !.options = Put(@, Current.feature, Current.value)]
          /\ Advance /\ UNCHANGED <<stack, package, imports>>
     ELSE Within([Top EXCEPT !.options = Put(@, Current.feature, Current.value)])

OpenMessage == At("message", {"file", "message"}) /\ Open(Opened("message", Append(Scope, Current.name)))
OpenEnum    == At("enum", {"file", "message"}) /\ Open(Opened("enum", Append(Scope, Current.name)))
OpenService == At("service", {"file"}) /\ Open(Opened("service", Append(Scope, Current.name)))

TypeTaken(n) == n \in DOMAIN built.messages \cup DOMAIN built.enums

-----------------------------------------------------------------------------
(* parse_field.                                                            *)

\* Proto3 and editions have no required fields, editions no label but repeated.
Mislabelled(label) == FileSyntax = "edition" /\ label \in {"required", "optional"}

CardinalityOf(f, label) ==
  IF f.kind.map THEN "repeated" ELSE IF label = None THEN "optional" ELSE label

FieldRefused(f, label, oneof) ==
  LET repeated == CardinalityOf(f, label) = "repeated"
  IN  \/ FileSyntax = "proto2" /\ label = None /\ oneof = None /\ ~f.kind.map
      \/ Modern(FileSyntax) /\ label = "required"
      \/ f.kind.map /\ (label # None \/ oneof # None)
      \/ f.number \notin 1 .. MaxNumber \/ f.number \in Withheld
      \/ Len(f.packed) > 1 \/ f.defaults > 1
      \/ f.defaults > 0 /\ (FileSyntax = "proto3" \/ repeated \/ oneof # None)
      \/ f.packed # <<>> /\ (~repeated \/ f.kind.map \/ f.kind.of \in {"string", "bytes"})

\* The encoding of a field before its type and its features are known.
PackedFirst(f, label) ==
  IF f.packed # <<>> THEN f.packed[1]
  ELSE IF CardinalityOf(f, label) = "repeated" /\ ~f.kind.map /\ f.kind.of \notin {"string", "bytes"}
       THEN Modern(FileSyntax) ELSE None

FieldOf(f, label, oneof) ==
  [number |-> f.number, kind |-> f.kind, cardinality |-> CardinalityOf(f, label),
   oneof |-> oneof, packed |-> PackedFirst(f, label), packed_explicit |-> f.packed # <<>>,
   explicit_presence |-> label # None \/ oneof # None, default |-> f.defaults = 1,
   options |-> f.options, features |-> Defaults(FileSyntax)]

\* field_json_name: the option, else what the name gives.
JsonName(f) == IF f.json # None THEN f.json ELSE JsonNames[f.name]

Described(f, label, oneof) ==
  [name |-> f.name, json |-> JsonName(f), field |-> FieldOf(f, label, oneof)]

-----------------------------------------------------------------------------
(* Messages.                                                               *)

DeclareField ==
  /\ At("field", {"message"})
  /\ IF Mislabelled(Current.label) \/ FieldRefused(Current, Current.label, None) THEN Refuse
     ELSE Within([Top EXCEPT !.fields = Append(@, Described(Current, Current.label, None))])

OpenOneof ==
  /\ At("oneof", {"message"})
  /\ IF Current.name \in Top.oneofs THEN Refuse ELSE Open(Opened("oneof", Current.name))

\* A member joins the fields of the message around the oneof.
DeclareMember ==
  /\ At("field", {"oneof"})
  /\ IF FieldRefused(Current, None, Top.name) THEN Refuse
     ELSE /\ stack' = [stack EXCEPT ![Len(stack) - 1].fields =
                         Append(@, Described(Current, None, Top.name))]
          /\ Advance /\ UNCHANGED <<package, imports, built>>

CloseOneof ==
  /\ At("end", {"oneof"})
  /\ stack' = [Outer EXCEPT ![Len(Outer)].oneofs = @ \cup {Top.name}]
  /\ Advance /\ UNCHANGED <<package, imports, built>>

\* The numbers that may be reserved in a block.
Reservable(kind) == IF kind = "enum" THEN EnumNumbers ELSE 1 .. MaxNumber

RangesRefused(ranges, numbers) ==
  \E i \in DOMAIN ranges :
    ranges[i][1] > ranges[i][2] \/ ranges[i][1] \notin numbers \/ ranges[i][2] \notin numbers

Reserve ==
  /\ At("reserved", {"message", "enum"})
  /\ IF RangesRefused(Current.ranges, Reservable(Place)) THEN Refuse
     ELSE Within([Top EXCEPT !.names = @ \o Current.names, !.ranges = @ \o Current.ranges])

ReserveExtensions ==
  /\ At("extensions", {"message"})
  /\ IF FileSyntax = "proto3" \/ RangesRefused(Current.ranges, Reservable(Place)) THEN Refuse
     ELSE Within([Top EXCEPT !.extension_ranges =
            @ \cup UNION {Current.ranges[i][1] .. Current.ranges[i][2] : i \in DOMAIN Current.ranges}])

\* A group is not described, but its label and the syntax are looked at.
GroupRefused(label, place) ==
  \/ Mislabelled(label)
  \/ place = "message" /\ FileSyntax = "proto3"
  \/ place = "extend" /\ Modern(FileSyntax) /\ label = "required"

\* skip_group: past the block, whatever is in it.
SkipGroup ==
  /\ At("group", {"message", "extend"})
  /\ IF GroupRefused(Current.label, Place) THEN Refuse
     ELSE /\ \E end \in cursor + 1 .. Len(source) :
               /\ Depths(source)[end] = Depths(source)[cursor - 1]
               /\ \A i \in cursor .. end - 1 : Depths(source)[i] > Depths(source)[cursor - 1]
               /\ cursor' = end + 1
          /\ UNCHANGED <<source, limit, stack, package, imports, built, stage>>

\* validate_reserved_declarations fails.
ReservedTwice(block) ==
  \/ \E i, j \in DOMAIN block.names : i # j /\ block.names[i] = block.names[j]
  \/ \E i, j \in DOMAIN block.ranges :
       /\ i # j /\ block.ranges[i][1] <= block.ranges[j][2]
       /\ block.ranges[j][1] <= block.ranges[i][2]

Reserves(block, name, number) ==
  \/ \E i \in DOMAIN block.names : block.names[i] = name
  \/ \E i \in DOMAIN block.ranges : number \in block.ranges[i][1] .. block.ranges[i][2]

\* Mutant: the numbers of a oneof are its own.
FieldsClashInOneof(block) ==
  LET f == block.fields
  IN  \E i, j \in DOMAIN f :
        /\ i # j /\ f[i].field.oneof = f[j].field.oneof
        /\ f[i].name = f[j].name \/ f[i].field.number = f[j].field.number

\* validate_message_fields, and validate_json_field_names but for proto2, fail.
FieldsClash(block) ==
  LET f == block.fields
  IN  \/ \E i, j \in DOMAIN f :
           /\ i # j
           /\ \/ f[i].name = f[j].name
              \/ f[i].field.number = f[j].field.number
              \/ Modern(FileSyntax) /\ f[i].json = f[j].json
      \/ \E i \in DOMAIN f :
           f[i].name \in block.oneofs \/ Reserves(block, f[i].name, f[i].field.number)

CloseMessage ==
  /\ At("end", {"message"})
  /\ IF ReservedTwice(Top) \/ FieldsClash(Top) \/ TypeTaken(Top.name) THEN Refuse
     ELSE LET f == Top.fields
              message ==
                [fields |-> [n \in {f[i].name : i \in DOMAIN f} |->
                               f[CHOOSE i \in DOMAIN f : f[i].name = n].field],
                 extension_ranges |-> Top.extension_ranges, options |-> Top.options,
                 features |-> Defaults(FileSyntax)]
          IN  Close([built EXCEPT !.messages = Put(@, Top.name, message)])

-----------------------------------------------------------------------------
(* Enums.                                                                  *)

DeclareValue ==
  /\ At("value", {"enum"})
  /\ IF Current.number \notin EnumNumbers THEN Refuse
     ELSE Within([Top EXCEPT !.values = Append(@, [name |-> Current.name, number |-> Current.number])])

\* Of two settings the last counts, also for the values before it.
AllowAlias == At("allow_alias", {"enum"}) /\ Within([Top EXCEPT !.allow_alias = Current.value])

ValuesClash(block) ==
  LET v == block.values
  IN  \/ v = <<>>
      \/ Modern(FileSyntax) /\ v[1].number # 0
      \/ \E i, j \in DOMAIN v :
           /\ i # j
           /\ \/ v[i].name = v[j].name
              \/ v[i].number = v[j].number /\ ~block.allow_alias
      \/ \E i \in DOMAIN v : Reserves(block, v[i].name, v[i].number)

CloseEnum ==
  /\ At("end", {"enum"})
  /\ IF ValuesClash(Top) \/ ReservedTwice(Top) \/ TypeTaken(Top.name) THEN Refuse
     ELSE LET enum == [values |-> {Top.values[i].name : i \in DOMAIN Top.values}, syntax |-> FileSyntax,
                       options |-> Top.options, features |-> Defaults(FileSyntax)]
          IN  Close([built EXCEPT !.enums = Put(@, Top.name, enum)])

-----------------------------------------------------------------------------
(* Extensions and custom options.                                          *)

IsOptionMessage(kind) == kind.name \in OptionMessages

OpenExtend ==
  /\ At("extend", {"file", "message"})
  /\ IF ~IsOptionMessage(Current.of) /\ FileSyntax = "proto3" THEN Refuse
     ELSE Open([Opened("extend", Scope) EXCEPT !.of = [Current.of EXCEPT !.absolute = FALSE]])

\* Mutant: the numbers of options are not compared.
OptionNameTaken(n, option) == n \in DOMAIN built.custom_options

OptionTaken(n, option) ==
  \/ n \in DOMAIN built.custom_options
  \/ \E m \in DOMAIN built.custom_options :
       /\ built.custom_options[m].extendee = option.extendee
       /\ built.custom_options[m].number = option.number

\* An extension without a label is optional.
Labelled(label) == IF label = None THEN "optional" ELSE label

DeclareExtension ==
  /\ At("field", {"extend"})
  /\ LET f == Current
         n == Append(Scope, f.name)
         field == FieldOf(f, Labelled(f.label), None)
         option == [extendee |-> Top.of.name, number |-> f.number, kind |-> f.kind,
                    cardinality |-> field.cardinality]
         declared(file) == built' = file /\ Advance /\ UNCHANGED <<stack, package, imports>>
     IN  IF Mislabelled(f.label) \/ FieldRefused(f, Labelled(f.label), None) THEN Refuse
         ELSE IF IsOptionMessage(Top.of)
         THEN IF f.number < FirstOption \/ OptionTaken(n, option) THEN Refuse
              ELSE declared([built EXCEPT !.custom_options = Put(@, n, option)])
         ELSE IF n \in DOMAIN built.extensions THEN Refuse
              ELSE declared([built EXCEPT !.extensions =
                               Put(@, n, [extendee |-> Top.of, field |-> field])])

CloseExtend == At("end", {"extend"}) /\ Close(built)

-----------------------------------------------------------------------------
(* Services, and the file as a whole.                                      *)

DeclareMethod ==
  /\ At("rpc", {"service"})
  /\ IF \E i \in DOMAIN Top.methods : Top.methods[i].name = Current.name THEN Refuse
     ELSE Within([Top EXCEPT !.methods = Append(@, Current)])

CloseService ==
  /\ At("end", {"service"})
  /\ IF Top.name \in DOMAIN built.services THEN Refuse
     ELSE LET kinds == UNION {{Top.methods[i].input, Top.methods[i].output} : i \in DOMAIN Top.methods}
          IN  Close([built EXCEPT !.services = Put(@, Top.name, kinds)])

EndOfFile ==
  /\ stage = "building" /\ cursor > Len(source)
  /\ stage' = "parsed" /\ UNCHANGED <<source, limit, cursor, stack, package, imports, built>>

Build ==
  \/ Scan \/ Language \/ Package \/ Import \/ SetFeature
  \/ OpenMessage \/ DeclareField \/ Reserve \/ ReserveExtensions \/ SkipGroup \/ CloseMessage
  \/ OpenOneof \/ DeclareMember \/ CloseOneof
  \/ OpenEnum \/ DeclareValue \/ AllowAlias \/ CloseEnum
  \/ OpenExtend \/ DeclareExtension \/ CloseExtend
  \/ OpenService \/ DeclareMethod \/ CloseService
  \/ EndOfFile

-----------------------------------------------------------------------------
(* Properties.  They are about positions in the source: what is around a   *)
(* statement and which statements are inside one block, wherever they are. *)

\* The blocks around a statement, and the innermost of some kinds, 0 for none.
Around(j) ==
  LET depth == Depths(source)
  IN  {i \in 1 .. j - 1 : source[i].is \in Opening /\ \A k \in i .. j - 1 : depth[k] >= depth[i]}
Innermost(j, kinds) == Max({0} \cup {i \in Around(j) : source[i].is \in kinds})

\* The statements of a sort that are not in a group.
All(is) == {j \in DOMAIN source : source[j].is = is /\ Innermost(j, {"group"}) = 0}
Owner(j) == Innermost(j, Opening)
Inside(is, i) == {j \in All(is) : Owner(j) = i}

\* The fields of a message, those of its oneofs included.
FieldsIn(m) ==
  {j \in All("field") : Innermost(j, {"message", "extend"}) = m /\ source[m].is = "message"}

\* The positions of a set, the n-th being the one with n of them up to it.
Sorted(S) == [n \in 1 .. Cardinality(S) |-> Min({i \in S : Cardinality({k \in S : k <= i}) = n})]

\* A package is that of the declarations after it.
PackageBefore(j) ==
  LET before == {i \in All("package") : i < j}
  IN  IF before = {} THEN <<>> ELSE source[Min(before)].name

\* Scopes are messages.
ScopeAround(j) ==
  LET outer == Sorted({i \in Around(j) : source[i].is = "message"})
  IN  PackageBefore(j) \o [n \in DOMAIN outer |-> source[outer[n]].name]

FullName(j) == Append(ScopeAround(j), source[j].name)

\* Two statements, or two parts of one, reserve the same.
Overlap(i, j) ==
  LET r == source[i]
      q == source[j]
  IN  \/ \E x \in DOMAIN r.names, y \in DOMAIN q.names :
           (i # j \/ x # y) /\ r.names[x] = q.names[y]
      \/ \E x \in DOMAIN r.ranges, y \in DOMAIN q.ranges :
           /\ i # j \/ x # y
           /\ r.ranges[x][1] .. r.ranges[x][2] \cap q.ranges[y][1] .. q.ranges[y][2] # {}

\* A statement reserves the name or the number of another.
Forbids(r, j) == Reserves(source[r], source[j].name, source[j].number)

MessageClashes(m) ==
  \/ \E i, j \in FieldsIn(m) :
       /\ i # j
       /\ \/ source[i].name = source[j].name
          \/ source[i].number = source[j].number
          \/ Modern(FileSyntax) /\ JsonName(source[i]) = JsonName(source[j])
  \/ \E o \in Inside("oneof", m) : \E j \in FieldsIn(m) \cup (Inside("oneof", m) \ {o}) :
       source[o].name = source[j].name
  \/ \E r \in Inside("reserved", m) : \E j \in FieldsIn(m) : Forbids(r, j)

\* What the last allow_alias of an enum says, wherever it is.
Aliases(e) == LET said == Inside("allow_alias", e) IN said # {} /\ source[Max(said)].value

EnumClashes(e) ==
  LET values == Inside("value", e)
  IN  \/ values = {}
      \/ Modern(FileSyntax) /\ source[Min(values)].number # 0
      \/ \E i, j \in values :
           /\ i # j
           /\ \/ source[i].name = source[j].name
              \/ source[i].number = source[j].number /\ ~Aliases(e)
      \/ \E r \in Inside("reserved", e) : \E j \in values : Forbids(r, j)

\* Extensions of one sort, options or others, with their messages.
Extends(j) == source[Owner(j)].of
ExtensionsClash ==
  \E i, j \in {j \in All("field") : source[Owner(j)].is = "extend"} :
    /\ i # j
    /\ IsOptionMessage(Extends(i)) = IsOptionMessage(Extends(j))
    /\ \/ FullName(i) = FullName(j)
       \/ /\ IsOptionMessage(Extends(i)) /\ Extends(i).name = Extends(j).name
          /\ source[i].number = source[j].number

\* Two statements of the source, in whichever order, are at odds.
Clashes ==
  \/ Cardinality(All("package")) > 1
  \/ \E m \in All("message") : MessageClashes(m)
  \/ \E e \in All("enum") : EnumClashes(e)
  \/ \E i, j \in All("reserved") : Owner(i) = Owner(j) /\ Overlap(i, j)
  \/ \E i, j \in All("message") \cup All("enum") : i # j /\ FullName(i) = FullName(j)
  \/ \E i, j \in All("service") : i # j /\ FullName(i) = FullName(j)
  \/ \E i, j \in All("rpc") : i # j /\ Owner(i) = Owner(j) /\ source[i].name = source[j].name
  \/ ExtensionsClash

\* A field as the rules about one field see it; a member of a oneof has no label.
OneofAround(j) == IF source[Owner(j)].is = "oneof" THEN source[Owner(j)].name ELSE None

LabelOf(j) ==
  CASE source[Owner(j)].is = "extend" -> Labelled(source[j].label)
    [] source[Owner(j)].is = "oneof"  -> None
    [] OTHER -> source[j].label

FieldMisfit(j) ==
  \/ source[Owner(j)].is # "oneof" /\ Mislabelled(source[j].label)
  \/ FieldRefused(source[j], LabelOf(j), OneofAround(j))
  \/ source[Owner(j)].is = "extend" /\ IsOptionMessage(Extends(j)) /\ source[j].number < FirstOption

\* A statement is not in order, whatever the others.
Misfit(j) ==
  LET s == source[j]
  IN  CASE s.is = "language"   -> s.syntax \notin Syntax
        [] s.is = "field"      -> FieldMisfit(j)
        [] s.is = "reserved"   -> RangesRefused(s.ranges, Reservable(source[Owner(j)].is))
        [] s.is = "extensions" -> FileSyntax = "proto3" \/ RangesRefused(s.ranges, 1 .. MaxNumber)
        [] s.is = "value"      -> s.number \notin EnumNumbers
        [] s.is = "extend"     -> FileSyntax = "proto3" /\ ~IsOptionMessage(s.of)
        [] s.is = "group"      -> GroupRefused(s.label, source[Owner(j)].is)
        [] OTHER -> FALSE

Defective ==
  \/ \E i \in DOMAIN source : Depths(source)[i] > limit
  \/ Clashes
  \/ \E j \in DOMAIN source : Innermost(j, {"group"}) = 0 /\ Misfit(j)

\* The recursion of the builder is within the limit.
NestingBounded == Len(stack) <= limit

\* parse_file: the builder never has more blocks open than max_nesting_depth, for
\* which the braces were counted before; whatever the order of the statements, it
\* accepts a source exactly when no two of them clash and none is out of order
\* (validate_message_fields, validate_reserved_declarations, parse_enum); and what
\* it accepts is a file as linking expects it.
ParsesExactly ==
  /\ NestingBounded
  /\ stage = "parsed"  => ~Defective /\ ParsedFile(built)
  /\ stage = "refused" => Defective

\* The features that a block sets, the last setting of each.
SettingsIn(i) ==
  [x \in {source[j].feature : j \in Inside("option", i)} |->
     source[Max({j \in Inside("option", i) : source[j].feature = x})].value]

MessagesDeclared ==
  /\ DOMAIN built.messages = {FullName(m) : m \in All("message")}
  /\ \A m \in All("message") :
       LET d == built.messages[FullName(m)]
       IN  /\ DOMAIN d.fields = {source[j].name : j \in FieldsIn(m)}
           /\ \A j \in FieldsIn(m) :
                LET f == d.fields[source[j].name]
                IN  f.number = source[j].number /\ f.kind = source[j].kind /\ f.oneof = OneofAround(j)
           /\ d.extension_ranges =
                UNION {UNION {source[j].ranges[i][1] .. source[j].ranges[i][2] :
                                i \in DOMAIN source[j].ranges} : j \in Inside("extensions", m)}
           /\ d.options = SettingsIn(m)

\* What is parsed is what the source declares, under the names of the messages
\* around it and of the package before it: nothing is lost, nothing is left over
\* from another block, and a group leaves nothing behind.
DeclaredExactly ==
  stage = "parsed" =>
    /\ MessagesDeclared
    /\ DOMAIN built.enums = {FullName(e) : e \in All("enum")}
    /\ \A e \in All("enum") :
         /\ built.enums[FullName(e)].values = {source[j].name : j \in Inside("value", e)}
         /\ built.enums[FullName(e)].options = SettingsIn(e)
    /\ DOMAIN built.services = {FullName(s) : s \in All("service")}
    /\ \A s \in All("service") :
         built.services[FullName(s)] =
           UNION {{source[j].input, source[j].output} : j \in Inside("rpc", s)}
    /\ LET options == {j \in All("field") : source[Owner(j)].is = "extend" /\ IsOptionMessage(Extends(j))}
           others  == {j \in All("field") : source[Owner(j)].is = "extend" /\ ~IsOptionMessage(Extends(j))}
       IN  /\ DOMAIN built.custom_options = {FullName(j) : j \in options}
           /\ DOMAIN built.extensions = {FullName(j) : j \in others}
           /\ \A j \in options : built.custom_options[FullName(j)].extendee = Extends(j).name
           /\ \A j \in others : /\ built.extensions[FullName(j)].extendee.name = Extends(j).name
                                /\ built.extensions[FullName(j)].field.number = source[j].number
    /\ built.options = SettingsIn(0)
    /\ imports = [n \in DOMAIN Sorted(All("import")) |->
                    LET j == Sorted(All("import"))[n]
                    IN  [path |-> source[j].path, kind |-> source[j].kind]]
=============================================================================
