# Specifications of proto-rs

TLA+ models of the protobuf crate in this repository, the TLC configurations
that check them, and TLAPS proofs about them. `codec.rs` below is
`src/codec.rs`, and likewise for the other files of the crate.

## 1. The system

The crate parses `.proto` sources at run time and uses the descriptors to
decode, re-encode and map to JSON dynamic messages. Nothing runs concurrently,
nothing is persisted and nothing is sent: every call is a sequential, recursive
computation over its arguments. What is hard is elsewhere: long sequences of
wire occurrences that interact (oneofs, merges, duplicates, maps), budgets
shared by all levels of a recursion, policies that have to hold on every path a
value can take, an audit trail that has to keep agreeing with the contents,
graph traversals over imports, names and numbers that meet only when files are
merged, and texts that have to stand for one value only.

| component | state | operations | interacts with | what makes it correct | modules |
|---|---|---|---|---|---|
| Dynamic message (`codec.rs`) | fields, unknown fields, added fields, audit trail | `new`, `insert`, `get`, `add_field`, `merge_message` | written by the decoder and JSON, read by the encoder | oneof members exclude each other; merged contents are those of the occurrences in order; the trail names the retained values | `DynMessage` |
| Binary decoder (`codec.rs`) | `DecodeContext` (options and two counters shared by all levels), the call stack, one partial message per level | `decode`, `decode_with_options`; inside: `decode_inner`, `decode_map_entry`, `field_value`, `val`, `skip_decode` | reads descriptors, builds messages | limits hold for any input, policies on any path, contents follow the protobuf merge rules, every call returns | `Decoder` |
| Binary encoder (`codec.rs`) | output buffer | `encode`, `encode_with_options`, `encode_inner`, `apply_field_order` | reads messages and their trail | decoding the output yields the message; limits on the output | `Encoder`, `RoundTrip` |
| Wire primitives (`codec.rs`, `constants.rs`) | a cursor | varints, keys, zigzag, fixed widths | decoder and encoder | read is the inverse of write; the minimality rules refuse exactly the longer forms | `Wire`, `Scalars` |
| Registry and imports (`schema.rs`) | registered sources; while parsing: pending paths, loaded files, visit states, visibility | `register`, `parse`, `parse_registry`, `validate_import_cycles`, `visible_import_paths` | feeds linking | exactly the reachable files, no cycle accepted or invented, exact visibility | `ImportRelation`, `Registry`, `ImportGraph`, `RegistryRefinement` |
| Name resolution and namespaces (`schema.rs`) | visible names per file; the merged schema | `resolve`, `resolve_schema_declarations`, `validate_symbol_namespaces`, the merge in `parse_registry` | uses visibility, feeds the codec | innermost scope first, no ambiguous or colliding name or number, nothing lost in the merge | `Schema`, `Linking` |
| Editions features (`schema.rs`) | a feature set per declaration | `apply_feature_options`, `resolve_features` | presence, enum type and encoding used by the codec | the nearest setting wins, per edition | `Schema`, `Linking` |
| Options validation (`schema.rs`) | none | `validate_options`, `validate_custom_options` | descriptors | a custom option is the one in scope, fits its target and its literal | `Linking` |
| Descriptor builder (`schema.rs`) | token cursor, package, descriptors so far; the blocks that the recursion is in | `parse_file`, `parse_message`, `parse_enum`, `parse_field`, `parse_custom_option_extensions`, `parse_service`, the limits of the source | reads statements, feeds linking | a source is accepted exactly when no two of its statements clash, whatever their order; nothing declared is lost | `Builder`, `Parsing` |
| Lexer and grammar (`schema.rs`, `proto.pest`) | a cursor in the text | `lex`, `validate_pest_syntax` | feeds the builder | not modelled | none |
| JSON mapping (`json.rs`) | recursion depth, keys seen | `decode_json`, `encode_json`, prescan, well-known types | messages and descriptors | no duplicate reaches a field, limits before recursion, exact numbers, what is written is read back | `JsonScan`, `JsonDocument`, `Json`, `JsonMapping`, `JsonText`, `Scalars` |
| Facade, fuzz target, benches, conformance, examples | none | drivers | everything | not modelled | none |

The hazards, one by one with their lines and the properties about them, are in
`PROJECT.json`.

## 2. What is modelled

### `DynMessage`: the message

A message with all its singular submessages is one function from *addresses* to
nodes. An address is the path of singular message fields that leads to a node,
so `<<>>` is the message and `<<a, b>>` its submessage `b` of `a`. Field `f` of
message type is present when its address is in the domain. Laid flat like this,
the recursion of `merge_message` is a pointwise merge (`MergeNode`) of the nodes
two trees share, and needs no recursive operator. A node has four parts: single
scalars, repeated values and maps (the cases of `Value` that a descriptor can
give a field), plus the unknown fields and the audit trail.

The descriptors are constants: `Field`, and `Desc[f]` with the owner, the
cardinality, the message type, the oneof, the enum kind and the delimited
encoding of `f`. `DescAssumption` states what the schema parser guarantees about
oneofs and about the kind of a field's values. Values of numbers, strings and bytes
are a small set `Scalar`; 0 is the default. Messages stored in repeated fields and maps are never looked at again
by the decoder, and are one value, `Elem`. Map entries are a function, so the
order of the entry vector is not modelled.

### `Decoder`: decode_with_options

The recursion is a stack of frames, one for each activation of `decode_inner`
(kind `message`), `decode_map_entry` (`entry`), the packed loop (`packed`) and
the group loop of `skip_decode` (`group`). The input is revealed as it is read.
A step decodes one occurrence, its key and what follows, and the environment
chooses which. The number of bytes left in each frame is real; each key, length
and scalar counts one byte.

| code | actions |
|---|---|
| `decode_with_options`, head of `decode_inner` | `Decode`, `RefusesNested` |
| `count_field` at its limit | `CountField` (the count itself is in `Advance` and `Commit`) |
| defects of the bytes: truncation, wire types, varints, UTF-8, end tags | `Malformed`, `Unterminated` |
| unknown field, `skip_decode` | `SkipScalar`, `SkipBytes`, `BeginGroup`, `EndGroup` |
| map field | `BeginEntry`, `EntryKey`, `EntryScalar`, `BeginEntryMessage`, `EndEntryMessage`, `EndEntry` |
| undeclared number of a closed enum | `UnknownEnumValue`, `PackedElement` |
| repeated scalars | `UnpackedElement`, `BeginPacked`, `PackedElement`, `EndPacked` |
| singular scalar | `SingularScalar` |
| embedded messages, length-delimited or delimited | `BeginMessage`, `EndSubmessage`, `EndElement`, `EndRoot` |

Each action has the code's checks in the code's order where the order decides
what is kept; an error drops the partial message (`Fail`), so the order among
checks that all fail does not show. What an activation does after its value is
known (insertion, displacement of oneof siblings, merge, demotion, tag, audit
record) is one step. Between a `Begin` and its `End` other occurrences change
the counters, which is what a shared budget has to survive.

### `Encoder` and `RoundTrip`: encode_with_options, and back

With the message laid flat the recursion of `encode_inner` needs no stack:
`Encoded(m, e)` is a function from addresses to the sequence of occurrences
written for the node there (`Replayed`, then `Known` for each field in
declaration order, then `Forwarded`, then the stable sort of
`apply_field_order`), `Sizes` adds them up, and `Refuses` joins the refusals, at
any address, of `validate_message_shape`, of closed enums, of required fields, of
records without bytes and of `max_output_bytes`. `Declared`, `Number`, `Implicit`
and `Packed` say what the schema adds for encoding.

`RoundTrip` composes the two. The first pass is `Decoder` on any input. `Encode`
takes what it returned, writes it under any of the callers' options, and starts
the second pass: `Decoder` again, whose next step is the one that reads the next
occurrence written (`RereadScalar`, `RereadPacked`, ... , `Return` at the end of
an activation). The second pass has permissive limits and the strictest policies
that such output should meet: duplicates are rejected after `LastOnly`, unknown
fields when none is forwarded. If the decoder could not read what was written
there would be no step, and TLC would report a deadlock.

### `ImportRelation`, `Registry`, `ImportGraph`, `RegistryRefinement`: loading

`ImportRelation` has what loading reads and never changes: a registry (a parsed
source is the sequence of its imports; `Absent` and `Broken` are paths without a
source and with one that does not parse), the file limit, and what reachable and
cyclic mean. `Registry` is the promise to the caller: in one step the reachable
sources are accepted with the least visibility their imports give, or refused for
a defect that the registry has. `ImportGraph` has the three loops of
`parse_registry` that walk imports, one iteration per step: `Load` (loading loop),
`VisitImport` and `LeaveVisit` (`validate_import_cycles` as a stack of
activations), `ExposeDirect`, `ExposePublic` and `EndExposure`
(`visible_import_paths`). The stacks of pending paths are sets popped in any
order; the order decides which error comes first and nothing else. The
refinement mapping of `RegistryRefinement` hides everything but the outcome.

### `Builder` and `Parsing`: from a source to descriptors

A source is a sequence of statements that the grammar admits; names are atoms and
numbers integers. The recursion of `parse_message` and the loops inside it are a
stack of blocks, each with what its activation has gathered so far.

| code | actions |
|---|---|
| `validate_source_resource_limits` (nesting) | `Scan` |
| `parse_file`, the loop | `Language`, `Package`, `Import`, `SetFeature`, `EndOfFile` |
| `parse_message` | `OpenMessage`, `DeclareField`, `Reserve`, `ReserveExtensions`, `SkipGroup`, `CloseMessage` (the checks over all fields and the insertion) |
| its loop over a oneof | `OpenOneof`, `DeclareMember`, `CloseOneof` |
| `parse_enum` | `OpenEnum`, `DeclareValue`, `AllowAlias`, `CloseEnum` |
| `parse_custom_option_extensions` | `OpenExtend`, `DeclareExtension`, `CloseExtend` |
| `parse_service` | `OpenService`, `DeclareMethod`, `CloseService` |

Of the options those are kept that the builder looks at (`packed`, `default`,
`allow_alias`, `json_name`) and the features, which linking needs. `Parsing`
composes: `parse_with_options` is `Build` to the end, then `BeginLinking`, then the
steps of `Linking` on one file that sees itself. Its other initial states are those of `Linking`,
loaded registries.

### `Schema` and `Linking`: linking the files

`Schema` has what parsing a source yields (messages, fields, enums, services,
custom options, extensions, option settings; a full name is the sequence of its
identifiers) and the rules about one file or scope as operators: feature defaults
and inheritance, lexical lookup (`Resolved`), the symbols of a namespace.
`Linking` is the second half of `parse_registry`, one file per step:

| code | actions |
|---|---|
| `validate_symbol_namespaces`, `resolve_schema_declarations`, `resolve_features` of each file | `ResolveFile` |
| `validate_schema_options`, custom options | `BeginChecking`, `CheckFile` |
| the merge: root first, then the others in the order of their paths | `BeginMerging`, `MergeFile` |
| the namespaces of the merged schema | `Finish` |

The order of the paths says nothing about their contents, so the order is any.
With one file it is `resolve_schema`, the linking of `parse`.
What loading hands on is described where it is used: `ParsedFile` (a file as
`parse_file` returns it) and `Loaded` (a registry of such files, and what each sees).
An extension that names an options message by a relative name in package
`google.protobuf` is an ordinary extension to the code, and its number is not compared
with those of the custom options: `SharedNumber` is about each sort by itself.

### `JsonScan` and `JsonDocument`: the scan before the parser

`reject_duplicate_json_keys` as a stack machine over tokens; its recursion is the
stack. A string token has the key it stands for and the length of its spelling,
so one key has spellings of several lengths. The scan is lenient (a scalar extends
to the next separator, a comma may come last) since the parser behind it is not.
`JsonDocument` has documents as trees, their texts and the limits stated on the
tree: the reference the scan is compared with.

### `Json` and `JsonMapping`: messages and JSON values

`JsonToMessage` and `MessageToJson` are recursive operators over descriptors, as
`json_to_message` and `message_to_json` are functions: a result is the set of what
is returned, empty for an error. Aliases of a field, presence, oneofs, lists, maps
and their keys, enums by name and number, `Any`, `Value`, `Struct`, `ListValue` and
the wrappers are modelled; numbers are integers of one width. `Received` is what
encoding and decoding makes of a message. `JsonMapping` is an application:
`DecodeJson`, `Transmit` (any number of times), `EncodeJson`, `Reread`.

### `Wire`, `JsonText` and `Scalars`: bytes and texts of one value

`Wire` has varints, keys, zigzag and the scalars that varints carry for any number
of bits in a byte and in a number, `JsonText` the texts of integers, base64,
durations, timestamps and field masks, cut into the parts that the parsers look at.
`Scalars` has one action for each function a codec calls, on any of a set of
arguments.

### Model-checking modules

`MCDecoder` has the schemas (each written as a `.proto` in its comment) and the
option sets, `MCRoundTrip` those of the composition, `MCImportGraph` the import
graphs, `MCLinking` families of two files (one family for each rule), `MCParsing`
sources made of pools of statements,
`MCJsonScan` and `MCJsonMapping` documents, `MCScalars` the widths and arguments.

## 3. What the runs show

| run | instance | distinct states | shows |
|---|---|---|---|
| `decoder_oneof` | a oneof with a scalar and a message member, a oneof and a map inside that message; duplicates allowed, or rejected with maps of one key; 10 bytes | 78,103 | `OneofExclusive`, `ContentsFollowHistory`, `TrailNamesRetained`, `StrictDuplicates`, `TrailGrows`, `Terminates` |
| `decoder_collections` | a repeated closed enum and a map in a message and in a submessage; five option sets; 8 to 12 bytes | 243,722 | `TypeOK`, `ContentsFollowHistory`, `TrailNamesRetained`, `CollectionsBounded` |
| `decoder_nesting` | a recursive type in singular (delimited), repeated and map fields with a required field; two depth limits; 10 bytes | 88,717 | `DepthBounded`, `RequiredPresent`, `CountersPayForTrail` |
| `roundtrip` | a submessage with a oneof and an implicit field; a closed enum, a map of closed enums, a packed list of open enums; four decode options, five encode options; 6 to 8 bytes | 130,201 | `SurvivesReencoding`, `StrictlyDecodedEncodes`, `HistoryPreserved`, `StrictDomains` |
| `imports` | all graphs of three sources and all layered graphs of four; limits of 2 and 4 files | 225,824 | `LoadedExactly`, `RefusalsExact`, `VisibilityExact`, `LoadsAtomically` |
| `schema` | every order of up to three statements out of pools of 16 (a message, a file) and 11 (an enum), in three languages, fields of every kind, label and option, nested blocks, parsed and linked; and two files, one importing the other, in both orders: types that are declared in several scopes and files, names and numbers that collide, option settings, features at four levels, kinds of fields and enums | 371,185 | `NothingAmbiguous`, `MergeComplete`, `TypesBound`, `FeaturesNearest`, `CodecReady`, `SettingsFit`, `ParsesExactly`, `DeclaredExactly` |
| `json_scan` | texts of documents up to depth 3, the same with a token dropped, every text of four tokens; five sets of limits | 173,996 | `ScanBounded`, `ScanExact`, `Terminates` |
| `json` | every document of up to two members for a message with a field of each sort, documents for the special types, messages from the wire | 14,546 | `DecodedFits`, `IgnoresExactly`, `SurvivesRoundTrip` |
| `scalars` | every value of every kind at 7 and 5 bits, every byte sequence up to the longest varint, integer texts, base64, durations, days of 16 years and around 1970 and 2000, masks | 663,180 | `StrictReadingInverts`, `WireExact`, `IntegersExact`, `TimesExact`, `TextsInvert` |

The central properties of the decoder compare a message with its own audit
trail, which records every occurrence in the order of the input:

- `ContentsFollowHistory`: a singular field is present exactly when the last
  occurrence of its slot (the field with its oneof siblings) is its own, and has
  that value; a repeated field is the concatenation of its occurrences; a map has
  the last value of each key; the unknown fields are those the trail tells of, in
  order, or none under Drop. This is checked at every address, so also in
  submessages merged from several occurrences, with one exception: in a submessage
  the members of oneofs are left out, since merging does not displace the siblings
  (`OneofExclusiveInTree`, which the code breaks).
- `TrailNamesRetained`: the live records (`SchemaField`, `DuplicateLastWins`)
  are one for each retained scalar slot, that of its last occurrence, and as many
  as the entries of a map.
- `TrailGrows`: a record never changes except by losing its claim to be live.
- `StrictDuplicates`: with duplicates rejected nothing ambiguous is accepted at
  any address: no slot with two occurrences, no oneof with two members, no repeated
  map key, and no collection beyond its limit. A key or a value repeated inside one
  map entry leaves no trace that a property could see; the actions refuse it.
- `CollectionsBounded`, `CountersPayForTrail`, `DepthBounded`: the limits, for
  any mix of paths that reach them. The first is about the fields of each message
  under decoding itself; the submessages that merging has added up are beyond it
  (`CollectionsBoundedInTree`, which the code breaks).
- `RequiredPresent`: the required fields of what is returned and of every submessage
  in a singular field, at any depth, merged or not. Messages inside lists and maps are
  checked when they end, by the actions, and kept as one abstract value (`Elem`); so
  is the default of a missing map value, which the code does not check (`codec.rs`
  1615, 1688) and this property does not see.
- `SurvivesReencoding`: the second pass never ends in an error, although it rejects
  duplicates after `LastOnly`, and gives the message back at every address. Two
  exceptions are named in `Restored`: under `PreserveAll` a displaced
  value comes back in front of an implicit default, which is not written, and in
  a oneof whose members are sorted by number.
- `StrictlyDecodedEncodes`: what was decoded with duplicates rejected is never
  refused by the encoder, except for its size and for undeclared numbers in maps.
- `HistoryPreserved`: with `PreserveAll`, the trail read back names the same
  occurrences of each singular slot as the first one.
- `StrictDomains`: the enum policies on every path, in both passes: outside maps a closed
  enum holds declared numbers only, and under `RejectUnknown` any enum does, also in
  maps. Its one exception is the default of a missing map value: `default_value` yields
  0 whatever numbers the enum declares. Without `RejectUnknown` maps are not
  constrained, closed enums included.

Those of parsing compare what the builder does, statement by statement, with the
positions of the statements in the source:

- `ParsesExactly`: a source is refused exactly when two of its statements clash (names
  and numbers of fields, oneofs, values, extensions and types, JSON names, reserved
  names and ranges), one is out of order by itself, or its blocks nest too deep; the stack
  is never deeper than the braces that were counted; and what is accepted is a file
  as linking takes it for granted (`ParsedFile`).
- `DeclaredExactly`: the descriptors are those of the declarations in the source, each
  with its own parts and under its full name; a skipped group leaves nothing.

Those of loading and linking compare what is accepted with the files as parsed:

- `LoadedExactly`, `RefusalsExact`, `VisibilityExact`: what is loaded is what is
  reachable; a refusal has its cause and a registry without one is accepted; each
  file sees the least set closed under re-exports. `LoadsAtomically` is the
  refinement, liveness included.
- `NothingAmbiguous`: no two declarations of an accepted registry share a name, and
  no two extensions of a message a number, in whichever files they are; and nothing
  is refused as a conflict or a duplicate that is none.
- `MergeComplete`: the merge loses and changes nothing.
- `TypesBound`: every type is the innermost declaration of its name in the files
  that are seen, messages before enums.
- `FeaturesNearest`: every declaration has the nearest setting of each feature.
- `CodecReady`: every accepted field is one the codec handles. It is what the
  models of the codec assume about descriptors.
- `SettingsFit`: a custom option that is set is the one in scope, for that sort of
  declaration, and takes the literal.

Those of JSON:

- `ScanBounded`: recursion, key sets and counters of the scan stay within the limits
  for any text. `ScanExact`: it refuses a document exactly when a limit is passed or a
  key repeated somewhere in the tree. `Terminates`: it ends on every text.
- `DecodedFits`: what `decode_json` returns fits its descriptor at every depth, and no
  field got two members of the document. `IgnoresExactly`: `ignore_unknown_fields`
  changes the result to that of the document without its unknown parts and nothing
  else; without it nothing is dropped. `SurvivesRoundTrip`: whatever fits is written,
  read back by the strict decoder, and means the same, except for the nulls that
  `Loses` names.
- `StrictReadingInverts`, `WireExact`: what is written is read back under every policy;
  strict readers accept one form of a value; lenient ones lose no bit; keys are in
  range. `IntegersExact`, `TimesExact`, `TextsInvert`: the texts of JSON stand for
  the exact number, instant, duration, bytes or mask.

**Bounds.** `MaxInput` bounds the bytes of the input; option sets with a smaller
`max_message_bytes` bound it further. A scalar occurrence takes two bytes here, so 10
bytes are five scalar occurrences, or two submessages with content and more. A
displacement needs two occurrences, a demotion chain three, a merge conflict two
submessages of one occurrence each (eight bytes), a wrongly demoted map record
three entries (eleven bytes). Limits are set to 1 or 2 and so are reached and exceeded. Two
scalar values are enough to tell an old value from a new one and a declared
number from an undeclared one; larger values play no role since nothing computes with
them. The round trip has six bytes where unknown fields and lists are free and eight,
with at most four occurrences, where submessages merge and values displace each
other: enough for two merged submessages or three displaced values. For imports, three sources have every cycle and diamond with a weak edge, four layered
ones a re-export of a re-export next to a direct import. In `schema` a rule relates
at most two declarations, which are placed in one file or in two, and three scopes. A
rule of the builder relates two statements, or two and the language, and the third of
an order is what may come between, before or after them (`allow_alias`, a reservation, a package).
In `json` two members are enough for an alias, a oneof conflict or an ignored member
next to a kept one; the order of more changes nothing. In `scalars` bytes of two data
bits make the longest varint four bytes with one bit in the last, as the tenth byte
has in the code; the nanosecond has three digits and the longest duration is eleven
seconds, and the years include every leap rule and the ends of the range. The proofs
below remove the bounds for the theorems.

**Fairness.** `WF_vars(Next)` in `Decoder` and `ImportGraph`, `WF_vars(Step)` in
`JsonScan`: the code is a loop in one
thread that waits for nothing, so as long as a step is possible one is taken. No
particular action is assumed fair; the environment's choice of input is free.
`Registry` demands that parsing is decided; the fairness of `ImportGraph` is what
implements it. The other specifications are used for safety only and state none.

**Deadlock** is checked wherever the code loops: `Terminated` (in
`RoundTrip` also `Stop` and `Done`) stutters after a result, and every other
state has a step. `JsonMapping` and `Scalars` are calls of an application,
which ends: their configurations say `CHECK_DEADLOCK FALSE`.

### Disagreements between the code and its documentation

Three have a run that ends in a counterexample; the lines are quoted in
`PROJECT.json`.

| run | what happens |
|---|---|
| `finding_oneof_merge` | a submessage received twice with different members of a oneof keeps both: `merge_message` does not look at oneofs |
| `finding_merge_limits` | two occurrences of a submessage, each within `max_repeated_values`, merge beyond it |
| `finding_name_hidden` | a field that names an enum nested in its own message gets the type of an outer message of the same name: `resolve` looks for a message in every scope first |

Others are exempted by name in the passing properties, which say where the
corresponding promise does hold:

- A message member that displaces a scalar member of its oneof is tagged
  `DuplicateMerged`, and the displaced record stays live. `TrailNamesRetained` is
  about slots of scalars.
- For map keys 0, 1, 0 the record of key 1 is demoted, since the search goes by field
  name only. `TrailNamesRetained` counts the live records of a map.
- An undeclared number of a closed enum is retained as a map value, and refused by
  the encoder (`StrictlyDecodedEncodes`, `StrictDomains`).
- Required fields are checked for each occurrence of a submessage, before the merge
  that would complete it (`RequiredPresent` is about what is kept in singular fields).
- `v = 1, v = 0` with an implicit `v` decodes to 0; `PreserveAll` writes the displaced
  1 and skips the default, so decoding the output gives 1 (`Restored`).
- `encode_json` writes null for an element or map value of type `NullValue` or for a
  `Value` of null, and `decode_json` does not read null there (`Loses`).
- An `Any` of a special type accepts any further member, also in strict mode
  (`json.rs` 872-876; `PrunedAny`).
- An unknown enum number is written as a number, although the
  documentation of `encode_json` promises an error.
- A singular custom option may be set twice if one of the two names is absolute
  (`schema.rs` 2563; `SetBefore` compares spellings).
- `LEGACY_REQUIRED` set for a file reaches its repeated fields, which the codec then
  demands to be present (`codec.rs` 2142-2149); `CodecReady` does not speak of it.
- A package statement applies to the declarations after it only (`schema.rs` 1142-1153,
  2872-2880), although the field that holds it is commented "Package applied to
  top-level declarations in this source" (`schema.rs` 1031); `DeclaredExactly` says as what
  it applies.
- The leading dot of the type that an extension extends is dropped before lookup
  (`schema.rs` 1604), so an absolute name is looked up like a relative one.
- Durations with two signs or a plus, and timestamps with signed parts, are accepted
  (`DurationsExact`, `TimestampsExact` say as what).

## 4. What is proved

TLAPS checks the following for every schema, every set of options, every bound
and every registry that satisfies the named assumptions.

**`DecoderProofs`**. The inductive invariant `Inv` is
`TypeOK` strengthened by what ties a frame to its neighbours: which kind may
stand on which, that a frame's field belongs to the caller's type, that a packed
frame has only its own field, that depth grows by one for a nested message and
not for an entry, and that every stored address fits below the recursion limit
when the frame's depth is added.

- `TypeCorrectness`: `Spec => []TypeOK`. The lemmas about `DynMessage` that come
  first in the module are its substance: removal, displacement, storing and the
  pointwise merge return well-formed messages.
- `RecursionIsBounded`: `Spec => []DepthBounded`. The depth of a stored tree is
  not bounded by the stack that is left when it is stored, which is why `Inv`
  carries the bound for every address of every frame.
- `OneofsAreExclusive`: `Spec => []OneofExclusive`. Inserting and merging displace
  the siblings first; the other operations add no singular field.

They rest on `DescAssumption`, `ValueAssumption`, `WireAssumption` and
`OptionsAssumption`.

**`RetentionProofs`** (on `DecoderProofs`). Four properties of what `decode` keeps:
`CollectionsAreBounded` (`CollectionsBounded`), `RequiredArePresent`
(`RequiredPresent`), `StrictIsUnambiguous` (`StrictDuplicates`) and `DomainsAreStrict`
(`StrictDomains`). None is inductive alone, and none follows from the frame it is
about: `Inv2` says that every activation keeps its own message in order (`Kept`) and
that every callee is still what its caller called it for (`Link`). A packed loop
counts with the elements its caller already holds, because its record is stored at
once at the end; a submessage that began as no duplicate is still none when it
returns, because the caller does not run in between. `Kept` has a part for each
property (`Held`, `Complete`, `Declared`) and, when duplicates are rejected,
`Unambiguous`: the trail names no slot twice, and a slot the trail names is present,
so that presence, which is what the code tests, stands for the trail. That
`StrictDomains` holds for messages needs the last part of `DescAssumption`: a field
is of an enum or of a message, never both.

**`ContentProofs`** (on `RetentionProofs`).

- `TrailsGrow`: the action property `TrailGrows`, from `Inv` and the fact that there
  is no activation before the call (`Inv3`). Every step drops all activations, calls,
  or goes on with the activation at the top or its caller (`GoOnGrows`,
  `CallGrows`); what is stored leaves the trail alone (`StoringKeeps`); and a
  demotion changes the one record it chooses (`DemotedRecord`). That the choice
  exists needs a last element of a set of positions (`LastPosition`).
- `TrailsNameRetained`: `Spec => []TrailNamesRetained`. The activation that goes on
  does one of a few things (`Turn`), of which one completes an occurrence, and what
  that stores is one of eight forms (`Stores`): a number of an enum, a scalar, an
  element, a message, a packed record, a submessage, a map entry, or a field left
  unknown. Both are stated once and are what the next results build on as well. A
  slot names what it retains (`Names`) before the occurrence and after it because
  every path that removes a value either demotes its record or is followed by the
  record that replaces it; a map needs the lemma that demoting the record of a key
  that is present and recording it again leaves as many live records as keys.

`ContentsAreHistory`: `Spec => []ContentsFollowHistory`, which compares the contents of every node with
folds over its whole trail. What a trail tells is the concatenation of what its
records tell (`Told`), and telling distributes over the concatenation of trails;
the last occurrence of a slot and the elements of a collection are then those of
the later trail if it has any, else of the earlier one. So a node follows its trail
when one more record is pushed, when a submessage is stored, and when two trees are
merged address by address, which merges both contents and trails. The members of
oneofs are the exception below the root of a tree: there two of them may be left by a
merge, and the theorem says nothing of them. `FollowInv` says
it of every activation, where a packed loop is a message whose elements its caller
does not hold yet.

`CountersDoPay`: `Spec => []CountersPayForTrail`, about the records of all the
activations and of every submessage merged into them, counted and summed. A step
moves records: those of a submessage that ends go from its own activation to an
address of its caller's message, behind those that the address has already. So the
records after a step are mapped one to one to where they were (`RecordsCarried`),
and at most one is new (`OneRecorded`), for which an occurrence has been counted
and its bytes charged (`PaysRecord`, a part of `Turn`). `CountersInv` adds only that
the records are finitely many. That an open activation pays for the record it will
leave is why the property counts the stack with the records: at the end of a
submessage nothing is counted, and one activation becomes one record. The sum is
the library's fold; that it splits into a term and the rest is shown like the other
facts about folds, from a function over the subsets (`SumByParts`).

**`ScalarProofs`**. `StrictlyOneForm` (`StrictReadingInverts`) and `WireLosesNothing`
(`WireExact`), for all widths that satisfy `WidthAssumption` (the data bits of a byte,
the bits of a key's wire type and of the narrow numbers are positive; the first two
are less than the third, and that is less than the widest) and any byte sequences as
inputs (`ScalarsAssumption`): 7, 3, 32 and 64 in the code, 2, 1, 5 and 7 in the run.

- The provers know nothing of `2 ^ n` for a variable `n`. That it is positive, doubles
  and turns sums into products is shown by counting: the subsets of `1 .. n` are so
  many (`FS_SUBSET`). Quotient and remainder are the one pair that makes the number
  (`Makes`, `DividedAs`), from which the other facts about them follow.
- The number at place `i` is worth `2 ^ (DataBits * i)` (`Place`). `vi` is recursive, so
  it is first given a closed form (`Written`: as many digits as are needed, each but
  the last with the continuation bit), which equals it by least counterexample
  (`ViWrites`); the same for what bytes spell (`DigitsSpell`, `SpelledDigits`).
- An encoding ends at its first byte without the bit (`EndsAt`). What is accepted spells
  a number in range: at the longest length that is what the check of the last byte is
  for (`SpelledInRange`). If its length is that of the written form, its digits are
  those of its number, and it is that form (`ShortestIsWritten`): comparing the lengths,
  as the code does, is enough.
- A value is the residue of its number, sign extended or in zigzag (`ValueComesBack`,
  `ValueIsOfNumber`, one case for each kind).

**`RegistryProofs`**. `Inv` has one conjunct per loop of `ImportGraph`. `LoadInv`:
what is loaded is reachable and was pending, and what a loaded source imports is
loaded or pending. `CheckInv` and `VisitInv` describe the depth-first visit: the
paths on the stack are those being visited, each imports the next, and what a
visited path imports has been visited, so no set of visited paths contains a cycle.
`SeeInv`: the paths seen so far are within every set closed under re-exports, and
what is not in the frontier has been expanded. `ReasonInv`: each error has its
cause. From it follow `LoadsExactly`, `RefusalsAreExact` and `VisibilityIsExact`, for
any finite set of paths (`RegistryAssumption`). `LoadingIsAtomic`: the safety part of
`LoadsAtomically`. The initial states map to initial states; from `Inv` every step of
the loops is a step of `Registry` or a stutter: `Refuse` when a loop fails, since the
reason is a defect, `Accept` when the last loop ends, since by then every defect is
excluded and the visibility is the least one.

**`LinkingProofs`**. All six properties of `Linking`, for every finite registry of
parsed files, every visibility among them and every order of their paths. The
properties speak of the files as parsed and of the accepted schema only; in between,
some files are resolved and others are not, and each is resolved against both. The
inductive invariant `LinkInv` (`LinkInvariant`) bridges this:

- `FilesInv`: every file keeps what resolving leaves alone (`Kept`: names, numbers,
  options, ranges), so that lookup finds the same names before and after
  (`VisibleIsSeen`); a file still to visit is as parsed; and a file visited is
  `Linked`: its references bound to the innermost declaration, its features the
  nearest settings, its fields fit for the codec, its extension numbers apart. What
  `Linked` says names only the file itself and what others keep, so that it survives
  the resolution of the others.
- `MergeInv`: the schema is the union of the files merged so far, which have pairwise
  disjoint names and numbers (`MergedFrom`), since the merge compares a file with the
  schema and not with a file; and an accepted schema has no conflict.
- `ReasonInv`: a refusal for ambiguity has two declarations to blame. The namespace
  check compares symbols of five sorts in one walk; `ConflictIsShared` shows that it
  finds a conflict if and only if two declarations share a name.
- `SettingsInv`, for `SettingsFit`: a file whose settings were checked has them
  bound, with the walk along the path as a witness (`Walks`), which leads to the same
  type through the merged schema as through the visible files (`WalkLeads`).

From it follow `MergingIsComplete`, `NothingIsAmbiguous`, `TypesAreBound`,
`FeaturesAreNearest`, `CodecIsReady` and `SettingsDoFit`. Inheritance and the type at
the end of a path are recursive functions; that they are what the properties say is
shown by a least counterexample (`MessageFeaturesAre`, `ValueTypeWalks`).
They rest on `LinkAssumption`: a registry is loaded, its files are finitely many,
each sees itself and other files of it (`VisibilityIsExact` above), and each is as
`parse_file` returns it (`ParsedFile`). What `ParsedFile` says of a field
beyond its type is what `parse_field` has put in order: a repeated field has no
default, a singular one no packing, a oneof member is optional and has presence,
an explicit `packed` has a value. `SchemaAssumption` and `ReasonAssumption` say that
`None` is no name, no Boolean and no error.

**`JsonScanProofs`**. The inductive invariant is `TypeOK`, `ScanBounded` and the
finiteness of the key sets. `ScanTyped` and `ScanKeepsLimits` hold for every set of
texts, well formed or not, and every limits (`ScanAssumption`).

**`ParsingProofs`**. `NestingIsBounded`: the builder never has more blocks open
than `max_nesting_depth` (`NestingBounded`, the first conjunct of `ParsesExactly`).
`Inv` says that the open blocks are as many as the depth counted by `Depths` at the
cursor, which `SkipGroup` keeps because it resumes where the depth is what it was
before the group, and that after `Scan` no position is deeper than the limit. It
rests on `BuilderAssumption`: a source is a finite sequence of statements as the
grammar makes them (`Grammatical`), the language first, with the blocks balanced.

The module then joins the two halves. `BuiltInv`: while a source is parsed, every open
block is `Sound` (its fields are in order, the types it names are types) and the
descriptors so far are a `ParsedFile`; `FieldInOrder` derives what linking takes for
granted of a field from the refusals of `parse_field`, and `WithCustomOption` needs
the comparison with the options before it. So `BuildingIsHandedOn`: what `parse_file`
returns is what linking expects, the hypothesis of `LinkingProofs` on one file; and
`ParsingIsSound`, the six properties of linking for `ParsingSpec`, the specification
that run `schema` checks: any source, built and linked, and any registry.

Last, what is built is what the source declares: `BuildingIsExact`
(`ParsesExactly`) and `DeclaringIsExact` (`DeclaredExactly`). Both speak of the
source and of the end only; the inductive invariant `ExactInv` says at every
statement what the builder's state is (`Tracked`), in terms of the positions before
the cursor:

- `StackTracked`: the blocks of the stack are those of the source that are open at
  the cursor (`Around`), one at each level, none of them a group; and each has
  gathered what its statements before the cursor say (`BlockTracked`). A sequence
  the code pushes to *lists* the statements of one sort in one block, in their order
  (`Lists`), a sequence it extends *joins* theirs (`Joins`). The members of a oneof go
  to the list of the message, which is why that is stated of all statements whose
  innermost message it is.
- `Made`: the descriptors are those of the blocks that have ended. A block that ends
  is the one open at the last level, so what it has gathered is all it holds.
- `InOrderBefore`: no statement that was read is out of order by itself
  (`FitBefore`), and none at odds with another. What the code compares at once
  (methods, oneofs, extensions) is apart before the cursor; what it compares when a
  block ends (fields, values, reserved names and numbers) is in order in the blocks
  that have ended (`EndedInOrder`). That is why a source is refused for a clash even
  if the clash comes late, and why `Defective`, which compares all pairs of
  statements of the whole source, is false when the end is reached.

The proof has one lemma for each action (`Outcome`: the step refuses a source that
is defective, or tracks one statement more), on top of lemmas about positions: how
`Around`, `Owner`, `Innermost` and `Before` change from one statement to the next,
by the kind of the statement, and that a skipped group resumes with them as if it
had not been there (the depths of its statements are above that of its first). The
imports need a lemma about sorted positions (`Sorted`): adding a greater one appends
it. A position is the n-th of a set if n of the set are up to it; the sorting operator
of the library takes an operator as a parameter, about which nothing can be cited.

**Induction over data.** The induction theorems of the library cannot be
instantiated, so a fact about a recursive function or a fold is proved by a least
counterexample: the set of the naturals where it fails has a least element
(`WellFoundedInduction`), which is neither the base nor a successor. Recursive
operators, as opposed to functions, have no proofs at all.

**Only model-checked**: liveness (`Terminates`, and the liveness part of
`LoadsAtomically`), the
round trip (recursive sizes), `ScanExact` and everything about JSON values
(recursive definitions), and the texts of JSON scalars: `IntegersExact` and
`TimesExact` need powers of ten, for which the counting argument made for two has no
equal yet, and `TextsInvert` the same facts about base64 and masks that are proved
here about varints. That a source without a defect is not only never
refused but is parsed in the end is, like all progress, shown by the runs (no
deadlock).

## 5. What is not modelled, and what is left

Not modelled in the modules above: fixed-width scalars and UTF-8 (the standard
library), the prescan of a delimited field as a
recursion of its own, the contents of messages inside maps and repeated fields of
the binary decoder,
fields the application adds to a message (`add_field`), the order of map entries
and float normalization in the encoder, `max_source_bytes` and `max_tokens`, empty statements and custom option settings in
sources, displaced messages replayed by
`PreserveAll` (no message is a oneof member in `RoundTrip`), floating-point texts
and the characters of a timestamp, the JSON parser behind the scan and
`max_input_bytes`,
the wording and offsets of errors, running out of memory or native stack.

Left: a proof of the scan of a JSON text against its recursive reference, once that
is a function.

Left out for good: the grammar and lexer (generated, or text without shared
state), the table of built-in options (`validate_options`: independent checks),
the drivers (fuzz target,
benchmarks, conformance testee, examples) and the vendored conformance suite.
