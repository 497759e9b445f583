----------------------------- MODULE MCLinking ------------------------------
(***************************************************************************)
(* Registries of two files: main imports lib, and lib does not see main.   *)
(* Each family is about one of the rules of linking.                       *)
(***************************************************************************)
EXTENDS Parsing

CONSTANTS main, lib

TwoFiles == {main, lib}

Registry(m, l) ==
  [files |-> [p \in TwoFiles |-> IF p = main THEN m ELSE l],
   sees  |-> [p \in TwoFiles |-> IF p = main THEN {main, lib} ELSE {lib}]]

-----------------------------------------------------------------------------
(* What parsing yields.                                                    *)

File(syntax) ==
  [syntax |-> syntax, options |-> Nothing, features |-> Defaults(syntax),
   messages |-> Nothing, enums |-> Nothing, services |-> Nothing,
   custom_options |-> Nothing, extensions |-> Nothing, settings |-> {}]

Message(syntax) ==
  [fields |-> Nothing, extension_ranges |-> {}, options |-> Nothing,
   features |-> Defaults(syntax)]

Enum(syntax, values) ==
  [values |-> values, syntax |-> syntax, options |-> Nothing, features |-> Defaults(syntax)]

\* parse_field: an unlabelled field of a modern file tracks no presence yet, and
\* a repeated one of a type not known to be unpackable gets the file's default.
Field(syntax, kind, number) ==
  [number |-> number, kind |-> kind, cardinality |-> "optional", oneof |-> None,
   packed |-> None, packed_explicit |-> FALSE, explicit_presence |-> syntax = "proto2",
   default |-> FALSE, options |-> Nothing, features |-> Defaults(syntax)]

Repeated(syntax, kind, number) ==
  [Field(syntax, kind, number) EXCEPT !.cardinality = "repeated",
     !.packed = IF kind.map \/ kind.of \in {"string", "bytes"} THEN None ELSE Modern(syntax),
     !.explicit_presence = ~kind.map]

Ref(path) == [Kind("message") EXCEPT !.name = path]

-----------------------------------------------------------------------------
(* Names: the type of a field of p.A, with declarations of the name in     *)
(* every scope and in both files.                                          *)

WithDeclared(file, n, what) ==
  CASE what = "message" -> [file EXCEPT !.messages = (n :> Message(file.syntax)) @@ @]
    [] what = "enum" -> [file EXCEPT !.enums = (n :> Enum(file.syntax, {})) @@ @]
    [] what = "none" -> file

Declared == {"none", "message", "enum"}

References ==
  {[Ref(n) EXCEPT !.absolute = abs] : n \in {<<"B">>, <<"p", "B">>}, abs \in BOOLEAN}
    \cup {[Ref(<<"B">>) EXCEPT !.map = TRUE]}

\* A field, or the endpoint of a method, of such a type.
Referring(kind, served) ==
  [File("proto3") EXCEPT
     !.messages = <<"p", "A">> :> [Message("proto3") EXCEPT
        !.fields = "f" :> IF kind.map THEN Repeated("proto3", kind, 1)
                          ELSE Field("proto3", kind, 1)],
     !.services = IF served THEN <<"p", "S">> :> {[kind EXCEPT !.map = FALSE]} ELSE Nothing]

Names ==
  {Registry(WithDeclared(WithDeclared(Referring(kind, served), <<"p", "A", "B">>, inner),
                         <<"p", "B">>, middle),
            WithDeclared(WithDeclared(File(syntax), <<"B">>, outer), <<"p", "B">>, other)) :
     kind \in References, inner \in Declared, middle \in Declared, outer \in Declared,
     other \in {"none", "message"}, syntax \in {"proto2", "proto3"}, served \in BOOLEAN}

\* lib refers to a name of its own or of main.
Hidden ==
  {Registry(WithDeclared(File("proto3"), <<"B">>, outer),
            WithDeclared(Referring(Ref(<<"B">>), TRUE), <<"p", "B">>, own)) :
     outer \in Declared, own \in Declared}

-----------------------------------------------------------------------------
(* Collisions: declarations of the name M.x.                               *)

SymbolSorts == {"message", "enum", "service", "option", "extension", "value", "field", "oneof"}

Extending(target, number) ==
  [extendee |-> Ref(target), field |-> Field("edition", Kind("number"), number)]

Option(target, number, kind) ==
  [extendee |-> <<target>>, number |-> number, kind |-> kind, cardinality |-> "optional"]

WithSymbol(file, sort) ==
  LET x == <<"M", "x">>
  IN  CASE sort = "message"   -> [file EXCEPT !.messages = (x :> Message("edition")) @@ @]
        [] sort = "enum"      -> [file EXCEPT !.enums = (x :> Enum("edition", {})) @@ @]
        [] sort = "value"     -> [file EXCEPT !.enums =
                                    (<<"M", "E">> :> Enum("edition", {"x"})) @@ @]
        [] sort = "service"   -> [file EXCEPT !.services = x :> {}]
        [] sort = "option"    -> [file EXCEPT !.custom_options =
                                    x :> Option("T", 60000, Kind("number"))]
        [] sort = "extension" -> [file EXCEPT !.extensions = x :> Extending(<<"T">>, 100)]
        [] sort = "field"     -> [file EXCEPT !.messages = (<<"M">> :>
                                    [Message("edition") EXCEPT !.fields =
                                       "x" :> Field("edition", Kind("number"), 1)]) @@ @]
        [] sort = "oneof"     -> [file EXCEPT !.messages = (<<"M">> :>
                                    [Message("edition") EXCEPT !.fields = "y" :>
                                       [Field("edition", Kind("number"), 2) EXCEPT
                                          !.oneof = "x", !.explicit_presence = TRUE]]) @@ @]

\* The message that the others extend.
Extensible == [Message("edition") EXCEPT !.extension_ranges = {100, 101},
                 !.fields = "g" :> Field("edition", Kind("number"), 101)]
Base == [File("edition") EXCEPT !.messages = <<"T">> :> Extensible]

Collisions ==
  {Registry(WithSymbol(File("edition"), s), WithSymbol(Base, t)) : s \in SymbolSorts, t \in SymbolSorts}
    \cup {Registry(WithSymbol(WithSymbol(File("edition"), s), t), Base) :
            s \in SymbolSorts, t \in SymbolSorts}

-----------------------------------------------------------------------------
(* Extensions and custom options: numbers, targets and settings.           *)

Extensions ==
  {Registry([File("edition") EXCEPT
               !.messages = <<"U">> :> Message("edition"),
               !.enums = <<"V">> :> Enum("edition", {}),
               !.extensions = (<<"e">> :> Extending(<<t>>, i))
                              @@ (<<"U", "e">> :> Extending(<<"T">>, j))],
            [Base EXCEPT !.extensions = IF k = 0 THEN Nothing
                                        ELSE <<"h">> :> Extending(<<"T">>, k)]) :
     t \in {"T", "U", "V", "W"}, i \in {99, 100, 102}, j \in {100, 101, 102}, k \in {0, 100, 102}}

Ranged ==
  {[r EXCEPT !.files[lib].messages[<<"T">>].extension_ranges = 99 .. 102] : r \in Extensions}

Use(n, abs, path, value) ==
  [option |-> [Ref(n) EXCEPT !.absolute = abs], path |-> path, value |-> value]

Optional ==
  [File("proto3") EXCEPT
     !.messages = (<<"MessageOptions">> :> Message("proto3"))
                  @@ (<<"R">> :> [Message("proto3") EXCEPT
                        !.fields = ("s" :> Field("proto3", Kind("string"), 1))
                                   @@ ("r" :> Field("proto3", Ref(<<"R">>), 2))]),
     !.custom_options = (<<"o">> :> Option("MessageOptions", 50000, Ref(<<"R">>)))
                        @@ (<<"p", "o">> :> Option("MessageOptions", 50001, Kind("bool")))]

Set(target, scope, uses) ==
  [File("proto3") EXCEPT !.messages = <<"p", "A">> :> Message("proto3"),
     !.settings = {[target |-> target, scope |-> scope, uses |-> uses]}]

Uses ==
  {Use(n, abs, path, value) :
     n \in {<<"o">>, <<"p", "o">>, <<"x">>}, abs \in BOOLEAN,
     path \in {<<>>, <<"s">>, <<"r", "s">>, <<"s", "r">>, <<"t">>},
     value \in {"boolean", "string", "aggregate", "identifier"}}

\* Two settings of a list, out of those that may stand alone, or one of any.
Settings ==
  {Registry(Set(target, <<"p", "A">>, <<u>>), Optional) :
     target \in {"MessageOptions", "FieldOptions"}, u \in Uses}
  \cup
  {Registry(Set("MessageOptions", <<"p", "A">>, <<u, v>>),
            [Optional EXCEPT !.custom_options[<<"p", "o">>].cardinality = c]) :
     u, v \in {Use(<<"o">>, FALSE, <<>>, "boolean"), Use(<<"p", "o">>, TRUE, <<>>, "boolean"),
               Use(<<"o">>, TRUE, <<"s">>, "string"), Use(<<"o">>, TRUE, <<"r", "s">>, "string")},
     c \in {"optional", "repeated"}}

\* Options of both files, with names and numbers of their own or not.
SharedOptions ==
  {Registry([File("proto3") EXCEPT !.custom_options = n :> Option(t, i, Ref(<<k>>))],
            Optional) :
     n \in {<<"o">>, <<"q">>}, t \in {"MessageOptions", "FileOptions"}, i \in {50000, 50002},
     k \in {"R", "X"}}

-----------------------------------------------------------------------------
(* Features: one of them, set at some of four levels.                      *)

Setting(x, v) == IF v = "unset" THEN Nothing ELSE x :> v

FieldsOf(syntax) ==
  LET singular(kind) == Field(syntax, kind, 1)
      repeated(kind) == Repeated(syntax, kind, 1)
  IN  {singular(Kind("number")), singular(Kind("string")), singular(Ref(<<"A">>)),
       singular(Ref(<<"E">>)), repeated(Kind("number")), repeated(Kind("string")),
       repeated(Ref(<<"A">>)), repeated(Ref(<<"E">>)),
       repeated([Kind("number") EXCEPT !.map = TRUE]),
       [repeated(Ref(<<"A">>)) EXCEPT !.packed = TRUE, !.packed_explicit = TRUE],
       [repeated(Kind("number")) EXCEPT !.packed = FALSE, !.packed_explicit = TRUE],
       [singular(Kind("number")) EXCEPT !.oneof = "o", !.explicit_presence = TRUE],
       [singular(Ref(<<"E">>)) EXCEPT !.default = syntax # "proto3"],
       [singular(Ref(<<"A">>)) EXCEPT !.default = syntax # "proto3"]}

Featuring(syntax, x, atFile, atMessage, atNested, atField, field) ==
  LET f == [field EXCEPT !.options = Setting(x, atField)]
  IN  [File(syntax) EXCEPT
         !.options = Setting(x, atFile),
         !.messages = (<<"A">> :> [Message(syntax) EXCEPT !.options = Setting(x, atMessage)])
                      @@ (<<"A", "B">> :> [Message(syntax) EXCEPT
                            !.options = Setting(x, atNested), !.fields = "f" :> f]),
         !.enums = (<<"E">> :> Enum(syntax, {"v"}))
                   @@ (<<"A", "B", "F">> :> [Enum(syntax, {"w"}) EXCEPT
                         !.options = IF x = "enum_type" THEN Setting(x, atField) ELSE Nothing])]

\* Two values of each feature, unset, and a value of another feature.
Values(x) ==
  CASE x = "field_presence" -> {"unset", "IMPLICIT", "LEGACY_REQUIRED"}
    [] OTHER -> {"unset"} \cup FeatureValues[x]

FeatureFamily ==
  UNION {{Registry(Featuring("edition", x, i, j, k, l, f), File("proto2")) :
            i \in Values(x) \cup {"OTHER"}, j \in Values(x) , k \in Values(x), l \in Values(x),
            f \in FieldsOf("edition")} : x \in {"field_presence"}}
  \cup
  UNION {{Registry(Featuring("edition", x, i, j, "unset", l, f), File("proto2")) :
            i \in Values(x), j \in {"unset", CHOOSE v \in FeatureValues[x] : TRUE},
            l \in Values(x), f \in FieldsOf("edition")} : x \in Feature}
  \cup
  {Registry(Featuring(syntax, "field_presence", v, "unset", "unset", "unset", f), File("proto3")) :
     syntax \in {"proto2", "proto3"}, v \in {"unset", "EXPLICIT"},
     f \in FieldsOf("proto2") \cup FieldsOf("proto3")}

AllRegistries ==
  Hidden \cup (Collisions \cup (Extensions \cup (Ranged \cup (Settings \cup (SharedOptions \cup
    (Names \cup FeatureFamily))))))
=============================================================================
