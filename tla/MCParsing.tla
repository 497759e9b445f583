------------------------------ MODULE MCParsing ------------------------------
(***************************************************************************)
(* Sources to parse: bodies of a message, of an enum and of a file made of *)
(* any few statements of a pool, in any order, single fields of every      *)
(* sort, and nested blocks.  The registries are those of MCLinking.        *)
(***************************************************************************)
EXTENDS MCLinking

LOCAL INSTANCE SequencesExt

UpTo(S, n) == UNION {[1 .. k -> S] : k \in 0 .. n}

Says(is) == [is |-> is]
Block(is, name, body) == <<[is |-> is, name |-> name]>> \o body \o <<Says("end")>>
Extend(n, body) == <<[is |-> "extend", of |-> Ref(n)]>> \o body \o <<Says("end")>>
Group(label) == <<[is |-> "group", label |-> label], [is |-> "oneof", name |-> "g"], Says("end"), Says("end")>>

F(name, number, label) ==
  [is |-> "field", name |-> name, number |-> number, label |-> label, kind |-> Kind("number"),
   packed |-> <<>>, defaults |-> 0, json |-> None, options |-> Nothing]
Value(name, number) == [is |-> "value", name |-> name, number |-> number]
ReservedNames(names)   == [is |-> "reserved", names |-> names, ranges |-> <<>>]
ReservedRanges(ranges) == [is |-> "reserved", names |-> <<>>, ranges |-> ranges]
SetTo(x, v)  == [is |-> "option", feature |-> x, value |-> v]
Rpc(name, n) == [is |-> "rpc", name |-> name, input |-> Ref(n), output |-> Ref(<<"T">>)]
PackageOf(n) == [is |-> "package", name |-> n]

LanguageOf(syntax) == <<[is |-> "language", syntax |-> syntax]>>
Languages == {<<>>, LanguageOf("proto3"), LanguageOf("edition")}

\* A source in a language; a plain field has a label that every syntax but
\* editions takes.
In(language, s) ==
  language \o [i \in DOMAIN s |->
    IF s[i].is = "field" /\ s[i].label = "plain"
    THEN [s[i] EXCEPT !.label = IF language = <<>> THEN "optional" ELSE None] ELSE s[i]]

-----------------------------------------------------------------------------
(* A message: every order of three out of these, with each syntax.         *)

InMessage ==
  {<<F("a", 1, "plain")>>, <<F("b", 1, "plain")>>, <<F("foo_bar", 2, "plain")>>,
   <<[F("b", 3, "plain") EXCEPT !.json = "fooBar"]>>,
   Block("oneof", "o", <<F("a", 2, None)>>), Block("oneof", "o", <<F("b", 4, None), F("foo_bar", 2, None)>>),
   Block("oneof", "a", <<>>),
   <<ReservedNames(<<"a", "o">>)>>, <<ReservedNames(<<"b", "b">>)>>, <<ReservedRanges(<<<<2, 3>>, <<5, 5>>>>)>>,
   <<ReservedRanges(<<<<5, 9>>, <<0, 1>>>>)>>, <<ReservedRanges(<<<<3, 4>>>>)>>,
   <<[is |-> "extensions", ranges |-> <<<<100, 101>>>>]>>,
   <<[F("e", 100, "plain") EXCEPT !.kind = Ref(<<"A">>)]>>,
   Block("message", "A", <<F("a", 1, "plain")>>), Group("repeated")}

Orders3(S) == {FlattenSeq(s) : s \in UpTo(S, 3)}

Messages == {Block("message", "A", b) : b \in Orders3(InMessage)}

-----------------------------------------------------------------------------
(* An enum.                                                                *)

InEnum ==
  {<<Value("x", 0)>>, <<Value("y", 0)>>, <<Value("x", 1)>>, <<Value("z", 3)>>,
   <<[is |-> "allow_alias", value |-> TRUE]>>, <<[is |-> "allow_alias", value |-> FALSE]>>,
   <<ReservedNames(<<"y">>)>>, <<ReservedRanges(<<<<-1, 0>>>>)>>, <<ReservedRanges(<<<<1, 2>>>>)>>,
   <<ReservedRanges(<<<<2, 3>>>>)>>, <<SetTo("enum_type", "CLOSED")>>}

Enums == {Block("enum", "E", b) : b \in Orders3(InEnum)}
InnerEnums == {Block("message", "M", Block("enum", "E", b)) : b \in InEnum}

-----------------------------------------------------------------------------
(* A file.                                                                 *)

InFile ==
  {<<PackageOf(<<"p">>)>>, <<PackageOf(<<"p", "q">>)>>,
   <<[is |-> "import", path |-> "lib", kind |-> "public"]>>,
   <<SetTo("field_presence", "IMPLICIT")>>, <<SetTo("field_presence", "EXPLICIT")>>,
   Block("message", "T", <<F("a", 1, "plain"), [is |-> "extensions", ranges |-> <<<<100, 101>>>>]>>),
   Block("message", "U", Extend(<<"T">>, <<F("e", 100, "plain")>>)),
   Extend(<<"T">>, <<F("e", 100, "plain")>>), Extend(<<"T">>, Group("repeated") \o <<F("e", 101, "plain")>>),
   Extend(<<"MessageOptions">>, <<F("e", 1000, "plain")>>), Extend(<<"MessageOptions">>, Group("required")),
   Extend(<<"MessageOptions">>, <<F("f", 1000, "plain")>>),
   Block("message", "MessageOptions", <<>>),
   Block("enum", "T", <<Value("x", 0)>>),
   Block("service", "S", <<Rpc("m", <<"T">>)>>),
   Block("service", "S", <<Rpc("m", <<"U">>), Rpc("n", <<"T">>), Rpc("m", <<"T">>)>>)}

-----------------------------------------------------------------------------
(* Fields and nesting.                                                     *)

Kinds == {Kind("number"), Kind("string"), Ref(<<"A">>), Ref(<<"E">>),
          [Kind("number") EXCEPT !.map = TRUE], [Ref(<<"E">>) EXCEPT !.map = TRUE]}

EveryField ==
  {[F("f", number, label) EXCEPT !.kind = kind, !.packed = packed, !.defaults = defaults,
       !.options = options] :
     number \in {1, 19000}, label \in {None, "optional", "required", "repeated"}, kind \in Kinds,
     packed \in {<<>>, <<TRUE>>, <<FALSE>>, <<TRUE, TRUE>>}, defaults \in 0 .. 2,
     options \in {Nothing, "field_presence" :> "IMPLICIT", "field_presence" :> "LEGACY_REQUIRED"}}

SomeFields ==
  {f \in EveryField : f.options = Nothing \/ (f.number = 1 /\ f.label \in {None, "repeated"})}

WithEnum(body) == body \o Block("enum", "E", <<Value("x", 0)>>)

\* A field of a message, of a oneof, and an extension.
Fields ==
  {WithEnum(Block("message", "A", <<f>>)) : f \in SomeFields}
  \cup {WithEnum(Block("message", "A", Block("oneof", "o", <<f>>))) :
          f \in {f \in SomeFields : f.label = None}}
  \cup {Block("message", "A", <<[is |-> "extensions", ranges |-> <<<<1, 2>>>>]>> \o Extend(<<"A">>, <<f>>)) :
          f \in {f \in SomeFields : f.number = 1 /\ f.kind.of = "number" /\ f.defaults < 2}}

Deep ==
  {Block("message", "A", Block("message", "B", Block("message", "A", body))) :
     body \in {<<>>, Block("message", "A", <<>>), Group("optional"),
               Block("enum", "A", <<Value("x", 0)>>), Extend(<<"A">>, <<>>)}}

Contents == Deep \cup InnerEnums \cup Fields \cup Enums \cup Orders3(InFile) \cup Messages

MCSources == {LanguageOf("proto4")} \cup {In(l, s) : l \in Languages, s \in Contents}

MCOptionMessages == {<<"MessageOptions">>}
MCWithheld == 19000 .. 19999
MCEnumNumbers == -2 .. 2
MCJsonNames == [n \in {"a", "b", "e", "f", "foo_bar"} |-> IF n = "foo_bar" THEN "fooBar" ELSE n]
=============================================================================
