--------------------------- MODULE MCJsonMapping ---------------------------
(***************************************************************************)
(* Documents of up to two members for a message that has a field of each *)
(* sort, documents for the well-known types, and messages that come from   *)
(* the wire.                                                               *)
(***************************************************************************)
EXTENDS JsonMapping

Plain(name) ==
  [name |-> name, names |-> {name}, writes |-> name, kind |-> "int", of |-> None,
   key |-> None, card |-> "optional", oneof |-> None, explicit |-> FALSE]
Holds(name, kind, of) ==
  [Plain(name) EXCEPT !.kind = kind, !.of = of, !.explicit = (kind = "message")]
List(name, kind, of) ==
  [Holds(name, kind, of) EXCEPT !.card = "repeated", !.explicit = TRUE]
MapOf(name, key, kind, of) ==
  [Holds(name, kind, of) EXCEPT !.card = "repeated", !.key = key]
In(group, f) == [f EXCEPT !.oneof = group, !.explicit = TRUE]

MCFields ==
  [Packet |->
     <<[Plain("foo_bar") EXCEPT !.names = {"foo_bar", "fooBar"}, !.writes = "fooBar"],
       In("pick", Holds("big", "long", None)),
       In("pick", Holds("text", "string", None)),
       [Holds("state", "enum", "State") EXCEPT !.names = {"state", "[state]"}],
       List("states", "enum", "State"),
       MapOf("by", "int", "enum", "State"),
       MapOf("on", "bool", "message", "Value"),
       List("vals", "message", "Value"),
       [Holds("nil", "enum", "NullValue") EXCEPT !.explicit = TRUE],
       Holds("any", "message", "Any"),
       Holds("wrap", "message", "Int32Value"),
       Holds("child", "message", "Inner")>>,
   Inner |-> <<[Plain("n") EXCEPT !.card = "required", !.explicit = TRUE],
               Holds("state", "enum", "State")>>,
   Int32Value |-> <<Plain("value")>>,
   Any |-> <<Holds("type_url", "string", None), Holds("value", "payload", None)>>,
   Value |->
     <<In("kind", Holds("null_value", "enum", "NullValue")),
       In("kind", Holds("number_value", "int", None)),
       In("kind", Holds("string_value", "string", None)),
       In("kind", Holds("bool_value", "bool", None)),
       In("kind", Holds("struct_value", "message", "Struct")),
       In("kind", Holds("list_value", "message", "ListValue"))>>,
   Struct    |-> <<MapOf("fields", "string", "message", "Value")>>,
   ListValue |-> <<List("values", "message", "Value")>>]

MCWellKnown ==
  [t \in DOMAIN MCFields |->
     CASE t \in {"Packet", "Inner"} -> "no" [] t = "Int32Value" -> "Wrapper" [] OTHER -> t]

MCEnums ==
  [State     |-> [values |-> <<<<"ZERO", 0>>, <<"READY", 1>>, <<"SET", 1>>>>, closed |-> TRUE],
   NullValue |-> [values |-> <<<<"NULL_VALUE", 0>>>>, closed |-> FALSE]]

MCMin == -1
MCMax == 2
MCIntegerText ==
  ("-1" :> -1) @@ ("0" :> 0) @@ ("1" :> 1) @@ ("01" :> 1) @@ ("2" :> 2) @@ ("1e0" :> 1) @@ ("3" :> 3)
MCExponents == {"1e0"}
MCTypeUrls  == ("t/Inner" :> "Inner") @@ ("t/Int32Value" :> "Int32Value") @@ ("t/Any" :> "Any")

MCKeyOrder ==
  <<"-1", "0", "01", "1", "1e0", "2", "@type", "[state]", "a", "any", "b", "big", "by",
    "child", "false", "fooBar", "foo_bar", "n", "nil", "on", "state", "states", "text",
    "true", "vals", "value", "wrap", "x">>

-----------------------------------------------------------------------------
(* Documents.                                                              *)

Null   == <<"null">>
Num(n) == <<"number", n>>
Str(s) == <<"string", s>>
Arr(s) == <<"array", s>>
Obj(f) == <<"object", f>>
Url(u) == "@type" :> Str(u)

Inners == {<<>>, "n" :> Num(0), ("n" :> Num(1)) @@ ("state" :> Str("SET")),
           ("n" :> Num(1)) @@ ("state" :> Str("LOST")), ("n" :> Num(1)) @@ ("x" :> Null)}

Values == {Null, Num(1), Str("a"), <<"bool", FALSE>>, Arr(<<Null, Num(0)>>),
           Obj(("a" :> Null) @@ ("b" :> Arr(<<>>)))}

Anys ==
  {Obj(<<>>), Obj("n" :> Num(1)), Obj(Url("t/Lost")), Obj("@type" :> Num(1)),
   Obj(Url("t/Int32Value")), Obj(Url("t/Int32Value") @@ ("value" :> Num(1))),
   Obj(Url("t/Int32Value") @@ ("value" :> Num(0)) @@ ("x" :> Num(1))),
   Obj(Url("t/Any") @@ ("value" :> Obj(Url("t/Inner") @@ ("n" :> Num(2)))))}
    \cup {Obj(Url("t/Inner") @@ i) : i \in Inners}

\* Keys and values of Packet.
Members ==
  ({"foo_bar", "fooBar"} \X {Null, Num(0), Num(1), Num(3), Str("1e0")})
    \cup ({"big"} \X {Num(0), Str("-1"), Null})
    \cup ({"text"} \X {Str(""), Num(1)})
    \cup ({"state", "[state]"} \X {Null, Str("SET"), Str("LOST"), Num(0), Num(2)})
    \cup ({"states"} \X {Arr(<<>>), Null, Str("LOST"), Arr(<<Str("READY"), Str("LOST"), Num(1)>>),
                         Arr(<<Null>>)})
    \cup ({"by"} \X {Obj(<<>>), Obj(("1" :> Str("SET")) @@ ("01" :> Str("ZERO"))),
                     Obj("1e0" :> Num(0)), Obj(("2" :> Str("LOST")) @@ ("-1" :> Num(2))),
                     Str("LOST")})
    \cup ({"on"} \X {Obj("true" :> v) : v \in {Null, Num(1)}})
    \cup ({"vals"} \X {Null, Arr(<<Null>>), Arr(<<Num(1), Arr(<<Null>>)>>)})
    \cup ({"nil"} \X {Null, Str("NULL_VALUE"), Num(2)})
    \cup ({"any"} \X Anys)
    \cup ({"wrap"} \X {Null, Num(0), Num(2), Str("x"), Obj(<<>>)})
    \cup ({"child"} \X {Obj(i) : i \in Inners})
    \cup ({"x"} \X {Null, Num(1)})

ObjectOf(ms) == Obj([k \in {m[1] : m \in ms} |-> (CHOOSE m \in ms : m[1] = k)[2]])

Packets ==
  {ObjectOf({p[1], p[2]}) : p \in
     {p \in Members \X Members : p[1][1] = p[2][1] => p[1] = p[2]}}

MCDocuments ==
  ({"Packet"} \X (Packets \cup {Obj(<<>>), Null, Num(1)}))
    \cup ({"Value"} \X Values) \cup ({"Any"} \X Anys)
    \cup ({"ListValue"} \X {Arr(<<v, w>>) : v \in Values, w \in Values})
    \cup ({"Struct"} \X ({Obj(("a" :> v) @@ ("b" :> w)) : v \in Values, w \in Values} \cup {Null}))
    \cup ({"Int32Value"} \X {Null, Num(0), Num(2), Num(3), Str("2")})

-----------------------------------------------------------------------------
(* Messages that decode returned.                                          *)

Mess(m) == <<"message", m>>
NullV   == Mess("null_value" :> <<"enum", 0>>)
TextV   == Mess("string_value" :> <<"string", "">>)

MCFromWire ==
  ({"Packet"} \X
     ({<<>>, "nil" :> <<"enum", 1>>, "big" :> <<"long", 0>>, "state" :> <<"enum", 2>>,
       "on" :> <<"map", <<<<<<"bool", TRUE>>, NullV>>, <<<<"bool", FALSE>>, TextV>>>>>>,
       "by" :> <<"map", <<<<<<"int", 0>>, <<"enum", 0>>>>>>>>,
       ("any" :> Mess("value" :> <<"payload", "n" :> <<"int", 1>>>>)),
       ("any" :> Mess(("type_url" :> <<"string", "t/Int32Value">>))),
       ("wrap" :> Mess(<<>>)) @@ ("foo_bar" :> <<"int", 1>>)}
      \cup {"vals" :> <<"list", <<TextV, v>>>> : v \in {TextV, NullV, Mess(<<>>)}}))
    \cup ({"Struct"} \X {<<>>, "fields" :> <<"map", <<<<<<"string", "b">>, TextV>>,
                                                     <<<<"string", "a">>, NullV>>>>>>,
                         "fields" :> <<"map", <<<<<<"string", "a">>, Mess(<<>>)>>>>>>})
=============================================================================
