----------------------------- MODULE MCJsonScan -----------------------------
(***************************************************************************)
(* The texts of small documents, the same texts with a token dropped, and  *)
(* every short text.                                                       *)
(***************************************************************************)
EXTENDS JsonDocument

MCKey == {"a", "b"}

Leaves == {<<"scalar">>, <<"string", "a", 1>>, <<"string", "a", 3>>}

Lists(S, n) == UNION {[1 .. k -> S] : k \in 0 .. n}

\* Keys in two spellings, one that is no key, and a long one.
Named(S) == {<<k[1], k[2], d>> : k \in {<<"a", 1>>, <<"a", 2>>, <<"b", 1>>, <<None, 1>>}, d \in S}

Around(S, n) == {<<"array", ds>> : ds \in Lists(S, n)} \cup {<<"object", ms>> : ms \in Lists(Named(S), n)}

Flat == Leaves \cup Around({<<"scalar">>, <<"string", "a", 3>>}, 2)
Nested == Around({<<"scalar">>, <<"array", <<>>>>, <<"object", <<>>>>,
                  <<"object", <<<<"a", 1, <<"scalar">>>>>>>>, <<"array", <<<<"scalar">>>>>>,
                  <<"array", <<<<"array", <<<<"scalar">>>>>>>>>>}, 2)
Wide == Around({<<"scalar">>}, 3)

MCDocuments == Flat \cup Nested \cup Wide

Without(s, i) == SubSeq(s, 1, i - 1) \o SubSeq(s, i + 1, Len(s))
Whole == {TextOf(d) : d \in MCDocuments}
Damaged == UNION {{Without(TextOf(d), i) : i \in DOMAIN TextOf(d)} : d \in Flat}

Tokens == UNION {{Sign(p)[1] : p \in Punctuation \cup {"scalar", "open"}}, {Quoted("a", 1)[1]}}
MCTexts == Whole \cup Damaged \cup Lists(Tokens, 4)

Limit(depth, fields, values, bytes) ==
  [max_nesting_depth |-> depth, max_object_fields |-> fields,
   max_array_values |-> values, max_string_bytes |-> bytes]
MCLimits == {Limit(9, 9, 9, 9), Limit(1, 2, 2, 3), Limit(2, 1, 2, 9), Limit(2, 2, 1, 4), Limit(0, 9, 9, 9)}
=============================================================================
