---------------------------- MODULE JsonDocument ----------------------------
(***************************************************************************)
(* JSON documents as trees, their texts, and the limits of                 *)
(* JsonDecodeOptions stated on the tree: the reference for JsonScan.       *)
(*                                                                         *)
(* A document is <<"scalar">>, <<"string", key, bytes>>, <<"array", ds>>   *)
(* or <<"object", ms>>, a member being <<key, bytes, document>>.           *)
(***************************************************************************)
EXTENDS JsonScan, SequencesExt

Sign(is) == <<[is |-> is, key |-> None, bytes |-> 0]>>
Quoted(key, bytes) == <<[is |-> "string", key |-> key, bytes |-> bytes]>>

\* The texts of some items with commas between.
Separated(texts) ==
  FlattenSeq([i \in DOMAIN texts |-> IF i = 1 THEN texts[i] ELSE Sign(",") \o texts[i]])

RECURSIVE TextOf(_)
TextOf(d) ==
  CASE d[1] = "scalar" -> Sign("scalar")
    [] d[1] = "string" -> Quoted(d[2], d[3])
    [] d[1] = "array"  -> Sign("[") \o Separated([i \in DOMAIN d[2] |-> TextOf(d[2][i])]) \o Sign("]")
    [] d[1] = "object" ->
         Sign("{") \o Separated([i \in DOMAIN d[2] |->
                        Quoted(d[2][i][1], d[2][i][2]) \o Sign(":") \o TextOf(d[2][i][3])])
           \o Sign("}")

\* The document, at a depth, is within the limits and repeats no key.
RECURSIVE Within(_, _, _)
Within(d, depth, l) ==
  /\ depth <= l.max_nesting_depth
  /\ CASE d[1] = "scalar" -> TRUE
       [] d[1] = "string" -> d[3] < l.max_string_bytes
       [] d[1] = "array"  ->
            /\ Len(d[2]) <= l.max_array_values
            /\ \A i \in DOMAIN d[2] : Within(d[2][i], depth + 1, l)
       [] d[1] = "object" ->
            /\ Len(d[2]) <= l.max_object_fields
            /\ \A i, j \in DOMAIN d[2] : i # j => d[2][i][1] # d[2][j][1]
            /\ \A i \in DOMAIN d[2] : /\ d[2][i][1] # None
                                      /\ d[2][i][2] < l.max_string_bytes
                                      /\ Within(d[2][i][3], depth + 1, l)

CONSTANT Documents  \* the documents whose texts are scanned

VARIABLE document   \* what the text is the text of, None for any other text

DocumentInit ==
  /\ \/ document \in Documents /\ text = TextOf(document)
     \/ document = None /\ text \in Texts
  /\ Init

DocumentNext == Next /\ UNCHANGED document

DocumentSpec == DocumentInit /\ [][DocumentNext]_<<vars, document>> /\ Fairness

\* The scan refuses the text of a document exactly when a limit is passed or a
\* key repeated, somewhere in the tree.
ScanExact ==
  status # "scanning" /\ document # None => ((status = "ok") <=> Within(document, 0, limits))
=============================================================================
