------------------------------ MODULE JsonScan ------------------------------
(***************************************************************************)
(* reject_duplicate_json_keys: the scan of a JSON text that comes before   *)
(* the parser, and with it every limit on the shape of the text.           *)
(*                                                                         *)
(* The recursion of scan_json_value is the stack: one frame for each       *)
(* object or array being scanned, so the depth of a value is the number of *)
(* frames around it.  The text is a sequence of tokens, space left out; a  *)
(* string token has the key it stands for once unescaped and the number of *)
(* bytes of its spelling between the quotes, so one key has spellings of   *)
(* several lengths.                                                        *)
(***************************************************************************)
EXTENDS Naturals, Sequences, FiniteSets

CONSTANTS
  Key,      \* what a string can stand for
  None,     \* a string that is no legal key, a token that is no string
  Texts,    \* the texts to scan
  Limits    \* the limits of JsonDecodeOptions that callers use

Punctuation == {"{", "}", "[", "]", ":", ","}

\* "scalar" is a number or a word, "open" a string without its end.
Token == [is : Punctuation \cup {"string", "scalar", "open"}, key : Key \cup {None}, bytes : Nat]

ASSUME ScanAssumption ==
  /\ None \notin Key
  /\ Texts \subseteq Seq(Token)
  /\ Limits \subseteq [max_nesting_depth : Nat, max_object_fields : Nat,
                       max_array_values : Nat, max_string_bytes : Nat]

VARIABLES
  text,
  limits,
  cursor, \* the next token
  stack,  \* the objects and arrays around it, innermost last
  stage,  \* what is read next: "value", "member", "element" or "after" a value
  status  \* "scanning", "ok" or "error"

vars == <<text, limits, cursor, stack, stage, status>>

\* names are the keys of an object so far, values counts those of an array.
Frame == [kind : {"object", "array"}, names : SUBSET Key, values : Nat]

Init ==
  /\ text \in Texts /\ limits \in Limits
  /\ cursor = 1 /\ stack = <<>> /\ stage = "value" /\ status = "scanning"

AtEnd == cursor > Len(text)
Current == text[cursor]
NextIs(is) == ~AtEnd /\ text[cursor].is = is
Top == stack[Len(stack)]
Outer == SubSeq(stack, 1, Len(stack) - 1)

\* Mutant: an error is swallowed.
Swallow == UNCHANGED vars

Fail == status' = "error" /\ UNCHANGED <<text, limits, cursor, stack, stage>>

Read(n, next) ==
  /\ cursor' = cursor + n /\ stage' = next
  /\ UNCHANGED <<text, limits, status>>

-----------------------------------------------------------------------------
(* Values.                                                                 *)

\* Mutant: the depth is looked at one level too late.
TooDeepLate == Len(stack) > limits.max_nesting_depth + 1

TooDeep == Len(stack) > limits.max_nesting_depth

\* Mutant: the quote at the end is not counted.
LongContents(token) == token.bytes > limits.max_string_bytes

\* The bytes are counted up to and with the closing quote.
TooLong(token) == token.bytes + 1 > limits.max_string_bytes

\* The value is where the scan is: at any depth the same, so a scalar can be
\* too deep.
AtValue == status = "scanning" /\ stage = "value"

RefuseValue ==
  /\ AtValue
  /\ TooDeep \/ AtEnd \/ NextIs("open") \/ (NextIs("string") /\ TooLong(Current))
  /\ Fail

OpenObject ==
  /\ AtValue /\ ~TooDeep /\ NextIs("{")
  /\ stack' = Append(stack, [kind |-> "object", names |-> {}, values |-> 0])
  /\ Read(1, "member")

OpenArray ==
  /\ AtValue /\ ~TooDeep /\ NextIs("[")
  /\ stack' = Append(stack, [kind |-> "array", names |-> {}, values |-> 0])
  /\ Read(1, "element")

StringValue ==
  /\ AtValue /\ ~TooDeep /\ NextIs("string") /\ ~TooLong(Current)
  /\ Read(1, "after") /\ UNCHANGED stack

\* Where a scalar ends: whatever comes before is taken for a part of it.
Closing(i) == i <= Len(text) => text[i].is \in {",", "]", "}"}

Scalar ==
  /\ AtValue /\ ~TooDeep /\ ~AtEnd /\ Current.is \notin {"{", "[", "string", "open"}
  /\ \E i \in cursor .. Len(text) + 1 :
       /\ Closing(i) /\ \A j \in cursor .. i - 1 : ~Closing(j)
       /\ Read(i - cursor, "after") /\ UNCHANGED stack

-----------------------------------------------------------------------------
(* Objects.                                                                *)

AtMember == status = "scanning" /\ stage = "member"

\* Mutant: one member too many.
FullLate == Cardinality(Top.names) > limits.max_object_fields

Full == Cardinality(Top.names) >= limits.max_object_fields

\* Mutant: keys are not compared.
RepeatedNever(key) == FALSE

Repeated(key) == key \in Top.names

\* Mutant: the colon is taken for granted.
MemberWithoutColon ==
  NextIs("string") /\ ~TooLong(Current) /\ Current.key # None /\ ~Repeated(Current.key)

\* A member with its colon.
MemberFollows ==
  /\ NextIs("string") /\ ~TooLong(Current)
  /\ Current.key # None /\ ~Repeated(Current.key)
  /\ cursor < Len(text) /\ text[cursor + 1].is = ":"

\* An object ends where a member could begin: also after a comma.
CloseObject ==
  /\ AtMember /\ NextIs("}")
  /\ stack' = Outer /\ Read(1, "after")

Member ==
  /\ AtMember /\ ~NextIs("}") /\ ~Full /\ MemberFollows
  /\ stack' = [stack EXCEPT ![Len(stack)].names = @ \cup {Current.key}]
  /\ Read(2, "value")

RefuseMember == AtMember /\ ~NextIs("}") /\ (Full \/ ~MemberFollows) /\ Fail

-----------------------------------------------------------------------------
(* Arrays.                                                                 *)

AtElement == status = "scanning" /\ stage = "element"

\* Mutant: one value too many.
CrowdedLate == Top.values > limits.max_array_values

Crowded == Top.values >= limits.max_array_values

CloseArray ==
  /\ AtElement /\ NextIs("]")
  /\ stack' = Outer /\ Read(1, "after")

Element ==
  /\ AtElement /\ ~NextIs("]") /\ ~Crowded
  /\ stack' = [stack EXCEPT ![Len(stack)].values = @ + 1]
  /\ Read(0, "value")

RefuseElement == AtElement /\ ~NextIs("]") /\ Crowded /\ Fail

-----------------------------------------------------------------------------
(* After a value.                                                          *)

AtSeparator == status = "scanning" /\ stage = "after" /\ stack # <<>>

Ending == IF Top.kind = "object" THEN "}" ELSE "]"

Separator ==
  /\ AtSeparator /\ NextIs(",")
  /\ Read(1, IF Top.kind = "object" THEN "member" ELSE "element") /\ UNCHANGED stack

Close ==
  /\ AtSeparator /\ NextIs(Ending)
  /\ stack' = Outer /\ Read(1, "after")

RefuseSeparator == AtSeparator /\ ~NextIs(",") /\ ~NextIs(Ending) /\ Fail

\* What follows the value of the text is left to the parser.
Finish ==
  /\ status = "scanning" /\ stage = "after" /\ stack = <<>>
  /\ status' = "ok" /\ UNCHANGED <<text, limits, cursor, stack, stage>>

Terminated == status # "scanning" /\ UNCHANGED vars

Step ==
  \/ RefuseValue \/ OpenObject \/ OpenArray \/ StringValue \/ Scalar
  \/ CloseObject \/ Member \/ RefuseMember
  \/ CloseArray \/ Element \/ RefuseElement
  \/ Separator \/ Close \/ RefuseSeparator
  \/ Finish

Next == Step \/ Terminated

\* The scan is a loop of the caller's thread.
Fairness == WF_vars(Step)

Spec == Init /\ [][Next]_vars /\ Fairness

-----------------------------------------------------------------------------
(* Properties.                                                             *)

\* Every variable has its type, and there is a frame wherever one is read.
TypeOK ==
  /\ text \in Texts /\ limits \in Limits
  /\ cursor \in 1 .. Len(text) + 1
  /\ stack \in Seq(Frame)
  /\ stage \in {"value", "member", "element", "after"}
  /\ status \in {"scanning", "ok", "error"}
  /\ stage = "member" => stack # <<>> /\ Top.kind = "object"
  /\ stage = "element" => stack # <<>> /\ Top.kind = "array"

\* The recursion of the scan, and the sets and counters it keeps, stay within
\* the limits, and its cursor within the text, at every moment and for every
\* text, well formed or not.
ScanBounded ==
  /\ cursor <= Len(text) + 1
  /\ Len(stack) <= limits.max_nesting_depth + 1
  /\ \A i \in DOMAIN stack :
       /\ Cardinality(stack[i].names) <= limits.max_object_fields
       /\ stack[i].values <= limits.max_array_values

\* The scan of any text ends.
Terminates == <>(status # "scanning")
=============================================================================
