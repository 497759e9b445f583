------------------------------ MODULE Scalars ------------------------------
(***************************************************************************)
(* Calls of the codec and of the JSON mapping that write one scalar or     *)
(* read one.  Bytes and texts are anything a caller hands in; every call   *)
(* is by itself.                                                           *)
(***************************************************************************)
EXTENDS Wire, JsonText, TLC

CONSTANTS
  Inputs, \* the byte sequences that are read
  Numerals, Encoded, Spans, Instants, Masks, \* texts: integers, base64, durations, ...
  ByteStrings, Nanoseconds, Days, Paths,     \* values that are written
  BookYears, \* years whose calendar is compared with a count of their days
  None

ASSUME ScalarsAssumption ==
  /\ BookYears \subseteq 1 .. 9999
  /\ Inputs \subseteq Seq(Byte)

VARIABLES
  call,  \* the function and its arguments
  result \* what it returned, None before

vars == <<call, result>>

Calls ==
  (UNION {{<<"scalar", kind, v>> : v \in ValuesOf(kind)} : kind \in Kinds})
    \cup ({"val"} \X Kinds \X Inputs \X BOOLEAN \X BOOLEAN)
    \cup ({"read_key"} \X Inputs \X BOOLEAN)
    \cup ({"integer"} \X Numerals \X BOOLEAN)
    \cup ({"base64_encode"} \X ByteStrings) \cup ({"base64_decode"} \X Encoded \X {1, 2, 9})
    \cup ({"format_duration"} \X (-MaxSeconds - 1 .. MaxSeconds + 1) \X Nanoseconds)
    \cup ({"parse_duration"} \X Spans)
    \cup ({"format_timestamp"} \X Days \X {0, 59, 3661, 86399} \X {0, 1})
    \cup ({"parse_timestamp"} \X Instants)
    \cup ({"format_mask"} \X Paths) \cup ({"parse_mask"} \X Masks)

Init == call \in Calls /\ result = None

Returns(function, value) == call[1] = function /\ result = None /\ result' = value /\ UNCHANGED call

Write == Returns("scalar", {WriteScalar(call[2], call[3])})
Read  == Returns("val", ReadScalar(call[2], call[3], call[4], call[5]))
ReadKey == Returns("read_key", read_key_with_policy(call[2], call[3]))
ReadInteger == Returns("integer", integer_from(call[2], call[3]))
EncodeBytes == Returns("base64_encode", {base64_encode(call[2])})
DecodeBytes == Returns("base64_decode", base64_decode(call[2], call[3]))
FormatDuration == Returns("format_duration", format_duration(call[2], call[3]))
ParseDuration  == Returns("parse_duration", parse_duration(call[2]))
FormatTimestamp == Returns("format_timestamp", format_timestamp(call[2], call[3], call[4]))
ParseTimestamp  == Returns("parse_timestamp", parse_timestamp(call[2]))
FormatMask == Returns("format_mask", format_mask(call[2]))
ParseMask  == Returns("parse_mask", parse_mask(call[2]))

Next ==
  \/ Write \/ Read \/ ReadKey \/ ReadInteger \/ EncodeBytes \/ DecodeBytes
  \/ FormatDuration \/ ParseDuration \/ FormatTimestamp \/ ParseTimestamp
  \/ FormatMask \/ ParseMask

Spec == Init /\ [][Next]_vars

\* The call has returned.
Returned(function) == call[1] = function /\ result # None

-----------------------------------------------------------------------------
(* On the wire.                                                            *)

\* Every value of every kind is read back as itself from what scalar writes for it,
\* under every policy of the reader, the strict ones included: no number a caller
\* may send needs a byte that is refused, and the last bit survives.
WrittenIsRead ==
  Returned("scalar") =>
    \A bytes \in result : \A strict \in BOOLEAN :
      /\ bytes \in Seq(Byte)
      /\ ReadScalar(call[2], bytes, strict, strict) = {<<call[3], Len(bytes)>>}

\* With require_minimal_varints and RejectNonCanonical, what is accepted is the one
\* form that scalar writes for the value: neither a longer varint nor bits that a
\* narrow number drops get past the check.
StrictIsCanonical ==
  Returned("val") /\ call[4] /\ call[5] =>
    \A r \in result : SubSeq(call[3], 1, r[2]) = WriteScalar(call[2], r[1])

\* Strict reading is the inverse of writing, in both directions.
StrictReadingInverts == WrittenIsRead /\ StrictIsCanonical

\* A varint that is accepted loses no bit: what the wide kinds return is the number
\* that all its bytes spell, and the narrow ones its residue.
NoBitLost ==
  Returned("val") /\ call[2] # "bool" =>
    \A r \in result :
      LET spelled == Spells(call[3], r[2])
      IN  /\ spelled < 2 ^ Width
          /\ Raw(call[2], r[1]) % 2 ^ BitsOf(call[2]) = spelled % 2 ^ BitsOf(call[2])

\* A key that is accepted has a field number in range and is all of the number that
\* its bytes spell; minimal, it is what make_key and vi write.
KeysExact ==
  Returned("read_key") =>
    \A r \in result :
      /\ r[1] \in 1 .. MAX_FIELD_NUMBER
      /\ make_key(r[1], r[2]) = Spells(call[2], r[3])
      /\ call[3] => SubSeq(call[2], 1, r[3]) = vi[make_key(r[1], r[2])]

\* Whatever the policy, numbers and keys are read as what their bytes spell.
WireExact == NoBitLost /\ KeysExact

-----------------------------------------------------------------------------
(* In JSON.                                                                *)

\* An integer spelled with a fraction or an exponent is the exact number or is
\* refused, never rounded; it is refused only if it is out of range or not
\* integral, if its digits without the point exceed an i128, or if it is a negative
\* zero for an unsigned field.
IntegersExact ==
  Returned("integer") =>
    LET t == call[2]
        digits == Number(t.whole \o t.fraction)
        scale  == Len(t.fraction) - t.exponent
        is(n)  == IF scale > 0 THEN n * 10 ^ scale = Negated(t.sign = "-", digits)
                  ELSE n = Negated(t.sign = "-", digits * 10 ^ (-scale))
        range  == IF call[3] THEN MinInt .. MaxInt ELSE 0 .. 2 * MaxInt + 1
    IN  /\ \A n \in result : n \in range /\ is(n)
        /\ (\E n \in range : is(n)) /\ t.whole # <<>> /\ digits <= Wide =>
             result # {} \/ (digits = 0 /\ t.sign = "-" /\ ~call[3])

SextetsOf(text) ==
  LET data == SelectSeq(text, LAMBDA c : c # Pad) IN [i \in DOMAIN data |-> Sextet(data[i])]

\* Bytes come back from their base64.  A text that is accepted spells the bytes that
\* are returned, up to the unused bits of its last character, with its padding whole
\* or left out, and there are no more of them than max_decoded_bytes.
Base64Exact ==
  /\ Returned("base64_encode") =>
       \A text \in result : /\ base64_decode(text, Len(call[2])) = {call[2]}
                            /\ call[2] # <<>> => base64_decode(text, Len(call[2]) - 1) = {}
  /\ Returned("base64_decode") =>
       \A bytes \in result :
         LET canonical == base64_encode(bytes)
             theirs    == SextetsOf(call[2])
             ours      == SextetsOf(canonical)
         IN  /\ Len(bytes) <= call[3]
             /\ Len(call[2]) \in {Len(canonical), Len(ours)}
             /\ Len(theirs) = Len(ours)
             /\ \A i \in 1 .. Len(ours) - 1 : theirs[i] = ours[i]
             /\ Len(bytes) % 3 = 0 => theirs = ours

\* A valid duration comes back from its text.  A text with one sign at most is the
\* duration that is returned, to the last nanosecond, and is in range; a text with
\* two signs or a plus is taken as some duration in range.
DurationsExact ==
  /\ Returned("format_duration") =>
       IF validate_duration(call[2], call[3])
       THEN \A text \in result : parse_duration(text) = {<<call[2], call[3]>>}
       ELSE result = {}
  /\ Returned("parse_duration") =>
       \A d \in result :
         LET t == call[2]
             magnitude == Number(t.whole) * Nanos + FractionOf(t.fraction)
         IN  /\ AbsoluteOf(d[1]) <= MaxSeconds /\ d[1] * d[2] >= 0
             /\ t.sign \in {"", "-"} =>
                  d[1] * Nanos + d[2] = Negated(t.sign = "-", magnitude)

LeapYearsBefore == [y \in 1 .. 10000 |-> (y - 1) \div 4 - (y - 1) \div 100 + (y - 1) \div 400]

\* A day of the calendar, counted from 1970 year by year and month by month.
Counted(year, month, day) ==
  365 * (year - 1970) + LeapYearsBefore[year] - LeapYearsBefore[1970]
    + MapThenSumSet(LAMBDA m : days_in_month(year, m), 1 .. month - 1) + day - 1

\* A timestamp comes back from its text, which names the day that a calendar names.
\* A text that is accepted has a day of its month, is the instant that the calendar,
\* the clock and the offset count, and is in years 1 to 9999.
TimestampsExact ==
  /\ Returned("format_timestamp") =>
       IF call[2] \in FirstDay .. LastDay
       THEN \A t \in result :
              /\ parse_timestamp(t) = {<<call[2], call[3], call[4]>>}
              /\ t.month \in 1 .. 12 /\ t.day \in 1 .. days_in_month(t.year, t.month)
              /\ t.year \in BookYears => Counted(t.year, t.month, t.day) = call[2]
       ELSE result = {}
  /\ Returned("parse_timestamp") /\ call[2].year \in BookYears =>
       LET t == call[2] IN
       \A instant \in result :
         /\ t.day <= days_in_month(t.year, t.month) /\ t.second < 60
         /\ instant[1] \in FirstDay .. LastDay /\ instant[2] \in 0 .. SECONDS_PER_DAY - 1
         /\ (instant[1] - Counted(t.year, t.month, t.day)) * SECONDS_PER_DAY + instant[2]
              = t.hour * 3600 + t.minute * 60 + t.second - Offset(t.zone)

\* Durations and timestamps are exact to the nanosecond, in and out.
TimesExact == DurationsExact /\ TimestampsExact

\* A mask that is written is read back as the same paths, unless a path has a comma
\* or is empty; a mask that is read and whose paths can be written is written as its
\* text without the empty paths.
MasksSurvive ==
  /\ Returned("format_mask") =>
       \/ \E i \in DOMAIN call[2] : call[2][i] = <<>> \/ "," \in ToSet(call[2][i])
       \/ \A text \in result : parse_mask(text) = {call[2]}
  /\ Returned("parse_mask") =>
       \A paths \in result : \A text \in format_mask(paths) : parse_mask(text) = {paths}

\* The texts of bytes and of masks stand for one value, that which they are written
\* for.
TextsInvert == Base64Exact /\ MasksSurvive
=============================================================================
