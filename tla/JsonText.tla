------------------------------ MODULE JsonText ------------------------------
(***************************************************************************)
(* The texts that stand for numbers, bytes, durations, timestamps and      *)
(* field masks in JSON.  A text is cut into the parts its parser looks at: *)
(* signs, digits, characters of one alphabet.  A result is the set of what *)
(* is returned, empty for Err.                                             *)
(***************************************************************************)
EXTENDS Integers, Sequences, FiniteSets, SequencesExt

CONSTANTS
  Wide,           \* the largest i128
  MaxScale,       \* the most powers of ten an integer is scaled by
  MaxInt,         \* the largest value of a signed integer field
  FractionDigits, \* the digits of a nanosecond fraction, in three groups
  MaxSeconds      \* DURATION_MAX_SECONDS

ASSUME TextAssumption ==
  /\ {Wide, MaxScale, MaxInt, FractionDigits, MaxSeconds} \subseteq Nat
  /\ 2 * MaxInt < Wide
  /\ 10 ^ MaxScale > Wide /\ FractionDigits % 3 = 0 /\ FractionDigits > 0

MinInt == -MaxInt - 1

Number(digits) == FoldLeft(LAMBDA n, d : 10 * n + d, 0, digits)
When(accepted, value) == IF accepted THEN {value} ELSE {}
Negated(negative, n) == IF negative THEN -n ELSE n

-----------------------------------------------------------------------------
(* Integers: a text is [sign, whole, fraction, exponent, plain]; plain has *)
(* neither a point nor an exponent.                                        *)

\* Mutant: what is left of a fraction is cut off.
exact_decimal_integer_cut(t) ==
  LET value == Number(t.whole \o t.fraction)
      scale == Len(t.fraction) - t.exponent
      exact == IF scale > 0 THEN value \div 10 ^ scale ELSE value * 10 ^ (-scale)
  IN  IF t.whole = <<>> \/ value > Wide THEN {}
      ELSE IF scale \notin -MaxScale .. MaxScale THEN When(value = 0, 0)
      ELSE When(exact <= Wide, Negated(t.sign = "-", exact))

exact_decimal_integer(t) ==
  LET value == Number(t.whole \o t.fraction)
      scale == Len(t.fraction) - t.exponent
      exact == IF scale > 0 THEN value \div 10 ^ scale ELSE value * 10 ^ (-scale)
      integral == scale > 0 => exact * 10 ^ scale = value
  IN  IF t.whole = <<>> \/ value > Wide THEN {}
      ELSE IF scale \notin -MaxScale .. MaxScale THEN When(value = 0, 0)
      ELSE When(exact <= Wide /\ integral, Negated(t.sign = "-", exact))

\* integer_i64 and integer_u64 of a string: parse, or else the exact value.
integer_from(t, signed) ==
  IF t.plain /\ ~signed /\ t.sign = "-" THEN {}
  ELSE {n \in exact_decimal_integer(t) : n \in IF signed THEN MinInt .. MaxInt ELSE 0 .. 2 * MaxInt + 1}

-----------------------------------------------------------------------------
(* Bytes: characters are the numbers of their sextets, or one of those     *)
(* below; the URL-safe alphabet has two of its own.                        *)

Minus == 64
Underscore == 65
Pad == 66

Sextet(c) == IF c \in {Minus, Underscore} THEN c - 2 ELSE c

\* The bytes or sextets of a chunk as one number, and one of them back.
Joined(chunk, bits, size) ==
  FoldLeft(LAMBDA n, part : n * 2 ^ bits + part, 0,
           [i \in 1 .. size |-> IF i > Len(chunk) THEN 0 ELSE chunk[i]])
PartOf(n, i, bits, size) == (n \div 2 ^ (bits * (size - i))) % 2 ^ bits

Chunks(s, size) ==
  [i \in 1 .. (Len(s) + size - 1) \div size |->
     SubSeq(s, (i - 1) * size + 1, IF i * size < Len(s) THEN i * size ELSE Len(s))]

base64_encode(bytes) ==
  FlattenSeq([i \in DOMAIN Chunks(bytes, 3) |->
    LET chunk == Chunks(bytes, 3)[i]
        n     == Joined(chunk, 8, 3)
    IN  [j \in 1 .. 4 |-> IF j <= Len(chunk) + 1 THEN PartOf(n, j, 6, 4) ELSE Pad]])

Padding(text) == Cardinality({i \in DOMAIN text : \A j \in i .. Len(text) : text[j] = Pad})

\* The decoded bytes of the sextets.
Bytes(sextets) ==
  FlattenSeq([i \in DOMAIN Chunks(sextets, 4) |->
    LET chunk == Chunks(sextets, 4)[i]
        n     == Joined(chunk, 6, 4)
    IN  [j \in 1 .. Len(chunk) - 1 |-> PartOf(n, j, 8, 3)]])

\* Mutant: the padding is stripped and not looked at.
base64_decode_unpadded(text, max) ==
  LET padding == Padding(text)
      data    == SubSeq(text, 1, Len(text) - padding)
      sextets == [i \in DOMAIN data |-> Sextet(data[i])]
  IN  IF \/ \E i \in DOMAIN data : data[i] >= Pad
         \/ Len(sextets) % 4 = 1
         \/ (Len(sextets) * 3) \div 4 > max
      THEN {}
      ELSE {Bytes(sextets)}

base64_decode(text, max) ==
  LET padding == Padding(text)
      data    == SubSeq(text, 1, Len(text) - padding)
      sextets == [i \in DOMAIN data |-> Sextet(data[i])]
  IN  IF \/ padding > 2
         \/ padding # 0 /\ Len(text) % 4 # 0
         \/ \E i \in DOMAIN data : data[i] >= Pad
         \/ Len(sextets) % 4 = 1
         \/ padding = 1 /\ Len(sextets) % 4 # 3
         \/ padding = 2 /\ Len(sextets) % 4 # 2
         \/ (Len(sextets) * 3) \div 4 > max
      THEN {}
      ELSE {Bytes(sextets)}

-----------------------------------------------------------------------------
(* Durations: [sign, whole, fraction]; the first "-" of the sign is taken  *)
(* off before the whole seconds, which may have a sign too, are parsed.    *)

Nanos == 10 ^ FractionDigits

\* The nanoseconds of the digits after the point.
FractionOf(digits) == Number(digits) * 10 ^ (FractionDigits - Len(digits))

\* append_fraction: the first one, two or three groups of digits.
Fraction(nanos) ==
  LET group  == FractionDigits \div 3
      digits == [i \in 1 .. FractionDigits |-> (nanos \div 10 ^ (FractionDigits - i)) % 10]
      kept   == CHOOSE k \in 1 .. 3 : /\ nanos % 10 ^ (group * (3 - k)) = 0
                                      /\ k > 1 => nanos % 10 ^ (group * (4 - k)) # 0
  IN  IF nanos = 0 THEN <<>> ELSE SubSeq(digits, 1, group * kept)

validate_duration(seconds, nanos) ==
  /\ seconds \in -MaxSeconds .. MaxSeconds /\ nanos \in -(Nanos - 1) .. Nanos - 1
  /\ ~(seconds > 0 /\ nanos < 0) /\ ~(seconds < 0 /\ nanos > 0)

\* Mutant: a duration below one second loses its sign.
parse_duration_unsigned(t) ==
  LET negative == t.sign \in {"-", "--", "-+"}
      parsed   == Negated(t.sign = "--", Number(t.whole))
      seconds  == Negated(negative, parsed)
      nanos    == Negated(seconds < 0, FractionOf(t.fraction))
  IN  When(/\ t.whole # <<>> /\ Len(t.fraction) <= FractionDigits
           /\ validate_duration(seconds, nanos), <<seconds, nanos>>)

parse_duration(t) ==
  LET negative == t.sign \in {"-", "--", "-+"}
      parsed   == Negated(t.sign = "--", Number(t.whole))
      seconds  == Negated(negative, parsed)
      nanos    == Negated(negative, FractionOf(t.fraction))
  IN  When(/\ t.whole # <<>> /\ Len(t.fraction) <= FractionDigits
           /\ validate_duration(seconds, nanos), <<seconds, nanos>>)

AbsoluteOf(n) == IF n < 0 THEN -n ELSE n

Digits(n) == LET d[k \in 0 .. n] == IF k < 10 THEN <<k>> ELSE Append(d[k \div 10], k % 10) IN d[n]

format_duration(seconds, nanos) ==
  When(validate_duration(seconds, nanos),
       [sign |-> IF seconds < 0 \/ nanos < 0 THEN "-" ELSE "",
        whole |-> Digits(AbsoluteOf(seconds)), fraction |-> Fraction(AbsoluteOf(nanos))])

-----------------------------------------------------------------------------
(* Timestamps: the numbers of the text, the digits of its fraction and its *)
(* zone.  Two characters are parsed as a number that may have a sign.      *)
(* Seconds since 1970 are a day and a second of the day.                   *)

SECONDS_PER_DAY == 86400
FirstDay == -719162
LastDay  == 2932896

Leap(year) == year % 4 = 0 /\ (year % 100 # 0 \/ year % 400 = 0)

days_in_month(year, month) ==
  CASE month \in {4, 6, 9, 11} -> 30
    [] month = 2 -> IF Leap(year) THEN 29 ELSE 28
    [] OTHER -> 31

\* Mutant: the year is not shifted to begin in March.
days_from_civil_january(year, month, day) ==
  LET era == year \div 400
      yoe == year - era * 400
      doy == (153 * (IF month > 2 THEN month - 3 ELSE month + 9) + 2) \div 5 + day - 1
  IN  era * 146097 + yoe * 365 + yoe \div 4 - yoe \div 100 + doy - 719468

days_from_civil(year, month, day) ==
  LET adjusted == IF month <= 2 THEN year - 1 ELSE year
      era == adjusted \div 400
      yoe == adjusted - era * 400
      doy == (153 * (IF month > 2 THEN month - 3 ELSE month + 9) + 2) \div 5 + day - 1
  IN  era * 146097 + yoe * 365 + yoe \div 4 - yoe \div 100 + doy - 719468

civil_from_days(days) ==
  LET shifted == days + 719468
      era == shifted \div 146097
      doe == shifted - era * 146097
      yoe == (doe - doe \div 1460 + doe \div 36524 - doe \div 146096) \div 365
      doy == doe - (365 * yoe + yoe \div 4 - yoe \div 100)
      mp  == (5 * doy + 2) \div 153
      month == IF mp < 10 THEN mp + 3 ELSE mp - 9
  IN  [year |-> yoe + era * 400 + (IF month <= 2 THEN 1 ELSE 0),
       month |-> month, day |-> doy - (153 * mp + 2) \div 5 + 1]

ValidTime(t) ==
  /\ t.month \in 1 .. 12 /\ t.day \in 1 .. days_in_month(t.year, t.month)
  /\ t.hour <= 23 /\ t.minute <= 59 /\ t.second <= 59

\* The offset of "Z", or of a sign, hours and minutes.
Offset(zone) == Negated(zone.sign = "-", zone.hours * 3600 + zone.minutes * 60)

parse_timestamp(t) ==
  LET clock == t.hour * 3600 + t.minute * 60 + t.second - Offset(t.zone)
      day   == days_from_civil(t.year, t.month, t.day) + clock \div SECONDS_PER_DAY
  IN  IF \/ ~ValidTime(t) \/ Len(t.fraction) > FractionDigits
         \/ t.zone.sign # "Z" /\ (t.zone.hours > 23 \/ t.zone.minutes > 59)
         \/ day \notin FirstDay .. LastDay
      THEN {}
      ELSE {<<day, clock % SECONDS_PER_DAY, FractionOf(t.fraction)>>}

format_timestamp(day, second, nanos) ==
  When(day \in FirstDay .. LastDay /\ nanos \in 0 .. Nanos - 1,
       [hour |-> second \div 3600, minute |-> (second % 3600) \div 60, second |-> second % 60,
        fraction |-> Fraction(nanos), zone |-> [sign |-> "Z", hours |-> 0, minutes |-> 0]]
         @@ civil_from_days(day))

-----------------------------------------------------------------------------
(* Field masks: a path is a sequence of a lower-case letter "a", its upper *)
(* case "A", a digit "1", "_" and ",".                                     *)

camel_to_snake(path) ==
  FlattenSeq([i \in DOMAIN path |-> IF path[i] = "A" THEN <<"_", "a">> ELSE <<path[i]>>])

snake_to_camel(path) ==
  LET camel(i) == IF path[i] = "_" THEN <<>>
                  ELSE IF i > 1 /\ path[i] = "a" THEN <<IF path[i - 1] = "_" THEN "A" ELSE "a">>
                  ELSE <<path[i]>>
  IN  FlattenSeq([i \in DOMAIN path |-> camel(i)])

\* Mutant: a digit may follow an underscore.
valid_field_mask_proto_path_digits(path) ==
  \A i \in DOMAIN path :
    /\ path[i] # "A"
    /\ path[i] = "_" => i < Len(path) /\ path[i + 1] # "_"

valid_field_mask_proto_path(path) ==
  \A i \in DOMAIN path :
    /\ path[i] # "A"
    /\ path[i] = "_" => i < Len(path) /\ path[i + 1] = "a"

\* The text of a mask, its paths joined by commas.
format_mask(paths) ==
  LET text == [i \in DOMAIN paths |-> (IF i > 1 THEN <<",">> ELSE <<>>) \o snake_to_camel(paths[i])]
  IN  When(\A i \in DOMAIN paths : valid_field_mask_proto_path(paths[i]), FlattenSeq(text))

\* The paths between the commas, without the empty ones.
parse_mask(text) ==
  LET cuts   == SetToSortSeq({i \in 0 .. Len(text) + 1 : i \in {0, Len(text) + 1} \/ text[i] = ","}, <)
      pieces == [i \in 1 .. Len(cuts) - 1 |-> SubSeq(text, cuts[i] + 1, cuts[i + 1] - 1)]
      kept   == SelectSeq(pieces, LAMBDA p : p # <<>>)
  IN  When(\A i \in DOMAIN text : text[i] # "_", [i \in DOMAIN kept |-> camel_to_snake(kept[i])])
=============================================================================
