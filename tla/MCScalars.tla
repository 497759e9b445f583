----------------------------- MODULE MCScalars -----------------------------
(***************************************************************************)
(* Numbers of seven and five bits in bytes of two data bits, so that the   *)
(* last byte of a number has one bit as in the code, short texts, and the  *)
(* days of several years.                                                  *)
(***************************************************************************)
EXTENDS Scalars

UpTo(S, n) == UNION {[1 .. k -> S] : k \in 0 .. n}

MCInputs == UpTo(Byte, 4) \cup [1 .. 5 -> {0, 1, 4, 5, 7}]

MCNumerals ==
  LET signs == {"", "+", "-"}
      plain == [sign : signs, whole : UpTo({0, 1, 9}, 3), fraction : {<<>>}, exponent : {0},
                plain : {TRUE}]
      other == [sign : signs, whole : UpTo({0, 1, 5}, 2), fraction : UpTo({0, 5}, 2),
                exponent : -4 .. 4, plain : {FALSE}]
  IN  plain \cup other

MCByteStrings == UpTo({0, 1, 254}, 4)
MCEncoded     == UpTo({0, 17, 63, Minus, Pad, 67}, 5) \cup {<<0, 16, 1>> \o s : s \in UpTo({32, Pad}, 5)}

MCSpans ==
  [sign : {"", "-", "--", "+", "-+"}, whole : UpTo({0, 1, 9}, 2), fraction : UpTo({0, 5}, 4)]
MCNanoseconds == {-1000, -999, -500, -10, -1, 0, 1, 120, 100, 999, 1000}

MCBookYears == {1, 2, 4, 99, 100, 400, 1600, 1899, 1900, 1969, 1970, 1972, 2000, 2001, 2100, 9999}
Zone(s, h, m) == [sign |-> s, hours |-> h, minutes |-> m]
UTC == Zone("Z", 0, 0)

MCInstants ==
  LET dates == [year : MCBookYears \cup {0, -1}, month : 0 .. 13, day : {0, 1, 28, 29, 30, 31, 32},
                hour : {0}, minute : {0}, second : {0}, fraction : {<<>>}, zone : {UTC}]
      times == [year : {1, 1970, 9999}, month : {1, 12}, day : {1, 31}, hour : {-1, 0, 23, 24},
                minute : {-9, 59, 60}, second : {0, 59, 60}, fraction : {<<>>, <<0, 5>>, <<0, 0, 0, 1>>},
                zone : {UTC, Zone("+", 23, 59), Zone("-", 0, 1), Zone("-", -9, 59), Zone("+", 24, 0),
                        Zone("-", 0, 60)}]
  IN  dates \cup times

MCDays == (-800 .. 900) \cup (10900 .. 11100) \cup {FirstDay - 1, FirstDay, FirstDay + 59, LastDay, LastDay + 1}

Letters == {"a", "A", "1", "_"}
MCPaths == {<<>>} \cup {<<p>> : p \in UpTo(Letters \cup {","}, 4)}
             \cup {<<p, q>> : p \in UpTo(Letters, 2), q \in UpTo(Letters, 2)}
MCMasks == UpTo({"a", "A", "1", "_", ","}, 5)
=============================================================================
