-------------------------------- MODULE Wire --------------------------------
(***************************************************************************)
(* Varints, keys and the scalars that varints carry, for any number of     *)
(* bits: 64-bit numbers in bytes of 7 data bits, 32-bit numbers and keys   *)
(* in the code.  A result is the set of what is returned, empty for Err.   *)
(***************************************************************************)
EXTENDS Integers, Sequences, FiniteSets, FiniteSetsExt

CONSTANTS
  DataBits,  \* data bits of a byte (VARINT_BITS_PER_BYTE)
  Width,     \* bits of the widest number
  Half,      \* bits of the narrow numbers and of keys
  TypeBits   \* bits of a key that hold the wire type (FIELD_NUMBER_SHIFT)

ASSUME WidthAssumption ==
  /\ {DataBits, Width, Half, TypeBits} \subseteq Nat \ {0}
  /\ TypeBits < Half /\ Half < Width /\ DataBits < Half

Continuation == 2 ^ DataBits
Byte         == 0 .. 2 * Continuation - 1

BytesFor(bits) == (bits + DataBits - 1) \div DataBits

MAX_VARINT_BYTES      == BytesFor(Width)
MAX_FIELD_KEY_BYTES   == BytesFor(Half)
MAX_TENTH_VARINT_BYTE == 2 ^ (Width - DataBits * (MAX_VARINT_BYTES - 1)) - 1
MAX_FIELD_NUMBER      == 2 ^ (Half - TypeBits) - 1

\* vi: the bytes of a number, the low bits first.
vi[n \in 0 .. 2 ^ Width - 1] ==
  IF n < Continuation THEN <<n>>
  ELSE <<(n % Continuation) + Continuation>> \o vi[n \div Continuation]

\* The number that len bytes spell, the low bits first.
Spells(bytes, len) ==
  LET n[i \in 0 .. len] ==
        IF i = 0 THEN 0
        ELSE n[i - 1] + (bytes[i] % Continuation) * 2 ^ (DataBits * (i - 1))
  IN  n[len]

\* Mutant: the last byte of the longest varints is not checked.
read_varint_unchecked(bytes, minimal) ==
  LET ends == {i \in DOMAIN bytes : bytes[i] < Continuation}
      len  == Min(ends)
      n    == Spells(bytes, len) % 2 ^ Width
  IN  IF ends = {} THEN {}
      ELSE IF len > MAX_VARINT_BYTES \/ (minimal /\ len # Len(vi[n])) THEN {}
      ELSE {<<n, len>>}

\* Mutant: the shortest form is not required.
read_varint_any_length(bytes, minimal) ==
  LET ends == {i \in DOMAIN bytes : bytes[i] < Continuation}
      len  == Min(ends)
  IN  IF ends = {} THEN {}
      ELSE IF \/ len > MAX_VARINT_BYTES
              \/ len = MAX_VARINT_BYTES /\ bytes[len] > MAX_TENTH_VARINT_BYTE THEN {}
      ELSE {<<Spells(bytes, len) % 2 ^ Width, len>>}

\* The number read and the bytes consumed; the shifts lose what is beyond Width.
read_varint(bytes, minimal) ==
  LET ends == {i \in DOMAIN bytes : bytes[i] < Continuation}
      len  == Min(ends)
      n    == Spells(bytes, len) % 2 ^ Width
  IN  IF ends = {} THEN {}
      ELSE IF \/ len > MAX_VARINT_BYTES
              \/ len = MAX_VARINT_BYTES /\ bytes[len] > MAX_TENTH_VARINT_BYTE
              \/ minimal /\ len # Len(vi[n])
           THEN {}
      ELSE {<<n, len>>}

make_key(number, type) == number * 2 ^ TypeBits + type

\* Mutant: a key is cut to its width.
read_key_truncated(bytes, minimal) ==
  {<<(r[1] % 2 ^ Half) \div 2 ^ TypeBits, r[1] % 2 ^ TypeBits, r[2]>> :
     r \in {r \in read_varint(bytes, minimal) : r[1] % 2 ^ Half >= 2 ^ TypeBits}}

\* The field number, the wire type and the bytes consumed.
read_key_with_policy(bytes, minimal) ==
  {<<r[1] \div 2 ^ TypeBits, r[1] % 2 ^ TypeBits, r[2]>> :
     r \in {r \in read_varint(bytes, minimal) :
              /\ r[2] <= MAX_FIELD_KEY_BYTES /\ r[1] < 2 ^ Half
              /\ r[1] \div 2 ^ TypeBits \in 1 .. MAX_FIELD_NUMBER}}

-----------------------------------------------------------------------------
(* Scalars.                                                                *)

Kinds == {"int32", "uint32", "sint32", "enum", "int64", "uint64", "sint64", "bool"}

BitsOf(kind) == IF kind \in {"int64", "uint64", "sint64"} THEN Width ELSE Half

\* The values of a kind; FALSE and TRUE are 0 and 1.
ValuesOf(kind) ==
  CASE kind \in {"uint32", "uint64"} -> 0 .. 2 ^ BitsOf(kind) - 1
    [] kind = "bool" -> {0, 1}
    [] OTHER -> -(2 ^ (BitsOf(kind) - 1)) .. 2 ^ (BitsOf(kind) - 1) - 1

Unsigned(v, bits) == v % 2 ^ bits
Signed(n, bits)   == ((n + 2 ^ (bits - 1)) % 2 ^ bits) - 2 ^ (bits - 1)

ZigZag(v)   == IF v >= 0 THEN 2 * v ELSE -2 * v - 1
UnZigZag(n) == IF n % 2 = 0 THEN n \div 2 ELSE -(n \div 2) - 1

\* Mutant: narrow negative numbers are not extended to the full width.
RawNarrow(kind, v) ==
  IF kind \in {"sint32", "sint64"} THEN Unsigned(ZigZag(v), BitsOf(kind))
  ELSE Unsigned(v, BitsOf(kind))

\* scalar: the number that is written for a value.
Raw(kind, v) ==
  IF kind \in {"sint32", "sint64"} THEN Unsigned(ZigZag(v), BitsOf(kind)) ELSE Unsigned(v, Width)

\* val: the value of a number, if the options allow it.
FromRaw(kind, raw, minimal, canonicalBool) ==
  LET n == raw % 2 ^ Half
      narrow(v, canonical) == {x \in {v} : minimal => raw = canonical}
  IN  CASE kind \in {"int32", "enum"} -> narrow(Signed(n, Half), Unsigned(Signed(n, Half), Width))
        [] kind = "uint32" -> narrow(n, n)
        [] kind = "sint32" -> narrow(UnZigZag(n), n)
        [] kind = "int64"  -> {Signed(raw, Width)}
        [] kind = "uint64" -> {raw}
        [] kind = "sint64" -> {UnZigZag(raw)}
        [] kind = "bool"   -> {b \in {IF raw = 0 THEN 0 ELSE 1} : canonicalBool => raw <= 1}

WriteScalar(kind, v) == vi[Raw(kind, v)]

ReadScalar(kind, bytes, minimal, canonicalBool) ==
  UNION {{<<v, r[2]>> : v \in FromRaw(kind, r[1], minimal, canonicalBool)} :
           r \in read_varint(bytes, minimal)}
=============================================================================
