---------------------------- MODULE ScalarProofs ----------------------------
(***************************************************************************)
(* For every width of the numbers and of the bytes, and every sequence of  *)
(* bytes: strict reading is the inverse of writing, and what is accepted   *)
(* loses no bit.                                                           *)
(*                                                                         *)
(* A power of two is the number of subsets of a set, which gives the laws  *)
(* of exponents (Power lemmas); what a quotient and a remainder make       *)
(* (Makes) is stated once, so that every other fact about them is of the   *)
(* one form.  A number has its digits at places that are powers of the     *)
(* continuation bit (Place, Digit): vi writes them (ViWrites, by least     *)
(* counterexample), a spelling reads them (SpelledDigits), and two numbers *)
(* with the same digits are the same number.  A varint ends at its first   *)
(* byte without the bit (EndsAt), and is the shortest when it is as long   *)
(* as what is written (ShortestIsWritten).  A value of a kind is in the    *)
(* low bits of its number, zigzag or not (ValueComesBack, ValueIsOfNumber).*)
(* A call returns what its function returns (Answered).                    *)
(***************************************************************************)
EXTENDS Scalars, FiniteSetTheorems, WellFoundedInduction, TLAPS

-----------------------------------------------------------------------------
(* Numbers.                                                                *)

\* A nonempty set of naturals has a least element.
LEMMA Least ==
  ASSUME NEW T, T \subseteq Nat, T # {}
  PROVE  \E n \in T : \A m \in T : n <= m
<1> DEFINE R == {ss \in Nat \X Nat : ss[1] < ss[2]}
<1>1. IsWellFoundedOn(R, Nat)
  BY NatLessThanWellFounded DEF OpToRel
<1>2. \A x, y \in Nat : y < x => <<y, x>> \in R
  OBVIOUS
<1> HIDE DEF R
<1>3. PICK n \in T : \A m \in T : <<m, n>> \notin R
  BY <1>1, WFMin
<1>4. \A m \in T : n \in Nat /\ m \in Nat /\ ~(m < n)
  BY <1>2, <1>3
<1> QED BY <1>3, <1>4

\* Powers of two are positive: the sets of numbers up to n are so many.
LEMMA PowerPositive ==
  ASSUME NEW n \in Nat
  PROVE  2 ^ n \in Nat \ {0}
<1>1. IsFiniteSet(1 .. n) /\ Cardinality(1 .. n) = n
  BY FS_Interval
<1>2. IsFiniteSet(SUBSET (1 .. n)) /\ Cardinality(SUBSET (1 .. n)) = 2 ^ n
  BY <1>1, FS_SUBSET
<1>3. SUBSET (1 .. n) # {}
  OBVIOUS
<1>4. 2 ^ n \in Nat /\ 2 ^ n # 0
  BY <1>2, <1>3, FS_CardinalityType, FS_EmptySet
<1> QED BY <1>4

\* A power of two is twice the one before: a set of numbers has the last one or not.
LEMMA PowerNext ==
  ASSUME NEW n \in Nat
  PROVE  2 ^ (n + 1) = 2 * 2 ^ n
<1> DEFINE S == SUBSET (1 .. n)
           T == {s \cup {n + 1} : s \in S}
           add == [s \in S |-> s \cup {n + 1}]
<1>1. /\ IsFiniteSet(1 .. n) /\ Cardinality(1 .. n) = n
      /\ IsFiniteSet(1 .. n + 1) /\ Cardinality(1 .. n + 1) = n + 1
  BY FS_Interval
<1>2. IsFiniteSet(S) /\ Cardinality(S) = 2 ^ n
  BY <1>1, FS_SUBSET
<1>3. Cardinality(SUBSET (1 .. n + 1)) = 2 ^ (n + 1)
  BY <1>1, FS_SUBSET
<1>4. n + 1 \notin 1 .. n
  OBVIOUS
<1>5. 1 .. n + 1 = (1 .. n) \cup {n + 1}
  OBVIOUS
<1>6. SUBSET (1 .. n + 1) = S \cup T
  <2>1. ASSUME NEW s \in SUBSET (1 .. n + 1) PROVE s \in S \cup T
    <3>1. CASE n + 1 \in s
      <4>1. s \ {n + 1} \in S /\ s = (s \ {n + 1}) \cup {n + 1}
        BY <1>5, <3>1
      <4> QED BY <4>1
    <3>2. CASE n + 1 \notin s
      BY <1>5, <3>2
    <3> QED BY <3>1, <3>2
  <2>2. S \cup T \subseteq SUBSET (1 .. n + 1)
    BY <1>5
  <2> QED BY <2>1, <2>2
<1>7. S \cap T = {}
  BY <1>4
<1>8. add \in Bijection(S, T)
  <2>1. add \in [S -> T] /\ \A t \in T : \E s \in S : add[s] = t
    OBVIOUS
  <2>2. \A s, r \in S : add[s] = add[r] => s = r
    BY <1>4
  <2> HIDE DEF add, S, T
  <2> QED BY <2>1, <2>2 DEF Bijection, Injection, Surjection, IsInjective
<1>9. IsFiniteSet(T) /\ Cardinality(T) = 2 ^ n
  <2>1. ExistsBijection(S, T)
    BY <1>8 DEF ExistsBijection
  <2> HIDE DEF S, T
  <2> QED BY <1>2, <2>1, FS_Bijection
<1>10. Cardinality(S \cup T) = Cardinality(S) + Cardinality(T) - Cardinality(S \cap T)
  <2> HIDE DEF S, T
  <2> QED BY <1>2, <1>9, FS_Union
<1>11. 2 ^ (n + 1) = 2 ^ n + 2 ^ n - 0
  BY <1>2, <1>3, <1>6, <1>7, <1>9, <1>10, FS_EmptySet
<1> QED BY <1>11, PowerPositive

\* Powers of a sum.
LEMMA PowerOfSum ==
  ASSUME NEW a \in Nat, NEW b \in Nat
  PROVE  2 ^ (a + b) = 2 ^ a * 2 ^ b
<1> DEFINE T == {n \in Nat : 2 ^ (a + n) # 2 ^ a * 2 ^ n}
<1> SUFFICES ASSUME T # {} PROVE FALSE
  OBVIOUS
<1>1. PICK n \in T : \A m \in T : n <= m
  <2>1. T \subseteq Nat
    OBVIOUS
  <2> HIDE DEF T
  <2> QED BY <2>1, Least
<1>2. n # 0
  <2>1. 2 ^ 0 = 1 /\ a + 0 = a /\ 2 ^ a \in Nat
    BY PowerPositive
  <2>2. 2 ^ (a + 0) = 2 ^ a * 2 ^ 0
    <3> DEFINE x == 2 ^ a
    <3>1. x * 1 = x
      BY <2>1
    <3> QED BY <2>1, <3>1
  <2> QED BY <1>1, <2>2
<1>3. PICK k \in Nat : n = k + 1
  <2>1. n - 1 \in Nat /\ n = (n - 1) + 1
    BY <1>2
  <2> QED BY <2>1
<1>4. 2 ^ (a + k) = 2 ^ a * 2 ^ k
  BY <1>1, <1>3
<1>5. 2 ^ n = 2 * 2 ^ k
  BY <1>3, PowerNext
<1>6. 2 ^ (a + n) = 2 * 2 ^ (a + k)
  <2>1. a + k \in Nat /\ a + n = (a + k) + 1
    BY <1>3
  <2> QED BY <2>1, PowerNext
<1>7. \A x, y \in Nat : 2 * (x * y) = x * (2 * y)
  OBVIOUS
<1>8. 2 ^ (a + n) = 2 ^ a * 2 ^ n
  BY <1>4, <1>5, <1>6, <1>7, PowerPositive
<1> QED BY <1>1, <1>8

\* Powers grow.
LEMMA PowerGrows ==
  ASSUME NEW a \in Nat, NEW b \in Nat, a <= b
  PROVE  2 ^ a <= 2 ^ b
<1>1. PICK c \in Nat : b = a + c
  <2>1. b - a \in Nat /\ b = a + (b - a)
    OBVIOUS
  <2> QED BY <2>1
<1>2. 2 ^ b = 2 ^ a * 2 ^ c
  BY <1>1, PowerOfSum
<1>3. \A x, y \in Nat \ {0} : x <= x * y
  OBVIOUS
<1> QED BY <1>2, <1>3, PowerPositive

-----------------------------------------------------------------------------
(* Division.                                                               *)

\* A number is so many times d and a rest.
Makes(d, q, r, n) == r \in 0 .. d - 1 /\ n = d * q + r

\* A number is its quotient and its remainder.
LEMMA Divided ==
  ASSUME NEW n \in Int, NEW d \in Nat \ {0}
  PROVE  n \div d \in Int /\ n % d \in Int /\ Makes(d, n \div d, n % d, n)
<1>1. n \div d \in Int /\ n % d \in 0 .. d - 1 /\ n = d * (n \div d) + (n % d)
  OBVIOUS
<1> QED BY <1>1 DEF Makes

\* A natural number has a natural quotient.
LEMMA NaturalQuotient ==
  ASSUME NEW n \in Nat, NEW d \in Nat \ {0}
  PROVE  n \div d \in Nat
<1>1. n \div d \in Int /\ n % d \in 0 .. d - 1 /\ n = d * (n \div d) + (n % d)
  OBVIOUS
<1>2. ASSUME NEW q \in Int, q < 0 PROVE d * q <= -d
  <2>1. PICK k \in Nat : q = -1 - k
    <3>1. -1 - q \in Nat /\ q = -1 - (-1 - q)
      BY <1>2
    <3> QED BY <3>1
  <2>2. d * (-1 - k) = -d - d * k /\ d * k \in Nat
    OBVIOUS
  <2> QED BY <2>1, <2>2
<1>3. ~(n \div d < 0)
  BY <1>1, <1>2
<1> QED BY <1>1, <1>3

\* Quotient and remainder are those with which a number can be written.
LEMMA DividedAs ==
  ASSUME NEW d \in Nat \ {0}, NEW q \in Int, NEW r, NEW n, Makes(d, q, r, n)
  PROVE  n \div d = q /\ n % d = r
<1>1. n \in Int /\ r \in 0 .. d - 1 /\ n = d * q + r
  BY DEF Makes
<1> DEFINE p == n \div d
           s == n % d
<1>2. p \in Int /\ s \in 0 .. d - 1 /\ n = d * p + s
  BY <1>1, Divided DEF Makes
<1> HIDE DEF p, s
<1>3. d * (p - q) = r - s /\ -d < r - s /\ r - s < d
  BY <1>1, <1>2
<1>4. ASSUME p > q PROVE FALSE
  <2>1. \A x \in Nat \ {0} : d * x >= d
    OBVIOUS
  <2>2. p - q \in Nat \ {0}
    BY <1>2, <1>4
  <2> QED BY <1>3, <2>1, <2>2
<1>5. ASSUME p < q PROVE FALSE
  <2>1. \A x \in Nat \ {0} : d * (-x) <= -d
    OBVIOUS
  <2>2. q - p \in Nat \ {0} /\ p - q = -(q - p)
    BY <1>2, <1>5
  <2> QED BY <1>3, <2>1, <2>2
<1>6. p = q
  BY <1>2, <1>4, <1>5
<1>7. r = s
  BY <1>1, <1>2, <1>6
<1> QED BY <1>6, <1>7 DEF p, s

\* A multiple more makes as many more.
LEMMA MakesMore ==
  ASSUME NEW n \in Int, NEW d \in Nat \ {0}, NEW k \in Int
  PROVE  (n \div d) + k \in Int /\ Makes(d, (n \div d) + k, n % d, n + d * k)
<1> DEFINE q == n \div d
           r == n % d
<1>1. q \in Int /\ Makes(d, q, r, n)
  BY Divided
<1> HIDE DEF q, r
<1>2. r \in 0 .. d - 1 /\ n = d * q + r
  BY <1>1 DEF Makes
<1>3. d * q + d * k = d * (q + k)
  BY <1>1
<1>4. Makes(d, q + k, r, n + d * k)
  BY <1>1, <1>2, <1>3 DEF Makes
<1> QED BY <1>1, <1>4 DEF q, r

\* Multiples leave the remainder alone.
LEMMA RemainderOfSum ==
  ASSUME NEW n \in Int, NEW d \in Nat \ {0}, NEW k \in Int
  PROVE  (n + d * k) % d = n % d
<1> DEFINE q == (n \div d) + k
           r == n % d
           m == n + d * k
<1>1. q \in Int /\ Makes(d, q, r, m)
  BY MakesMore
<1> HIDE DEF q, r, m
<1>2. m % d = r
  BY <1>1, DividedAs
<1> QED BY <1>2 DEF r, m

\* And count as quotients.
LEMMA QuotientOfSum ==
  ASSUME NEW n \in Int, NEW d \in Nat \ {0}, NEW k \in Int
  PROVE  (n + d * k) \div d = (n \div d) + k
<1> DEFINE q == (n \div d) + k
           r == n % d
           m == n + d * k
<1>1. q \in Int /\ Makes(d, q, r, m)
  BY MakesMore
<1> HIDE DEF q, r, m
<1>2. m \div d = q
  BY <1>1, DividedAs
<1> QED BY <1>2 DEF q, m

\* Dividing twice makes a number of products.
LEMMA MakesProducts ==
  ASSUME NEW n \in Int, NEW a \in Nat \ {0}, NEW b \in Nat \ {0}
  PROVE  /\ a * b \in Nat \ {0} /\ (n \div a) \div b \in Int
         /\ Makes(a * b, (n \div a) \div b, a * ((n \div a) % b) + (n % a), n)
<1> DEFINE q == n \div a
           r == n % a
           p == q \div b
           s == q % b
<1>1. q \in Int /\ Makes(a, q, r, n)
  BY Divided
<1>2. p \in Int /\ Makes(b, p, s, q)
  BY <1>1, Divided
<1> HIDE DEF q, r, p, s
<1>10. r \in 0 .. a - 1 /\ n = a * q + r /\ s \in 0 .. b - 1 /\ q = b * p + s
  BY <1>1, <1>2 DEF Makes
<1>3. a * b \in Nat \ {0}
  OBVIOUS
<1>4. a * (b * p + s) = (a * b) * p + a * s
  BY <1>2, <1>10
<1>5. a * s + r \in 0 .. a * b - 1
  <2>1. PICK t \in Nat : t = b - 1 - s
    BY <1>2, <1>10
  <2>2. a * (s + 1 + t) = a * s + a + a * t /\ a * t \in Nat /\ a * s \in Nat
    BY <1>2, <1>10, <2>1
  <2>3. a * b = a * s + a + a * t
    <3>1. b = s + 1 + t
      BY <1>2, <1>10, <2>1
    <3> QED BY <2>2, <3>1
  <2> QED BY <1>10, <2>2, <2>3
<1>6. n = (a * b) * p + (a * s + r)
  BY <1>1, <1>2, <1>10, <1>4, <1>5
<1>7. Makes(a * b, p, a * s + r, n)
  BY <1>5, <1>6 DEF Makes
<1> QED BY <1>2, <1>3, <1>7 DEF p, q, r, s

\* Dividing twice divides by the product.
LEMMA DividedTwice ==
  ASSUME NEW n \in Int, NEW a \in Nat \ {0}, NEW b \in Nat \ {0}
  PROVE  (n \div a) \div b = n \div (a * b)
<1> DEFINE p == (n \div a) \div b
           r == a * ((n \div a) % b) + (n % a)
<1>1. a * b \in Nat \ {0} /\ p \in Int /\ Makes(a * b, p, r, n)
  BY MakesProducts
<1> HIDE DEF p, r
<1>2. n \div (a * b) = p
  BY <1>1, DividedAs
<1> QED BY <1>2 DEF p

\* The remainder by a product.
LEMMA RemainderByProduct ==
  ASSUME NEW n \in Int, NEW a \in Nat \ {0}, NEW b \in Nat \ {0}
  PROVE  n % (a * b) = a * ((n \div a) % b) + (n % a)
<1> DEFINE p == (n \div a) \div b
           r == a * ((n \div a) % b) + (n % a)
<1>1. a * b \in Nat \ {0} /\ p \in Int /\ Makes(a * b, p, r, n)
  BY MakesProducts
<1> HIDE DEF p, r
<1>2. n % (a * b) = r
  BY <1>1, DividedAs
<1> QED BY <1>2 DEF r

\* The remainder of a remainder by a multiple.
LEMMA RemainderTwice ==
  ASSUME NEW n \in Int, NEW a \in Nat \ {0}, NEW b \in Nat \ {0}
  PROVE  (n % (a * b)) % a = n % a
<1>1. a * b \in Nat \ {0}
  OBVIOUS
<1> DEFINE q == n \div (a * b)
           r == n % (a * b)
<1>2. q \in Int /\ r \in Int /\ n = (a * b) * q + r
  BY <1>1, Divided DEF Makes
<1> HIDE DEF q, r
<1>3. (a * b) * q = a * (b * q) /\ b * q \in Int
  BY <1>2
<1>4. n = r + a * (b * q)
  BY <1>2, <1>3
<1>5. (r + a * (b * q)) % a = r % a
  BY <1>2, <1>3, RemainderOfSum
<1> QED BY <1>4, <1>5 DEF r

\* A number below the divisor is its own remainder.
LEMMA Remains ==
  ASSUME NEW d \in Nat \ {0}, NEW n \in 0 .. d - 1
  PROVE  n % d = n /\ n \div d = 0
<1>1. Makes(d, 0, n, n)
  BY DEF Makes
<1> QED BY <1>1, DividedAs
-----------------------------------------------------------------------------
(* Places: the byte at position i of a varint counts Place(i - 1) times.   *)

Number64  == 0 .. 2 ^ Width - 1
Place(i)  == 2 ^ (DataBits * i)
LastPlace == MAX_VARINT_BYTES - 1

\* Each place counts Continuation times as much as the one before.
LEMMA Places ==
  /\ Continuation \in Nat /\ Continuation > 1 /\ Continuation \in Nat \ {0}
  /\ Byte = 0 .. 2 * Continuation - 1
  /\ Place(0) = 1 /\ Place(1) = Continuation
  /\ \A i \in Nat : Place(i) \in Nat \ {0} /\ Place(i + 1) = Place(i) * Continuation
<1>1. DataBits \in Nat \ {0}
  BY WidthAssumption
<1>2. Continuation \in Nat \ {0, 1}
  <2>1. DataBits - 1 \in Nat /\ DataBits = (DataBits - 1) + 1
    BY <1>1
  <2>2. 2 ^ ((DataBits - 1) + 1) = 2 * 2 ^ (DataBits - 1) /\ 2 ^ (DataBits - 1) \in Nat \ {0}
    BY <2>1, PowerNext, PowerPositive
  <2>3. 2 ^ DataBits = 2 * 2 ^ (DataBits - 1)
    BY <2>1, <2>2
  <2> QED BY <2>2, <2>3 DEF Continuation
<1>3. Place(0) = 1 /\ Place(1) = Continuation
  <2>1. DataBits * 0 = 0 /\ DataBits * 1 = DataBits /\ 2 ^ 0 = 1
    BY <1>1
  <2> QED BY <2>1 DEF Place, Continuation
<1>4. ASSUME NEW i \in Nat
      PROVE  Place(i) \in Nat \ {0} /\ Place(i + 1) = Place(i) * Continuation
  <2>1. DataBits * i \in Nat /\ DataBits * (i + 1) = DataBits * i + DataBits
    BY <1>1
  <2>2. 2 ^ (DataBits * i + DataBits) = 2 ^ (DataBits * i) * 2 ^ DataBits
    BY <1>1, <2>1, PowerOfSum
  <2>3. 2 ^ (DataBits * i) \in Nat \ {0}
    BY <2>1, PowerPositive
  <2> QED BY <2>1, <2>2, <2>3 DEF Place, Continuation
<1> QED BY <1>2, <1>3, <1>4 DEF Byte

\* Places far apart.
LEMMA PlacesApart ==
  ASSUME NEW i \in Nat, NEW j \in Nat
  PROVE  Place(i + j) = Place(i) * Place(j)
<1>1. DataBits * i \in Nat /\ DataBits * j \in Nat /\ DataBits * (i + j) = DataBits * i + DataBits * j
  BY WidthAssumption
<1> QED BY <1>1, PowerOfSum DEF Place

\* Later places count more.
LEMMA PlacesGrow ==
  ASSUME NEW i \in Nat, NEW j \in Nat, i <= j
  PROVE  Place(i) <= Place(j)
<1>1. DataBits * i \in Nat /\ DataBits * j \in Nat /\ DataBits * i <= DataBits * j
  <2>1. PICK k \in Nat : j = i + k
    <3>1. j - i \in Nat /\ j = i + (j - i)
      OBVIOUS
    <3> QED BY <3>1
  <2>2. DataBits * (i + k) = DataBits * i + DataBits * k /\ DataBits * k \in Nat /\ DataBits * i \in Nat
    BY WidthAssumption
  <2> QED BY <2>1, <2>2
<1> QED BY <1>1, PowerGrows DEF Place

\* The longest varint has a place for every bit, and fewer bytes would not do.
LEMMA LongestVarint ==
  /\ MAX_VARINT_BYTES \in Nat \ {0} /\ LastPlace \in Nat /\ MAX_VARINT_BYTES = LastPlace + 1
  /\ Width - DataBits * LastPlace \in Nat \ {0}
  /\ 2 ^ Width = Place(LastPlace) * 2 ^ (Width - DataBits * LastPlace)
  /\ MAX_TENTH_VARINT_BYTE = 2 ^ (Width - DataBits * LastPlace) - 1
  /\ MAX_TENTH_VARINT_BYTE \in 0 .. Continuation - 1
  /\ 2 ^ Width <= Place(MAX_VARINT_BYTES)
<1>1. DataBits \in Nat \ {0} /\ Width \in Nat \ {0}
  BY WidthAssumption
<1> DEFINE q == (Width + DataBits - 1) \div DataBits
           r == (Width + DataBits - 1) % DataBits
<1>2. Width + DataBits - 1 \in Nat /\ Width + DataBits - 1 \in Int
  BY <1>1
<1>3. q \in Int /\ r \in Int /\ Makes(DataBits, q, r, Width + DataBits - 1)
  BY <1>1, <1>2, Divided
<1>4. MAX_VARINT_BYTES = q
  BY DEF MAX_VARINT_BYTES, BytesFor
<1> HIDE DEF q, r
<1>5. r \in 0 .. DataBits - 1 /\ Width + DataBits - 1 = DataBits * q + r
  BY <1>3 DEF Makes
<1>6. q > 0
  <2>1. ASSUME NEW k \in Nat, q = -k PROVE FALSE
    <3>1. DataBits * (-k) = -(DataBits * k) /\ DataBits * k \in Nat
      BY <1>1
    <3> QED BY <1>1, <1>5, <2>1, <3>1
  <2>2. q <= 0 => -q \in Nat /\ q = -(-q)
    BY <1>3
  <2> QED BY <1>3, <2>1, <2>2
<1>7. q - 1 \in Nat /\ LastPlace = q - 1 /\ q \in Nat \ {0}
  BY <1>3, <1>4, <1>6 DEF LastPlace
<1>8. DataBits * (q - 1) = DataBits * q - DataBits
  BY <1>1, <1>3
<1>9. Width - DataBits * LastPlace = r + 1 /\ DataBits * LastPlace \in Nat
  <2>1. DataBits * LastPlace \in Nat
    BY <1>1, <1>7
  <2>2. DataBits * q \in Int
    BY <1>1, <1>3
  <2> QED BY <1>1, <1>5, <1>7, <1>8, <2>1, <2>2
<1>10. r + 1 \in Nat \ {0} /\ r + 1 <= DataBits
  BY <1>1, <1>5
<1>11. 2 ^ Width = Place(LastPlace) * 2 ^ (Width - DataBits * LastPlace)
  <2>1. Width = DataBits * LastPlace + (Width - DataBits * LastPlace)
    BY <1>1, <1>9
  <2>2. 2 ^ (DataBits * LastPlace + (Width - DataBits * LastPlace))
          = 2 ^ (DataBits * LastPlace) * 2 ^ (Width - DataBits * LastPlace)
    BY <1>9, <1>10, PowerOfSum
  <2> QED BY <2>1, <2>2 DEF Place
<1>12. MAX_TENTH_VARINT_BYTE = 2 ^ (Width - DataBits * LastPlace) - 1
  BY DEF MAX_TENTH_VARINT_BYTE, LastPlace
<1>13. 2 ^ (r + 1) \in Nat \ {0} /\ 2 ^ (r + 1) <= Continuation
  BY <1>1, <1>10, PowerPositive, PowerGrows DEF Continuation
<1>14. 2 ^ Width <= Place(MAX_VARINT_BYTES)
  <2>1. /\ Place(LastPlace + 1) = Place(LastPlace) * Continuation
        /\ Place(LastPlace) \in Nat /\ Continuation \in Nat
    BY <1>7, Places
  <2>2. \A x, y, z \in Nat : y <= z => x * y <= x * z
    OBVIOUS
  <2>3. MAX_VARINT_BYTES = LastPlace + 1
    BY <1>3, <1>4, <1>7
  <2> QED BY <1>9, <1>11, <1>13, <2>1, <2>2, <2>3
<1>15. MAX_TENTH_VARINT_BYTE \in 0 .. Continuation - 1
  <2>1. Continuation \in Nat
    BY Places
  <2> QED BY <1>9, <1>12, <1>13, <2>1
<1>16. MAX_VARINT_BYTES = LastPlace + 1
  BY <1>3, <1>4, <1>7
<1> QED BY <1>4, <1>7, <1>9, <1>10, <1>11, <1>12, <1>14, <1>15, <1>16

-----------------------------------------------------------------------------
(* The bytes of a number.                                                  *)

Fits(n, k) == k \in Nat \ {0} /\ n < Place(k)

\* The bytes that a number takes, and what they hold.
Size(n)     == CHOOSE k \in Nat : Fits(n, k) /\ \A j \in Nat : Fits(n, j) => k <= j
Digit(n, i) == (n \div Place(i - 1)) % Continuation
Written(n)  == [i \in 1 .. Size(n) |-> IF i < Size(n) THEN Digit(n, i) + Continuation ELSE Digit(n, i)]

\* A number takes no more bytes than the longest varint has.
LEMMA SizeFits ==
  ASSUME NEW n \in Number64
  PROVE  /\ Size(n) \in 1 .. MAX_VARINT_BYTES /\ n < Place(Size(n))
         /\ \A j \in Nat : Fits(n, j) => Size(n) <= j
<1> DEFINE T == {k \in Nat : Fits(n, k)}
<1>1. MAX_VARINT_BYTES \in T
  <2>1. 2 ^ Width \in Nat /\ 2 ^ Width <= Place(MAX_VARINT_BYTES) /\ MAX_VARINT_BYTES \in Nat \ {0}
    BY LongestVarint, WidthAssumption, PowerPositive
  <2>2. Place(MAX_VARINT_BYTES) \in Nat
    BY <2>1, Places
  <2> QED BY <2>1, <2>2 DEF Fits, Number64
<1>2. \E k \in T : \A j \in T : k <= j
  <2>1. T \subseteq Nat
    OBVIOUS
  <2> HIDE DEF T
  <2> QED BY <1>1, <2>1, Least
<1>3. \E k \in Nat : Fits(n, k) /\ \A j \in Nat : Fits(n, j) => k <= j
  BY <1>2
<1>4. Size(n) \in Nat /\ Fits(n, Size(n)) /\ \A j \in Nat : Fits(n, j) => Size(n) <= j
  BY <1>3 DEF Size
<1>5. Size(n) \in Nat \ {0} /\ n < Place(Size(n))
  BY <1>4 DEF Fits
<1>6. Size(n) <= MAX_VARINT_BYTES
  BY <1>1, <1>4
<1>7. MAX_VARINT_BYTES \in Nat
  BY LongestVarint
<1> QED BY <1>4, <1>5, <1>6, <1>7

\* A number that does not fit one byte less takes as many bytes as it fits.
LEMMA SizeIs ==
  ASSUME NEW n \in Number64, NEW k \in Nat \ {0}, n < Place(k), k = 1 \/ Place(k - 1) <= n
  PROVE  Size(n) = k
<1>1. Size(n) \in Nat \ {0} /\ n < Place(Size(n)) /\ Size(n) <= k
  BY SizeFits, LongestVarint DEF Fits
<1>2. CASE k = 1
  BY <1>1, <1>2
<1>3. CASE Place(k - 1) <= n /\ Size(n) < k
  <2>1. k - 1 \in Nat /\ Size(n) <= k - 1
    BY <1>1, <1>3
  <2>2. Place(Size(n)) <= Place(k - 1)
    BY <1>1, <2>1, PlacesGrow
  <2>3. n \in Int /\ Place(k - 1) \in Int /\ Place(Size(n)) \in Int
    <3>1. n \in Int
      BY WidthAssumption, PowerPositive DEF Number64
    <3>2. Place(k - 1) \in Int
      BY <2>1, Places
    <3>3. Place(Size(n)) \in Int
      BY <1>1, Places
    <3> QED BY <3>1, <3>2, <3>3
  <2> QED BY <1>1, <1>3, <2>2, <2>3
<1> QED BY <1>1, <1>2, <1>3

\* A number is its low bits and the rest.
LEMMA Halves ==
  ASSUME NEW n \in Number64
  PROVE  /\ n \in Nat /\ n \div Continuation \in Number64 /\ n % Continuation \in 0 .. Continuation - 1
         /\ Makes(Continuation, n \div Continuation, n % Continuation, n)
         /\ n >= Continuation => n \div Continuation < n
<1>1. n \in Nat /\ n < 2 ^ Width /\ 2 ^ Width \in Nat
  BY WidthAssumption, PowerPositive DEF Number64
<1>2. Continuation \in Nat /\ Continuation > 1 /\ Continuation \in Nat \ {0}
  BY Places
<1>3. n \in Int /\ n \div Continuation \in Nat /\ n % Continuation \in Int
      /\ Makes(Continuation, n \div Continuation, n % Continuation, n)
  <2>1. n \in Int
    BY <1>1
  <2>2. n \div Continuation \in Nat
    BY <1>1, <1>2, NaturalQuotient
  <2>3. n % Continuation \in Int /\ Makes(Continuation, n \div Continuation, n % Continuation, n)
    BY <1>2, <2>1, Divided
  <2> QED BY <2>1, <2>2, <2>3
<1>4. PICK q \in Nat : q = n \div Continuation
  BY <1>3
<1>5. PICK r \in Int : r = n % Continuation
  BY <1>3
<1>6. r \in 0 .. Continuation - 1 /\ n = Continuation * q + r
  BY <1>3, <1>4, <1>5 DEF Makes
<1>7. Continuation * q >= q + q
  <2>1. PICK c \in Nat : Continuation = 2 + c
    <3>1. Continuation - 2 \in Nat /\ Continuation = 2 + (Continuation - 2)
      BY <1>2
    <3> QED BY <3>1
  <2>2. (2 + c) * q = q + q + c * q /\ c * q \in Nat
    OBVIOUS
  <2> QED BY <2>1, <2>2
<1>8. q <= n /\ (n >= Continuation => q < n)
  <2>1. Continuation * q \in Nat
    BY <1>2
  <2>2. CASE q = 0
    BY <1>1, <1>2, <1>6, <1>7, <2>1, <2>2
  <2>3. CASE q > 0
    BY <1>1, <1>2, <1>6, <1>7, <2>1, <2>3
  <2> QED BY <2>2, <2>3
<1>9. q \in Number64
  BY <1>1, <1>8 DEF Number64
<1> QED BY <1>1, <1>3, <1>4, <1>5, <1>6, <1>8, <1>9

\* A number in one byte.
LEMMA WrittenShort ==
  ASSUME NEW n \in Number64, n < Continuation
  PROVE  Written(n) = <<n>>
<1>1. n \in 0 .. Continuation - 1 /\ Continuation \in Nat \ {0} /\ Place(0) = 1
  <2>1. n \in Nat /\ Continuation \in Nat /\ Continuation \in Nat \ {0} /\ Place(0) = 1
    BY Halves, Places
  <2> QED BY <2>1
<1>2. Size(n) = 1
  <2>1. 1 \in Nat \ {0} /\ n < Place(1)
    BY Places
  <2> QED BY <2>1, SizeIs
<1>3. Digit(n, 1) = n
  <2>1. n \div 1 = n
    BY <1>1
  <2>2. 1 - 1 = 0 /\ n % Continuation = n
    BY <1>1, Remains
  <2> QED BY <1>1, <2>1, <2>2 DEF Digit
<1>4. Written(n) = [i \in 1 .. 1 |-> n]
  <2>1. \A i \in 1 .. 1 : i = 1 /\ ~(i < 1)
    OBVIOUS
  <2> QED BY <1>2, <1>3, <2>1 DEF Written
<1> QED BY <1>4

\* What a quotient holds.
LEMMA DigitsOfQuotient ==
  ASSUME NEW n \in Number64, NEW i \in Nat \ {0}
  PROVE  Digit(n, i + 1) = Digit(n \div Continuation, i) /\ Digit(n, 1) = n % Continuation
<1>1. n \in Int /\ Continuation \in Nat \ {0}
  <2>1. n \in Nat /\ Continuation \in Nat \ {0}
    BY Halves, Places
  <2> QED BY <2>1
<1>2. PICK j \in Nat : i = j + 1
  <2>1. i - 1 \in Nat /\ i = (i - 1) + 1
    OBVIOUS
  <2> QED BY <2>1
<1>3. Place(j) \in Nat \ {0} /\ Place(j + 1) = Place(j) * Continuation
  BY Places
<1>4. Place(j) * Continuation = Continuation * Place(j)
  BY <1>1, <1>3
<1>5. (n \div Continuation) \div Place(j) = n \div (Continuation * Place(j))
  <2>1. \A c, p \in Nat \ {0} : (n \div c) \div p = n \div (c * p)
    BY <1>1, DividedTwice
  <2> QED BY <1>1, <1>3, <2>1
<1>6. (i + 1) - 1 = j + 1 /\ i - 1 = j /\ 1 - 1 = 0
  BY <1>2
<1>7. n \div 1 = n /\ Place(0) = 1
  BY <1>1, Places
<1> QED BY <1>3, <1>4, <1>5, <1>6, <1>7 DEF Digit

\* A number in more bytes than one.
LEMMA WrittenLong ==
  ASSUME NEW n \in Number64, n >= Continuation
  PROVE  Written(n) = <<(n % Continuation) + Continuation>> \o Written(n \div Continuation)
<1> DEFINE m == n \div Continuation
<1>1. m \in Number64 /\ n \in Nat /\ Continuation \in Nat \ {0}
  BY Halves, Places
<1>2. PICK r \in 0 .. Continuation - 1 : n = Continuation * m + r
  <2>1. Makes(Continuation, m, n % Continuation, n)
    BY Halves
  <2> HIDE DEF m
  <2> QED BY <2>1 DEF Makes
<1> HIDE DEF m
<1>3. PICK k \in Nat \ {0} : k = Size(m)
  BY <1>1, SizeFits, LongestVarint
<1>4. m < Place(k) /\ m \in Nat
  BY <1>1, <1>3, SizeFits, Halves
<1>5. Place(k + 1) = Place(k) * Continuation /\ Place(k) \in Nat /\ Place(k + 1) \in Nat
  <2>1. k \in Nat /\ k + 1 \in Nat
    BY <1>3
  <2>2. Place(k) \in Nat \ {0} /\ Place(k + 1) \in Nat \ {0} /\ Place(k + 1) = Place(k) * Continuation
    BY <2>1, Places
  <2> QED BY <2>2
<1>6. n < Place(k + 1)
  <2>1. PICK d \in Nat : Place(k) = m + 1 + d
    <3>1. Place(k) - m - 1 \in Nat /\ Place(k) = m + 1 + (Place(k) - m - 1)
      BY <1>4, <1>5
    <3> QED BY <3>1
  <2>2. (m + 1 + d) * Continuation = Continuation * m + Continuation + d * Continuation
        /\ d * Continuation \in Nat /\ Continuation * m \in Nat
    BY <1>1, <1>4
  <2> QED BY <1>1, <1>2, <1>5, <2>1, <2>2
<1>7. Place((k + 1) - 1) <= n
  <2>1. (k + 1) - 1 = k
    BY <1>3
  <2>2. CASE k = 1
    BY <2>1, <2>2, Places
  <2>3. CASE k # 1
    <3>1. k - 1 \in Nat /\ k - 1 \in Nat \ {0} /\ ~(k <= k - 1) /\ (k - 1) + 1 = k
      BY <1>3, <2>3
    <3>2. ~(m < Place(k - 1))
      BY <1>1, <1>3, <3>1, SizeFits DEF Fits
    <3>3. Place(k) = Place(k - 1) * Continuation /\ Place(k - 1) \in Nat
      BY <3>1, Places
    <3>4. PICK d \in Nat : m = Place(k - 1) + d
      <4>1. m - Place(k - 1) \in Nat /\ m = Place(k - 1) + (m - Place(k - 1))
        BY <1>4, <3>2, <3>3
      <4> QED BY <4>1
    <3>5. \A x \in Nat : Continuation * (x + d) = x * Continuation + Continuation * d
      BY <1>1
    <3>6. Continuation * m = Place(k) + Continuation * d /\ Continuation * d \in Nat
      BY <1>1, <3>3, <3>4, <3>5
    <3> QED BY <1>1, <1>2, <1>5, <2>1, <3>6
  <2> QED BY <2>2, <2>3
<1>8. Size(n) = k + 1
  <2>1. k + 1 \in Nat \ {0}
    BY <1>3
  <2> QED BY <1>6, <1>7, <2>1, SizeIs
<1>9. \A i \in 1 .. k : Digit(n, i + 1) = Digit(m, i)
  <2>1. \A i \in 1 .. k : i \in Nat \ {0}
    BY <1>3
  <2> QED BY <2>1, DigitsOfQuotient DEF m
<1>10. Digit(n, 1) = n % Continuation
  BY DigitsOfQuotient
<1> DEFINE s == Written(m)
           c == (n % Continuation) + Continuation
<1>11. /\ DOMAIN s = 1 .. k
       /\ \A i \in 1 .. k : s[i] = IF i < k THEN Digit(m, i) + Continuation ELSE Digit(m, i)
  BY <1>3 DEF Written
<1>12. s \in Seq(Int) /\ c \in Int
  <2>1. \A i \in 1 .. k : Digit(m, i) \in Int
    <3>1. ASSUME NEW i \in 1 .. k PROVE Digit(m, i) \in Int
      <4>0. i - 1 \in Nat /\ m \in Int
        BY <1>3, <1>4
      <4>1. i - 1 \in Nat /\ Place(i - 1) \in Nat \ {0} /\ m \in Int
        BY <4>0, Places
      <4>2. m \div Place(i - 1) \in Int
        BY <4>1, Divided
      <4> QED BY <1>1, <4>2, Divided DEF Digit
    <3> QED BY <3>1
  <2>2. \A i \in 1 .. k : s[i] \in Int
    BY <1>1, <1>11, <2>1
  <2>3. s = [i \in 1 .. k |-> s[i]]
    BY <1>3 DEF Written
  <2>4. n % Continuation \in Int
    BY Halves
  <2> HIDE DEF s
  <2> QED BY <1>1, <1>3, <2>2, <2>3, <2>4
<1>13. Len(s) = k
  <2> HIDE DEF s
  <2> QED BY <1>3, <1>11, <1>12
<1> DEFINE t == Written(n)
<1>14. /\ DOMAIN t = 1 .. k + 1 /\ t = [i \in 1 .. k + 1 |-> t[i]]
       /\ \A i \in 1 .. k + 1 :
            t[i] = IF i < k + 1 THEN Digit(n, i) + Continuation ELSE Digit(n, i)
  BY <1>8 DEF Written
<1>15. ASSUME NEW i \in 1 .. k + 1 PROVE t[i] = (<<c>> \o s)[i]
  <2>1. CASE i = 1
    <3>1. (<<c>> \o s)[1] = c
      <4> HIDE DEF s, c
      <4> QED BY <1>12
    <3>2. 1 < k + 1
      BY <1>3
    <3> HIDE DEF t
    <3> QED BY <1>10, <1>14, <2>1, <3>1, <3>2
  <2>2. CASE i # 1
    <3>1. PICK j \in 1 .. k : i = j + 1
      <4>1. i - 1 \in 1 .. k /\ i = (i - 1) + 1
        BY <1>3, <2>2
      <4> QED BY <4>1
    <3>2. (<<c>> \o s)[j + 1] = s[j]
      <4> HIDE DEF s, c
      <4> QED BY <1>12, <1>13
    <3>3. j + 1 < k + 1 <=> j < k
      BY <1>3
    <3>4. t[j + 1] = s[j]
      <4> HIDE DEF t, s
      <4> QED BY <1>9, <1>11, <1>14, <3>1, <3>3
    <3> HIDE DEF s, t
    <3> QED BY <3>1, <3>2, <3>4
  <2> QED BY <2>1, <2>2
<1>16. (<<c>> \o s) = [i \in 1 .. k + 1 |-> (<<c>> \o s)[i]]
  <2> HIDE DEF s, c
  <2>1. (<<c>> \o s) \in Seq(Int) /\ Len(<<c>> \o s) = k + 1
    BY <1>3, <1>12, <1>13
  <2> QED BY <2>1
<1>17. t = <<c>> \o s
  <2> HIDE DEF s, t, c
  <2> QED BY <1>14, <1>15, <1>16
<1> QED BY <1>17 DEF m

\* vi writes the digits.
LEMMA ViWrites == \A n \in Number64 : vi[n] = Written(n)
<1> DEFINE Rest(g, n) == <<(n % Continuation) + Continuation>> \o g[n \div Continuation]
           Step(g) == [n \in Number64 |-> IF n < Continuation THEN <<n>> ELSE Rest(g, n)]
           G == [n \in Number64 |-> Written(n)]
<1>1. vi = CHOOSE g : g = Step(g)
  BY DEF vi, Number64
<1>2. G = Step(G)
  <2>1. ASSUME NEW n \in Number64, n >= Continuation PROVE Written(n) = Rest(G, n)
    <3>1. n \div Continuation \in Number64
      BY Halves
    <3>2. G[n \div Continuation] = Written(n \div Continuation)
      BY <3>1
    <3> HIDE DEF G
    <3>3. Written(n) = <<(n % Continuation) + Continuation>> \o Written(n \div Continuation)
      BY <2>1, WrittenLong
    <3> QED BY <3>2, <3>3
  <2>2. ASSUME NEW n \in Number64 PROVE n < Continuation \/ n >= Continuation
    <3>1. n \in Nat
      BY Halves
    <3>2. Continuation \in Nat
      BY Places
    <3> QED BY <3>1, <3>2
  <2>3. \A n \in Number64 : Written(n) = IF n < Continuation THEN <<n>> ELSE Rest(G, n)
    <3> HIDE DEF Rest, G
    <3> QED BY <2>1, <2>2, WrittenShort, Places, Halves
  <2> HIDE DEF Rest
  <2> QED BY <2>3
<1> HIDE DEF Step
<1>3. vi = Step(vi)
  <2> HIDE DEF G
  <2> QED BY <1>1, <1>2
<1>4. \A n \in Number64 : /\ vi[n] = IF n < Continuation THEN <<n>> ELSE Rest(vi, n)
                          /\ G[n] = IF n < Continuation THEN <<n>> ELSE Rest(G, n)
  <2> HIDE DEF G, Rest
  <2> QED BY <1>2, <1>3 DEF Step
<1>5. \A n \in Number64 : vi[n] = G[n]
  <2> HIDE DEF G
  <2> DEFINE T == {n \in Nat : n \in Number64 /\ vi[n] # G[n]}
  <2> SUFFICES ASSUME T # {} PROVE FALSE
    BY Halves
  <2>1. PICK n \in T : \A m \in T : n <= m
    <3>1. T \subseteq Nat
      OBVIOUS
    <3> HIDE DEF T
    <3> QED BY <3>1, Least
  <2>2. n \in Number64 /\ vi[n] # G[n] /\ ~(n < Continuation) /\ Rest(vi, n) # Rest(G, n)
    BY <1>4, <2>1
  <2>3. vi[n \div Continuation] # G[n \div Continuation]
    BY <2>2
  <2>4. n \div Continuation \in Number64 /\ n \div Continuation \in Nat /\ n \div Continuation < n
    <3>1. n \in Nat /\ Continuation \in Nat
      BY <2>2, Halves, Places
    <3>2. n >= Continuation
      BY <2>2, <3>1
    <3>3. n \div Continuation \in Number64 /\ n \div Continuation < n
      BY <2>2, <3>2, Halves
    <3> QED BY <3>3, Halves
  <2>5. n \div Continuation \in T
    BY <2>3, <2>4
  <2> QED BY <2>1, <2>4, <2>5
<1> QED BY <1>5

-----------------------------------------------------------------------------
(* What bytes spell.                                                       *)

\* F holds what the bytes spell up to each of the first n.
Spelling(F, bytes, n) ==
  F = [i \in 0 .. n |-> IF i = 0 THEN 0
                        ELSE F[i - 1] + (bytes[i] % Continuation) * Place(i - 1)]

\* One byte more.
LEMMA SpellingLonger ==
  ASSUME NEW bytes, NEW n \in Nat, NEW F, Spelling(F, bytes, n)
  PROVE  \E H : Spelling(H, bytes, n + 1)
<1> DEFINE Add(v, i) == v + (bytes[i] % Continuation) * Place(i - 1)
           H == [i \in 0 .. n + 1 |-> IF i = n + 1 THEN Add(F[n], n + 1) ELSE F[i]]
<1>1. \A i \in 0 .. n : F[i] = IF i = 0 THEN 0 ELSE Add(F[i - 1], i)
  BY DEF Spelling
<1>2. \A i \in 0 .. n : H[i] = F[i]
  <2>1. \A i \in 0 .. n : i \in 0 .. n + 1 /\ i # n + 1
    OBVIOUS
  <2> HIDE DEF Add
  <2> QED BY <2>1
<1>3. H[n + 1] = Add(F[n], n + 1) /\ H[n] = F[n] /\ n + 1 # 0 /\ (n + 1) - 1 = n
  <2>1. n \in 0 .. n /\ n + 1 \in 0 .. n + 1
    OBVIOUS
  <2> HIDE DEF Add
  <2> QED BY <1>2, <2>1
<1> HIDE DEF Add
<1>4. ASSUME NEW i \in 0 .. n + 1 PROVE H[i] = IF i = 0 THEN 0 ELSE Add(H[i - 1], i)
  <2>1. CASE i = n + 1
    <3> HIDE DEF H
    <3> QED BY <1>3, <2>1
  <2>2. CASE i # n + 1 /\ i # 0
    <3>1. i \in 0 .. n /\ i - 1 \in 0 .. n
      BY <2>2
    <3> HIDE DEF H
    <3> QED BY <1>1, <1>2, <2>2, <3>1
  <2>3. CASE i = 0
    <3>1. 0 \in 0 .. n
      OBVIOUS
    <3> HIDE DEF H
    <3> QED BY <1>1, <1>2, <2>3, <3>1
  <2> QED BY <2>1, <2>2, <2>3
<1>5. H = [i \in 0 .. n + 1 |-> IF i = 0 THEN 0 ELSE Add(H[i - 1], i)]
  <2>1. H = [i \in 0 .. n + 1 |-> H[i]]
    OBVIOUS
  <2> HIDE DEF H
  <2> QED BY <1>4, <2>1
<1> HIDE DEF H
<1>6. Spelling(H, bytes, n + 1)
  BY <1>5 DEF Spelling, Add
<1> QED BY <1>6

\* Any bytes can be spelled.
LEMMA SpellingExists ==
  ASSUME NEW bytes, NEW n \in Nat
  PROVE  \E F : Spelling(F, bytes, n)
<1> DEFINE T == {k \in Nat : ~\E F : Spelling(F, bytes, k)}
<1> SUFFICES ASSUME T # {} PROVE FALSE
  OBVIOUS
<1>1. PICK k \in T : \A j \in T : k <= j
  <2>1. T \subseteq Nat
    OBVIOUS
  <2> HIDE DEF T
  <2> QED BY <2>1, Least
<1>2. k # 0
  <2>1. Spelling([i \in 0 .. 0 |-> 0], bytes, 0)
    <3>1. \A i \in 0 .. 0 : i = 0
      OBVIOUS
    <3> QED BY <3>1 DEF Spelling
  <2> QED BY <1>1, <2>1
<1>3. k - 1 \in Nat /\ ~(k <= k - 1) /\ (k - 1) + 1 = k
  BY <1>1, <1>2
<1>4. PICK F : Spelling(F, bytes, k - 1)
  BY <1>1, <1>3
<1>5. \E H : Spelling(H, bytes, (k - 1) + 1)
  BY <1>3, <1>4, SpellingLonger
<1> QED BY <1>1, <1>3, <1>5

\* In one way only.
LEMMA SpellingUnique ==
  ASSUME NEW bytes, NEW n \in Nat, NEW m \in Nat, n <= m, NEW F, NEW G,
         Spelling(F, bytes, n), Spelling(G, bytes, m)
  PROVE  F[n] = G[n]
<1> DEFINE T == {k \in Nat : k <= n /\ F[k] # G[k]}
<1> SUFFICES ASSUME T # {} PROVE FALSE
  OBVIOUS
<1>1. PICK k \in T : \A j \in T : k <= j
  <2>1. T \subseteq Nat
    OBVIOUS
  <2> HIDE DEF T
  <2> QED BY <2>1, Least
<1>2. k \in 0 .. n /\ k \in 0 .. m /\ F[k] # G[k]
  BY <1>1
<1>3. /\ F[k] = IF k = 0 THEN 0 ELSE F[k - 1] + (bytes[k] % Continuation) * Place(k - 1)
      /\ G[k] = IF k = 0 THEN 0 ELSE G[k - 1] + (bytes[k] % Continuation) * Place(k - 1)
  BY <1>2 DEF Spelling
<1>4. k # 0 /\ F[k - 1] # G[k - 1]
  BY <1>2, <1>3
<1>5. k - 1 \in T /\ ~(k <= k - 1)
  BY <1>2, <1>4
<1> QED BY <1>1, <1>5

\* Spells adds byte after byte.
LEMMA SpellsNext ==
  ASSUME NEW bytes
  PROVE  /\ Spells(bytes, 0) = 0
         /\ \A k \in Nat : Spells(bytes, k + 1)
                             = Spells(bytes, k) + (bytes[k + 1] % Continuation) * Place(k)
<1> DEFINE G(n) == CHOOSE F : Spelling(F, bytes, n)
<1>1. \A n \in Nat : Spelling(G(n), bytes, n)
  BY SpellingExists
<1>2. \A n \in Nat : Spells(bytes, n) = G(n)[n]
  BY DEF Spells, Spelling, Place
<1> HIDE DEF G
<1>3. G(0)[0] = 0
  <2>1. 0 \in 0 .. 0 /\ Spelling(G(0), bytes, 0)
    BY <1>1
  <2> QED BY <2>1 DEF Spelling
<1>4. ASSUME NEW k \in Nat
      PROVE  Spells(bytes, k + 1) = Spells(bytes, k) + (bytes[k + 1] % Continuation) * Place(k)
  <2>1. k + 1 \in Nat /\ k <= k + 1 /\ k + 1 \in 0 .. k + 1 /\ k + 1 # 0 /\ (k + 1) - 1 = k
    OBVIOUS
  <2>2. Spelling(G(k + 1), bytes, k + 1) /\ Spelling(G(k), bytes, k)
    BY <1>1, <2>1
  <2>3. G(k + 1)[k + 1] = G(k + 1)[k] + (bytes[k + 1] % Continuation) * Place(k)
    BY <2>1, <2>2 DEF Spelling
  <2>4. G(k)[k] = G(k + 1)[k]
    BY <2>1, <2>2, SpellingUnique
  <2> QED BY <1>2, <2>1, <2>3, <2>4
<1> QED BY <1>2, <1>3, <1>4

\* Bytes that hold the digits of a number spell it.
LEMMA DigitsSpell ==
  ASSUME NEW n \in Nat, NEW bytes, NEW k \in Nat,
         \A i \in 1 .. k : bytes[i] % Continuation = Digit(n, i)
  PROVE  Spells(bytes, k) = n % Place(k)
<1> DEFINE T == {j \in Nat : j <= k /\ Spells(bytes, j) # n % Place(j)}
<1> SUFFICES ASSUME T # {} PROVE FALSE
  OBVIOUS
<1>1. PICK j \in T : \A i \in T : j <= i
  <2>1. T \subseteq Nat
    OBVIOUS
  <2> HIDE DEF T
  <2> QED BY <2>1, Least
<1>2. j # 0
  <2>1. n % 1 = 0
    OBVIOUS
  <2> QED BY <1>1, <2>1, SpellsNext, Places
<1>3. PICK i \in Nat : j = i + 1
  <2>1. j - 1 \in Nat /\ j = (j - 1) + 1
    BY <1>1, <1>2
  <2> QED BY <2>1
<1>4. Spells(bytes, i) = n % Place(i)
  BY <1>1, <1>3
<1>5. Spells(bytes, j) = (n % Place(i)) + Digit(n, j) * Place(i)
  <2>1. j \in 1 .. k
    BY <1>1, <1>3
  <2>2. Spells(bytes, i + 1) = Spells(bytes, i) + (bytes[i + 1] % Continuation) * Place(i)
    BY SpellsNext
  <2> QED BY <1>3, <1>4, <2>1, <2>2
<1>6. Place(i) \in Nat \ {0} /\ Continuation \in Nat \ {0} /\ Place(j) = Place(i) * Continuation
  BY <1>3, Places
<1>7. n \in Int /\ j - 1 = i
  BY <1>3
<1>8. n % Place(j) = Place(i) * Digit(n, j) + (n % Place(i))
  <2>1. n % (Place(i) * Continuation) = Place(i) * ((n \div Place(i)) % Continuation) + (n % Place(i))
    BY <1>6, <1>7, RemainderByProduct
  <2> QED BY <1>6, <1>7, <2>1 DEF Digit
<1>9. Digit(n, j) \in Int /\ n % Place(i) \in Int /\ Place(i) \in Int
  <2>1. n \div Place(i) \in Int /\ n % Place(i) \in Int
    BY <1>6, <1>7, Divided
  <2>2. (n \div Place(i)) % Continuation \in Int
    BY <1>6, <2>1, Divided
  <2> QED BY <1>6, <1>7, <2>1, <2>2 DEF Digit
<1>10. Spells(bytes, j) = n % Place(j)
  <2>1. PICK d \in Int : d = Digit(n, j)
    BY <1>9
  <2>2. PICK r \in Int : r = n % Place(i)
    BY <1>9
  <2>3. PICK p \in Int : p = Place(i)
    BY <1>9
  <2>4. r + d * p = p * d + r
    OBVIOUS
  <2> QED BY <1>5, <1>8, <2>1, <2>2, <2>3, <2>4
<1> QED BY <1>1, <1>10

\* The digits of a number are not changed by later ones.
LEMMA EarlierDigits ==
  ASSUME NEW n \in Nat, NEW d \in Nat, NEW k \in Nat, NEW j \in 1 .. k
  PROVE  Digit(n + d * Place(k), j) = Digit(n, j)
<1>1. PICK i \in Nat : j = i + 1
  <2>1. j - 1 \in Nat /\ j = (j - 1) + 1
    OBVIOUS
  <2> QED BY <2>1
<1>2. PICK g \in Nat : k = i + (g + 1)
  <2>1. k - i - 1 \in Nat /\ k = i + ((k - i - 1) + 1)
    BY <1>1
  <2> QED BY <2>1
<1>3. PICK p \in Nat \ {0} : p = Place(i)
  BY Places
<1>4. PICK q \in Nat \ {0} : q = Place(g)
  BY Places
<1>5. PICK c \in Nat \ {0} : c = Continuation
  BY Places
<1>6. Place(k) = p * (q * c)
  <2>1. g + 1 \in Nat
    OBVIOUS
  <2>2. Place(i + (g + 1)) = Place(i) * Place(g + 1)
    BY <2>1, PlacesApart
  <2>3. Place(g + 1) = Place(g) * Continuation
    BY Places
  <2> QED BY <1>2, <1>3, <1>4, <1>5, <2>2, <2>3
<1>7. PICK m \in Int : m = c * (d * q)
  <2>1. c * (d * q) \in Int
    OBVIOUS
  <2> QED BY <2>1
<1>8. n + d * Place(k) = n + p * m
  <2>1. d * (p * (q * c)) = p * (c * (d * q))
    OBVIOUS
  <2> QED BY <1>6, <1>7, <2>1
<1>9. (n + p * m) \div p = (n \div p) + m
  <2>1. n \in Int
    OBVIOUS
  <2> QED BY <2>1, QuotientOfSum
<1>10. n \div p \in Int
  <2>1. n \in Int
    OBVIOUS
  <2> QED BY <2>1, Divided
<1>11. ((n \div p) + m) % c = (n \div p) % c
  <2>1. PICK h \in Int : h = n \div p
    BY <1>10
  <2>2. d * q \in Int
    OBVIOUS
  <2>3. (h + c * (d * q)) % c = h % c
    BY <2>2, RemainderOfSum
  <2> QED BY <1>7, <2>1, <2>3
<1>12. j - 1 = i
  BY <1>1
<1> QED BY <1>3, <1>5, <1>8, <1>9, <1>11, <1>12 DEF Digit

\* What bytes spell has their digits.
LEMMA SpelledDigits ==
  ASSUME NEW k \in Nat, NEW bytes, \A i \in 1 .. k : bytes[i] \in Nat
  PROVE  /\ Spells(bytes, k) \in 0 .. Place(k) - 1
         /\ \A i \in 1 .. k : Digit(Spells(bytes, k), i) = bytes[i] % Continuation
<1> DEFINE Good(j) == /\ Spells(bytes, j) \in 0 .. Place(j) - 1
                      /\ \A i \in 1 .. j : Digit(Spells(bytes, j), i) = bytes[i] % Continuation
           T == {j \in Nat : j <= k /\ ~Good(j)}
<1> SUFFICES ASSUME T # {} PROVE FALSE
  OBVIOUS
<1>1. PICK j \in T : \A i \in T : j <= i
  <2>1. T \subseteq Nat
    OBVIOUS
  <2> HIDE DEF T
  <2> QED BY <2>1, Least
<1>2. j \in Nat /\ j <= k /\ ~Good(j)
  BY <1>1
<1>3. j # 0
  <2>1. Spells(bytes, 0) = 0 /\ Place(0) = 1 /\ 1 .. 0 = {} /\ 0 \in 0 .. 1 - 1
    BY SpellsNext, Places
  <2> QED BY <1>2, <2>1
<1>4. PICK h \in Nat : j = h + 1
  <2>1. j - 1 \in Nat /\ j = (j - 1) + 1
    BY <1>2, <1>3
  <2> QED BY <2>1
<1>5. Good(h)
  <2>1. h <= k /\ ~(j <= h)
    BY <1>2, <1>4
  <2> HIDE DEF Good
  <2> QED BY <1>1, <2>1
<1>6. PICK d \in 0 .. Continuation - 1 : d = bytes[j] % Continuation
  <2>1. j \in 1 .. k /\ Continuation \in Nat \ {0}
    BY <1>2, <1>4, Places
  <2>2. bytes[j] \in Int
    BY <2>1
  <2>3. Makes(Continuation, bytes[j] \div Continuation, bytes[j] % Continuation, bytes[j])
    BY <2>1, <2>2, Divided
  <2> QED BY <2>3 DEF Makes
<1>7. PICK s \in Nat : s = Spells(bytes, h) /\ s < Place(h)
  <2>1. Place(h) \in Nat
    BY Places
  <2> QED BY <1>5, <2>1
<1>8. Spells(bytes, j) = s + d * Place(h)
  <2>1. Spells(bytes, h + 1) = Spells(bytes, h) + (bytes[h + 1] % Continuation) * Place(h)
    BY SpellsNext
  <2> QED BY <1>4, <1>6, <1>7, <2>1
<1>9. PICK p \in Nat \ {0} : p = Place(h)
  BY Places
<1>10. PICK c \in Nat \ {0} : c = Continuation /\ Place(j) = p * c
  BY <1>4, <1>9, Places
<1>11. s + d * p \in 0 .. p * c - 1
  <2>1. PICK e \in Nat : c = d + 1 + e
    <3>1. c - d - 1 \in Nat /\ c = d + 1 + (c - d - 1)
      BY <1>6, <1>10
    <3> QED BY <3>1
  <2>2. d \in Nat
    BY <1>6, <1>10
  <2>3. p * (d + 1 + e) = d * p + p + p * e /\ p * e \in Nat /\ d * p \in Nat
    BY <2>2
  <2> QED BY <1>7, <1>9, <2>1, <2>2, <2>3
<1>12. Spells(bytes, j) \in 0 .. Place(j) - 1
  BY <1>8, <1>9, <1>10, <1>11
<1>13. ASSUME NEW i \in 1 .. j PROVE Digit(Spells(bytes, j), i) = bytes[i] % Continuation
  <2>1. CASE i = j
    <3>1. Makes(p, d, s, s + d * p)
      <4>1. d * p = p * d /\ s \in 0 .. p - 1 /\ d \in Int
        BY <1>6, <1>7, <1>9, <1>10
      <4> QED BY <1>7, <1>9, <4>1 DEF Makes
    <3>2. (s + d * p) \div p = d
      <4>1. d \in Int
        BY <1>6, <1>10
      <4> QED BY <3>1, <4>1, DividedAs
    <3>3. d % Continuation = d
      BY <1>6, <1>10, Remains
    <3>4. j - 1 = h
      BY <1>4
    <3> QED BY <1>6, <1>8, <1>9, <2>1, <3>2, <3>3, <3>4 DEF Digit
  <2>2. CASE i # j
    <3>1. i \in 1 .. h
      BY <1>4, <2>2
    <3>2. d \in Nat
      BY <1>6, <1>10
    <3>3. Digit(s + d * Place(h), i) = Digit(s, i)
      BY <3>1, <3>2, EarlierDigits
    <3> QED BY <1>5, <1>7, <1>8, <3>1, <3>3
  <2> QED BY <2>1, <2>2
<1> QED BY <1>2, <1>12, <1>13

-----------------------------------------------------------------------------
(* Varints.                                                                *)

\* The first byte without the continuation bit is the one at len.
EndsAt(bytes, len) ==
  len \in DOMAIN bytes /\ bytes[len] < Continuation /\ \A i \in 1 .. len - 1 : bytes[i] >= Continuation

\* What is in a byte.
LEMMA ByteHolds ==
  ASSUME NEW b \in Byte
  PROVE  /\ b \in Nat /\ Continuation \in Nat /\ b % Continuation \in 0 .. Continuation - 1
         /\ b < Continuation  => b % Continuation = b
         /\ b >= Continuation => b = (b % Continuation) + Continuation
<1>1. Continuation \in Nat \ {0} /\ b \in Nat /\ b < 2 * Continuation
  BY Places
<1>2. CASE b < Continuation
  <2>1. b \in 0 .. Continuation - 1
    BY <1>1, <1>2
  <2>2. b % Continuation = b
    BY <1>1, <2>1, Remains
  <2> QED BY <1>1, <1>2, <2>1, <2>2
<1>3. CASE b >= Continuation
  <2>1. PICK d \in 0 .. Continuation - 1 : b = Continuation * 1 + d
    <3>1. b - Continuation \in 0 .. Continuation - 1 /\ b = Continuation * 1 + (b - Continuation)
      BY <1>1, <1>3
    <3> QED BY <3>1
  <2>2. Makes(Continuation, 1, d, b)
    BY <2>1 DEF Makes
  <2>3. b % Continuation = d
    BY <1>1, <2>2, DividedAs
  <2> QED BY <1>1, <1>3, <2>1, <2>3
<1> QED BY <1>1, <1>2, <1>3

\* A sequence that ends in one way.
LEMMA EndsOnce ==
  ASSUME NEW bytes \in Seq(Byte), NEW len, EndsAt(bytes, len)
  PROVE  /\ len \in Nat \ {0} /\ len \in 1 .. Len(bytes)
         /\ Min({i \in DOMAIN bytes : bytes[i] < Continuation}) = len
<1> DEFINE ends == {i \in DOMAIN bytes : bytes[i] < Continuation}
<1>1. DOMAIN bytes = 1 .. Len(bytes) /\ Len(bytes) \in Nat /\ \A i \in DOMAIN bytes : bytes[i] \in Byte
  OBVIOUS
<1>2. len \in ends /\ len \in 1 .. Len(bytes)
  BY <1>1 DEF EndsAt
<1>3. \A i \in ends : len <= i
  <2>1. ASSUME NEW i \in ends, i < len PROVE FALSE
    <3>1. i \in 1 .. len - 1
      BY <1>1, <1>2, <2>1
    <3>2. bytes[i] >= Continuation /\ bytes[i] < Continuation /\ bytes[i] \in Byte
      BY <1>1, <2>1, <3>1 DEF EndsAt
    <3> QED BY <3>2, ByteHolds
  <2> QED BY <1>1, <1>2, <2>1
<1>4. \A x \in ends : (\A y \in ends : x <= y) => x = len
  BY <1>1, <1>2, <1>3
<1>5. Min(ends) = len
  <2> HIDE DEF ends
  <2> QED BY <1>2, <1>3, <1>4 DEF Min
<1> QED BY <1>2, <1>5

\* A sequence with an end has a first.
LEMMA EndsFirst ==
  ASSUME NEW bytes \in Seq(Byte), {i \in DOMAIN bytes : bytes[i] < Continuation} # {}
  PROVE  EndsAt(bytes, Min({i \in DOMAIN bytes : bytes[i] < Continuation}))
<1> DEFINE ends == {i \in DOMAIN bytes : bytes[i] < Continuation}
<1>1. DOMAIN bytes = 1 .. Len(bytes) /\ Len(bytes) \in Nat /\ \A i \in DOMAIN bytes : bytes[i] \in Byte
  OBVIOUS
<1>2. PICK len \in ends : \A i \in ends : len <= i
  <2>1. ends \subseteq Nat /\ ends # {}
    BY <1>1
  <2> HIDE DEF ends
  <2> QED BY <2>1, Least
<1>3. ASSUME NEW i \in 1 .. len - 1 PROVE bytes[i] >= Continuation
  <2>1. i \in DOMAIN bytes /\ ~(len <= i)
    BY <1>1, <1>2
  <2>2. ~(bytes[i] < Continuation) /\ bytes[i] \in Byte
    BY <1>1, <1>2, <2>1
  <2>3. bytes[i] \in Nat /\ Continuation \in Nat
    BY <2>2, ByteHolds
  <2> QED BY <2>2, <2>3
<1>4. EndsAt(bytes, len)
  BY <1>2, <1>3 DEF EndsAt
<1>5. Min(ends) = len
  BY <1>4, EndsOnce
<1> QED BY <1>4, <1>5

\* What vi writes.
LEMMA WrittenBytes ==
  ASSUME NEW n \in Number64
  PROVE  /\ vi[n] \in Seq(Byte) /\ Len(vi[n]) = Size(n) /\ EndsAt(vi[n], Size(n))
         /\ \A i \in 1 .. Size(n) : vi[n][i] % Continuation = Digit(n, i)
         /\ Spells(vi[n], Size(n)) = n
         /\ Size(n) = MAX_VARINT_BYTES => vi[n][Size(n)] <= MAX_TENTH_VARINT_BYTE
<1>1. PICK k \in Nat \ {0} : k = Size(n)
  BY SizeFits, LongestVarint
<1>2. PICK b : b = vi[n]
  OBVIOUS
<1>3. PICK c \in Nat \ {0} : c = Continuation
  BY Places
<1>4. b = [i \in 1 .. k |-> IF i < k THEN Digit(n, i) + c ELSE Digit(n, i)]
  BY <1>1, <1>2, <1>3, ViWrites DEF Written
<1>5. n \in Int /\ n \in Nat
  BY Halves
<1>6. ASSUME NEW i \in 1 .. k PROVE Digit(n, i) \in 0 .. c - 1
  <2>1. i - 1 \in Nat
    OBVIOUS
  <2>2. Place(i - 1) \in Nat \ {0}
    BY <2>1, Places
  <2>3. n \div Place(i - 1) \in Int
    BY <1>5, <2>2, Divided
  <2>4. PICK q \in Int : q = n \div Place(i - 1)
    BY <2>3
  <2>5. Makes(c, q \div c, q % c, q)
    BY Divided
  <2> QED BY <1>3, <2>4, <2>5 DEF Digit, Makes
<1>7. DOMAIN b = 1 .. k /\ \A i \in 1 .. k : b[i] = IF i < k THEN Digit(n, i) + c ELSE Digit(n, i)
  BY <1>4
<1>8. ASSUME NEW i \in 1 .. k PROVE b[i] \in Byte
  <2>1. Byte = 0 .. 2 * c - 1
    BY <1>3, Places
  <2>2. Digit(n, i) \in 0 .. c - 1
    BY <1>6
  <2>3. b[i] = IF i < k THEN Digit(n, i) + c ELSE Digit(n, i)
    BY <1>7
  <2> QED BY <2>1, <2>2, <2>3
<1>9. b \in Seq(Byte) /\ Len(b) = k
  <2>1. b = [i \in 1 .. k |-> b[i]]
    BY <1>4
  <2>2. b \in [1 .. k -> Byte]
    BY <1>8, <2>1
  <2> QED BY <2>2
<1>10. EndsAt(b, k)
  <2>1. k \in 1 .. k /\ ~(k < k)
    OBVIOUS
  <2>2. \A i \in 1 .. k - 1 : i \in 1 .. k /\ i < k
    OBVIOUS
  <2>3. b[k] = Digit(n, k) /\ \A i \in 1 .. k - 1 : b[i] = Digit(n, i) + c
    BY <1>7, <2>1, <2>2
  <2>4. b[k] < c /\ \A i \in 1 .. k - 1 : b[i] >= c
    BY <1>6, <2>1, <2>2, <2>3
  <2> QED BY <1>3, <1>7, <2>4 DEF EndsAt
<1>11. ASSUME NEW i \in 1 .. k PROVE b[i] % Continuation = Digit(n, i)
  <2>1. CASE i < k
    <3>1. b[i] = Digit(n, i) + c /\ b[i] >= c
      BY <1>6, <1>7, <2>1
    <3>2. b[i] = (b[i] % Continuation) + Continuation /\ b[i] % Continuation \in Int
      BY <1>3, <1>8, <3>1, ByteHolds
    <3> QED BY <1>3, <1>6, <3>1, <3>2
  <2>2. CASE ~(i < k)
    <3>1. b[i] = Digit(n, i) /\ b[i] < c
      BY <1>6, <1>7, <2>2
    <3> QED BY <1>3, <1>8, <3>1, ByteHolds
  <2> QED BY <2>1, <2>2
<1>12. Spells(b, k) = n
  <2>1. Spells(b, k) = n % Place(k)
    BY <1>5, <1>11, DigitsSpell
  <2>2. n < Place(k) /\ Place(k) \in Nat \ {0}
    BY <1>1, SizeFits, Places
  <2>3. n \in 0 .. Place(k) - 1
    BY <1>5, <2>2
  <2> QED BY <2>1, <2>2, <2>3, Remains
<1>13. ASSUME k = MAX_VARINT_BYTES PROVE b[k] <= MAX_TENTH_VARINT_BYTE
  <2>1. PICK x \in Nat \ {0} : x = 2 ^ (Width - DataBits * LastPlace)
    BY LongestVarint, PowerPositive
  <2>2. PICK p \in Nat \ {0} : p = Place(LastPlace)
    BY LongestVarint, Places
  <2>3. n < p * x
    BY <2>1, <2>2, LongestVarint, PowerPositive, WidthAssumption DEF Number64
  <2>4. PICK q \in Nat : q = n \div p
    BY <1>5, NaturalQuotient
  <2>5. Makes(p, q, n % p, n)
    BY <1>5, <2>4, Divided
  <2>6. q <= x - 1
    <3>1. PICK r \in Nat : n = p * q + r
      BY <2>5 DEF Makes
    <3>2. ASSUME NEW y \in Nat, q = x + y PROVE FALSE
      <4>1. p * (x + y) = p * x + p * y /\ p * y \in Nat /\ p * x \in Nat
        OBVIOUS
      <4> QED BY <2>3, <3>1, <3>2, <4>1
    <3>3. q >= x => q - x \in Nat /\ q = x + (q - x)
      OBVIOUS
    <3> QED BY <3>2, <3>3
  <2>7. MAX_TENTH_VARINT_BYTE = x - 1 /\ x - 1 <= c - 1
    BY <1>3, <2>1, LongestVarint
  <2>8. q % c = q
    <3>1. q \in 0 .. c - 1
      BY <2>6, <2>7
    <3> QED BY <3>1, Remains
  <2>9. k - 1 = LastPlace
    BY <1>13 DEF LastPlace
  <2>10. b[k] = Digit(n, k)
    BY <1>7
  <2> QED BY <1>3, <2>2, <2>4, <2>6, <2>7, <2>8, <2>9, <2>10 DEF Digit
<1> QED BY <1>1, <1>2, <1>9, <1>10, <1>11, <1>12, <1>13

\* The last byte leaves no bit out.
LEMMA SpelledInRange ==
  ASSUME NEW bytes \in Seq(Byte), NEW len, EndsAt(bytes, len), len <= MAX_VARINT_BYTES,
         len = MAX_VARINT_BYTES => bytes[len] <= MAX_TENTH_VARINT_BYTE
  PROVE  Spells(bytes, len) \in Number64
<1>1. len \in Nat \ {0} /\ len \in 1 .. Len(bytes)
  BY EndsOnce
<1>2. \A i \in 1 .. len : bytes[i] \in Byte
  BY <1>1
<1>3. \A i \in 1 .. len : bytes[i] \in Nat
  BY <1>2, ByteHolds
<1>4. PICK x \in Nat \ {0} : x = 2 ^ (Width - DataBits * LastPlace)
  BY LongestVarint, PowerPositive
<1>5. PICK p \in Nat \ {0} : p = Place(LastPlace)
  BY LongestVarint, Places
<1>6. 2 ^ Width = p * x /\ MAX_TENTH_VARINT_BYTE = x - 1
  BY <1>4, <1>5, LongestVarint
<1>7. CASE len < MAX_VARINT_BYTES
  <2>1. len \in Nat /\ LastPlace \in Nat /\ len <= LastPlace
    BY <1>1, <1>7, LongestVarint
  <2>2. Place(len) \in Nat /\ Place(len) <= p
    BY <1>5, <2>1, Places, PlacesGrow
  <2>3. Spells(bytes, len) \in 0 .. Place(len) - 1
    BY <1>3, <2>1, SpelledDigits
  <2>4. p <= p * x
    OBVIOUS
  <2> QED BY <1>6, <2>2, <2>3, <2>4 DEF Number64
<1>8. CASE len = MAX_VARINT_BYTES
  <2>1. LastPlace \in Nat /\ len = LastPlace + 1
    BY <1>8, LongestVarint
  <2>2. PICK d \in Nat : d = bytes[len] % Continuation /\ d <= x - 1
    <3>1. bytes[len] % Continuation = bytes[len] /\ bytes[len] \in Nat
      BY <1>1, <1>2, ByteHolds DEF EndsAt
    <3> QED BY <1>6, <1>8, <3>1
  <2>3. PICK s \in Nat : s = Spells(bytes, LastPlace) /\ s < p
    <3>1. \A i \in 1 .. LastPlace : bytes[i] \in Nat
      BY <1>3, <2>1
    <3>2. Spells(bytes, LastPlace) \in 0 .. p - 1
      BY <1>5, <2>1, <3>1, SpelledDigits
    <3> QED BY <3>2
  <2>4. Spells(bytes, len) = s + d * p
    <3>1. Spells(bytes, LastPlace + 1)
            = Spells(bytes, LastPlace) + (bytes[LastPlace + 1] % Continuation) * Place(LastPlace)
      BY <2>1, SpellsNext
    <3> QED BY <1>5, <2>1, <2>2, <2>3, <3>1
  <2>5. s + d * p \in 0 .. p * x - 1
    <3>1. PICK e \in Nat : x = d + 1 + e
      <4>1. x - d - 1 \in Nat /\ x = d + 1 + (x - d - 1)
        BY <2>2
      <4> QED BY <4>1
    <3>2. p * (d + 1 + e) = d * p + p + p * e /\ p * e \in Nat /\ d * p \in Nat
      OBVIOUS
    <3> QED BY <2>3, <3>1, <3>2
  <2> QED BY <1>6, <2>4, <2>5 DEF Number64
<1>9. MAX_VARINT_BYTES \in Nat
  BY LongestVarint
<1> QED BY <1>1, <1>7, <1>8, <1>9

\* As short as the number it spells, a varint is the one that is written.
LEMMA ShortestIsWritten ==
  ASSUME NEW bytes \in Seq(Byte), NEW len, EndsAt(bytes, len),
         NEW n \in Number64, n = Spells(bytes, len), len = Len(vi[n])
  PROVE  SubSeq(bytes, 1, len) = vi[n]
<1>1. len \in Nat \ {0} /\ len \in 1 .. Len(bytes)
  BY EndsOnce
<1>2. \A i \in 1 .. len : bytes[i] \in Byte
  BY <1>1
<1>3. \A i \in 1 .. len : bytes[i] \in Nat
  BY <1>2, ByteHolds
<1>4. \A i \in 1 .. len : Digit(n, i) = bytes[i] % Continuation
  BY <1>1, <1>3, SpelledDigits
<1>5. Size(n) = len /\ vi[n] = Written(n)
  BY WrittenBytes, ViWrites
<1>6. ASSUME NEW i \in 1 .. len
      PROVE  bytes[i] = IF i < len THEN Digit(n, i) + Continuation ELSE Digit(n, i)
  <2>1. CASE i < len
    <3>1. i \in 1 .. len - 1
      BY <1>1, <2>1
    <3>2. bytes[i] >= Continuation
      BY <3>1 DEF EndsAt
    <3> QED BY <1>2, <1>4, <2>1, <3>2, ByteHolds
  <2>2. CASE ~(i < len)
    <3>1. i = len /\ bytes[i] < Continuation
      BY <1>1, <2>2 DEF EndsAt
    <3> QED BY <1>2, <1>4, <2>2, <3>1, ByteHolds
  <2> QED BY <2>1, <2>2
<1>7. SubSeq(bytes, 1, len) = [i \in 1 .. len |-> bytes[i]]
  BY <1>1
<1>8. vi[n] = [i \in 1 .. len |-> IF i < len THEN Digit(n, i) + Continuation ELSE Digit(n, i)]
  BY <1>5 DEF Written
<1> QED BY <1>6, <1>7, <1>8

\* What read_varint returns is the number that its bytes spell, up to the first that
\* ends it; minimal, they are those that vi writes.
LEMMA VarintRead ==
  ASSUME NEW bytes \in Seq(Byte), NEW minimal, NEW r \in read_varint(bytes, minimal)
  PROVE  /\ r = <<r[1], r[2]>> /\ EndsAt(bytes, r[2])
         /\ r[1] = Spells(bytes, r[2]) /\ r[1] \in Number64
         /\ minimal => SubSeq(bytes, 1, r[2]) = vi[r[1]]
<1> DEFINE ends == {i \in DOMAIN bytes : bytes[i] < Continuation}
           len  == Min(ends)
           n    == Spells(bytes, len) % 2 ^ Width
<1>1. /\ ends # {} /\ ~(len > MAX_VARINT_BYTES)
      /\ ~(len = MAX_VARINT_BYTES /\ bytes[len] > MAX_TENTH_VARINT_BYTE)
      /\ ~(minimal /\ len # Len(vi[n])) /\ r = <<n, len>>
  BY DEF read_varint
<1>2. EndsAt(bytes, len)
  BY <1>1, EndsFirst
<1> HIDE DEF ends, len
<1>3. len \in Nat \ {0} /\ len \in 1 .. Len(bytes)
  BY <1>2, EndsOnce
<1>4. len <= MAX_VARINT_BYTES /\ (len = MAX_VARINT_BYTES => bytes[len] <= MAX_TENTH_VARINT_BYTE)
  <2>1. MAX_VARINT_BYTES \in Nat /\ MAX_TENTH_VARINT_BYTE \in Int
    BY LongestVarint
  <2>2. bytes[len] \in Nat
    BY <1>3, ByteHolds
  <2> QED BY <1>1, <1>3, <2>1, <2>2
<1>5. Spells(bytes, len) \in Number64
  BY <1>2, <1>4, SpelledInRange
<1>6. n = Spells(bytes, len)
  <2>1. 2 ^ Width \in Nat \ {0}
    BY WidthAssumption, PowerPositive
  <2> QED BY <1>5, <2>1, Remains DEF Number64
<1>7. minimal => SubSeq(bytes, 1, len) = vi[n]
  <2> HIDE DEF n
  <2>1. n \in Number64
    BY <1>5, <1>6
  <2> QED BY <1>1, <1>2, <1>6, <2>1, ShortestIsWritten
<1> HIDE DEF n
<1> QED BY <1>1, <1>2, <1>5, <1>6, <1>7

\* What vi writes is read as the number, under any policy.
LEMMA VarintWritten ==
  ASSUME NEW number \in Number64, NEW minimal
  PROVE  read_varint(vi[number], minimal) = {<<number, Len(vi[number])>>}
<1> DEFINE bytes == vi[number]
           ends == {i \in DOMAIN bytes : bytes[i] < Continuation}
           len  == Min(ends)
           n    == Spells(bytes, len) % 2 ^ Width
<1>1. bytes \in Seq(Byte) /\ EndsAt(bytes, Size(number)) /\ Len(bytes) = Size(number)
  BY WrittenBytes
<1>2. len = Size(number)
  <2> HIDE DEF bytes
  <2> QED BY <1>1, EndsOnce
<1>3. ends # {}
  BY <1>1 DEF EndsAt
<1>4. n = number
  <2>1. 2 ^ Width \in Nat \ {0}
    BY WidthAssumption, PowerPositive
  <2>2. number \in 0 .. 2 ^ Width - 1
    BY DEF Number64
  <2>3. Spells(bytes, Size(number)) = number
    BY WrittenBytes
  <2> HIDE DEF len, bytes
  <2> QED BY <1>2, <2>1, <2>2, <2>3, Remains
<1>5. ~(len > MAX_VARINT_BYTES) /\ ~(len = MAX_VARINT_BYTES /\ bytes[len] > MAX_TENTH_VARINT_BYTE)
  <2>1. Size(number) \in 1 .. MAX_VARINT_BYTES /\ MAX_VARINT_BYTES \in Nat
    BY SizeFits, LongestVarint
  <2>2. Size(number) = MAX_VARINT_BYTES => bytes[Size(number)] <= MAX_TENTH_VARINT_BYTE
    BY WrittenBytes
  <2>3. bytes[Size(number)] \in Nat /\ MAX_TENTH_VARINT_BYTE \in Int
    <3>1. bytes[Size(number)] \in Byte
      BY <1>1 DEF EndsAt
    <3> QED BY <3>1, ByteHolds, LongestVarint
  <2> HIDE DEF len, bytes
  <2> QED BY <1>2, <2>1, <2>2, <2>3
<1>6. ~(minimal /\ len # Len(vi[n]))
  <2> HIDE DEF len, n
  <2> QED BY <1>1, <1>2, <1>4 DEF bytes
<1>7. read_varint(bytes, minimal) = {<<n, len>>}
  BY <1>3, <1>5, <1>6 DEF read_varint
<1> HIDE DEF n, len
<1> QED BY <1>1, <1>2, <1>4, <1>7 DEF bytes

-----------------------------------------------------------------------------
(* Scalars.                                                                *)

\* Half of the numbers of some bits are the negative ones.
LEMMA HalfOf ==
  ASSUME NEW bits \in Nat \ {0}
  PROVE  2 ^ (bits - 1) \in Nat \ {0} /\ 2 ^ bits = 2 * 2 ^ (bits - 1) /\ 2 ^ bits \in Nat \ {0}
<1>1. bits - 1 \in Nat /\ (bits - 1) + 1 = bits /\ bits \in Nat
  OBVIOUS
<1>2. 2 ^ ((bits - 1) + 1) = 2 * 2 ^ (bits - 1)
  BY <1>1, PowerNext
<1> QED BY <1>1, <1>2, PowerPositive

\* A number that is taken for a signed one is its residue.
LEMMA SignedIs ==
  ASSUME NEW bits \in Nat \ {0}, NEW n \in 0 .. 2 ^ bits - 1
  PROVE  /\ Signed(n, bits) \in -(2 ^ (bits - 1)) .. 2 ^ (bits - 1) - 1
         /\ Signed(n, bits) % 2 ^ bits = n
<1>1. PICK h \in Nat \ {0} : h = 2 ^ (bits - 1)
  BY HalfOf
<1>2. PICK m \in Nat \ {0} : m = 2 ^ bits /\ m = 2 * h
  BY <1>1, HalfOf
<1>3. n \in 0 .. m - 1 /\ n + h \in Int
  BY <1>1, <1>2
<1>4. PICK q \in Int : q = (n + h) \div m
  BY <1>3, Divided
<1>5. PICK r \in Int : r = (n + h) % m
  BY <1>3, Divided
<1>6. Makes(m, q, r, n + h)
  BY <1>3, <1>4, <1>5, Divided
<1>7. r \in 0 .. m - 1 /\ n + h = m * q + r
  BY <1>6 DEF Makes
<1>8. Signed(n, bits) = r - h
  BY <1>1, <1>2, <1>5 DEF Signed
<1>9. Makes(m, -q, n, r - h)
  <2>1. m * (-q) = -(m * q) /\ m * q \in Int
    OBVIOUS
  <2>2. r - h = m * (-q) + n
    BY <1>3, <1>7, <2>1
  <2> QED BY <1>3, <2>2 DEF Makes
<1>10. (r - h) % m = n
  <2>1. -q \in Int
    OBVIOUS
  <2> QED BY <1>9, <2>1, DividedAs
<1>11. r - h \in -h .. h - 1
  BY <1>2, <1>7
<1> QED BY <1>1, <1>2, <1>8, <1>10, <1>11

\* A signed number comes back from its residue.
LEMMA SignedBack ==
  ASSUME NEW bits \in Nat \ {0}, NEW v \in -(2 ^ (bits - 1)) .. 2 ^ (bits - 1) - 1
  PROVE  v \in Int /\ v % 2 ^ bits \in 0 .. 2 ^ bits - 1 /\ Signed(v % 2 ^ bits, bits) = v
<1>1. PICK h \in Nat \ {0} : h = 2 ^ (bits - 1)
  BY HalfOf
<1>2. PICK m \in Nat \ {0} : m = 2 ^ bits /\ m = 2 * h
  BY <1>1, HalfOf
<1>3. v \in Int /\ v + h \in 0 .. m - 1
  BY <1>1, <1>2
<1>4. PICK q \in Int : q = v \div m
  BY <1>3, Divided
<1>5. PICK r \in Int : r = v % m
  BY <1>3, Divided
<1>6. Makes(m, q, r, v)
  BY <1>3, <1>4, <1>5, Divided
<1>7. r \in 0 .. m - 1 /\ v = m * q + r
  BY <1>6 DEF Makes
<1>8. r + h = (v + h) + m * (-q)
  <2>1. m * (-q) = -(m * q) /\ m * q \in Int
    OBVIOUS
  <2> QED BY <1>3, <1>7, <2>1
<1>9. ((v + h) + m * (-q)) % m = (v + h) % m
  <2>1. -q \in Int /\ v + h \in Int
    BY <1>3
  <2> QED BY <2>1, RemainderOfSum
<1>10. (v + h) % m = v + h
  BY <1>3, Remains
<1>11. Signed(r, bits) = v
  <2>1. Signed(r, bits) = ((r + h) % m) - h
    BY <1>1, <1>2 DEF Signed
  <2> QED BY <1>3, <1>8, <1>9, <1>10, <2>1
<1> QED BY <1>2, <1>3, <1>5, <1>7, <1>11

\* The zigzag of a number is one of as many bits, and that of no other.
LEMMA ZigZagBack ==
  ASSUME NEW bits \in Nat \ {0}, NEW v \in -(2 ^ (bits - 1)) .. 2 ^ (bits - 1) - 1
  PROVE  ZigZag(v) \in 0 .. 2 ^ bits - 1 /\ UnZigZag(ZigZag(v)) = v
<1>1. PICK h \in Nat \ {0} : h = 2 ^ (bits - 1) /\ 2 ^ bits = 2 * h
  BY HalfOf
<1>2. v \in Int /\ -h <= v /\ v < h
  BY <1>1
<1>3. CASE v >= 0
  <2>1. ZigZag(v) = 2 * v /\ (2 * v) % 2 = 0 /\ (2 * v) \div 2 = v
    BY <1>2, <1>3 DEF ZigZag
  <2>2. UnZigZag(2 * v) = v
    BY <2>1 DEF UnZigZag
  <2> QED BY <1>1, <1>2, <1>3, <2>1, <2>2
<1>4. CASE v < 0
  <2>1. PICK w \in Nat : v = -1 - w
    <3>1. -1 - v \in Nat /\ v = -1 - (-1 - v)
      BY <1>2, <1>4
    <3> QED BY <3>1
  <2>2. ZigZag(v) = 2 * w + 1
    BY <1>2, <1>4, <2>1 DEF ZigZag
  <2>3. (2 * w + 1) % 2 = 1 /\ (2 * w + 1) \div 2 = w
    OBVIOUS
  <2>4. UnZigZag(2 * w + 1) = v
    BY <2>1, <2>3 DEF UnZigZag
  <2> QED BY <1>1, <1>2, <2>1, <2>2, <2>4
<1> QED BY <1>2, <1>3, <1>4

\* And every number is the zigzag of one.
LEMMA ZigZagOf ==
  ASSUME NEW n \in Nat
  PROVE  ZigZag(UnZigZag(n)) = n
<1>1. CASE n % 2 = 0
  <2>1. PICK q \in Nat : n = 2 * q /\ n \div 2 = q
    <3>1. n \div 2 \in Nat /\ n = 2 * (n \div 2)
      BY <1>1
    <3> QED BY <3>1
  <2> QED BY <1>1, <2>1 DEF ZigZag, UnZigZag
<1>2. CASE n % 2 # 0
  <2>1. PICK q \in Nat : n = 2 * q + 1 /\ n \div 2 = q
    <3>1. n \div 2 \in Nat /\ n = 2 * (n \div 2) + 1
      BY <1>2
    <3> QED BY <3>1
  <2>2. UnZigZag(n) = -q - 1
    BY <1>2, <2>1 DEF UnZigZag
  <2>3. ZigZag(-q - 1) = 2 * q + 1
    BY DEF ZigZag
  <2> QED BY <2>1, <2>2, <2>3
<1> QED BY <1>1, <1>2

\* The narrow numbers are among the wide ones.
LEMMA Widths ==
  /\ Width \in Nat \ {0} /\ Half \in Nat \ {0} /\ Width - Half \in Nat
  /\ 2 ^ Width \in Nat \ {0} /\ 2 ^ Half \in Nat \ {0} /\ 2 ^ (Width - Half) \in Nat \ {0}
  /\ 2 ^ Width = 2 ^ Half * 2 ^ (Width - Half) /\ 2 ^ Half <= 2 ^ Width /\ 2 <= 2 ^ Half
<1>1. Width \in Nat \ {0} /\ Half \in Nat \ {0} /\ Width - Half \in Nat /\ Half <= Width
  BY WidthAssumption
<1>2. Half + (Width - Half) = Width /\ Width \in Nat /\ Half \in Nat
  BY <1>1
<1>3. 2 ^ Width = 2 ^ Half * 2 ^ (Width - Half)
  BY <1>1, <1>2, PowerOfSum
<1>4. 2 ^ Half <= 2 ^ Width
  BY <1>1, <1>2, PowerGrows
<1>5. 2 <= 2 ^ Half
  BY <1>1, HalfOf
<1> QED BY <1>1, <1>2, <1>3, <1>4, <1>5, PowerPositive

\* A residue of a wide residue is one of the number.
LEMMA NarrowOf ==
  ASSUME NEW v \in Int
  PROVE  v % 2 ^ Width \in Number64 /\ (v % 2 ^ Width) % 2 ^ Half = v % 2 ^ Half
<1>1. PICK m \in Nat \ {0} : m = 2 ^ Half
  BY Widths
<1>2. PICK k \in Nat \ {0} : k = 2 ^ (Width - Half)
  BY Widths
<1>3. 2 ^ Width = m * k
  BY <1>1, <1>2, Widths
<1>4. (v % (m * k)) % m = v % m
  BY RemainderTwice
<1>5. 2 ^ Width \in Nat \ {0}
  BY Widths
<1>6. Makes(2 ^ Width, v \div 2 ^ Width, v % 2 ^ Width, v)
  BY <1>5, Divided
<1>7. v % 2 ^ Width \in Number64
  BY <1>6 DEF Makes, Number64
<1> QED BY <1>1, <1>3, <1>4, <1>7

\* What val makes of a number, kind by kind.
LEMMA FromRawIs ==
  ASSUME NEW kind, NEW raw, NEW minimal, NEW canonical
  PROVE  /\ kind \in {"int32", "enum"} =>
              FromRaw(kind, raw, minimal, canonical)
                = {x \in {Signed(raw % 2 ^ Half, Half)} :
                     minimal => raw = Signed(raw % 2 ^ Half, Half) % 2 ^ Width}
         /\ kind = "uint32" => FromRaw(kind, raw, minimal, canonical)
                = {x \in {raw % 2 ^ Half} : minimal => raw = raw % 2 ^ Half}
         /\ kind = "sint32" => FromRaw(kind, raw, minimal, canonical)
                = {x \in {UnZigZag(raw % 2 ^ Half)} : minimal => raw = raw % 2 ^ Half}
         /\ kind = "int64"  => FromRaw(kind, raw, minimal, canonical) = {Signed(raw, Width)}
         /\ kind = "uint64" => FromRaw(kind, raw, minimal, canonical) = {raw}
         /\ kind = "sint64" => FromRaw(kind, raw, minimal, canonical) = {UnZigZag(raw)}
         /\ kind = "bool"   => FromRaw(kind, raw, minimal, canonical)
                = {b \in {IF raw = 0 THEN 0 ELSE 1} : canonical => raw <= 1}
BY DEF FromRaw, Unsigned

\* What scalar writes for a value, kind by kind.
LEMMA RawIs ==
  ASSUME NEW v
  PROVE  /\ \A kind \in {"int32", "enum", "uint32", "int64", "uint64", "bool"} :
              Raw(kind, v) = v % 2 ^ Width
         /\ Raw("sint32", v) = ZigZag(v) % 2 ^ Half /\ Raw("sint64", v) = ZigZag(v) % 2 ^ Width
BY DEF Raw, Unsigned, BitsOf

\* The values of each kind.
LEMMA ValuesAre ==
  /\ \A kind \in {"int32", "enum", "sint32"} :
       ValuesOf(kind) = -(2 ^ (Half - 1)) .. 2 ^ (Half - 1) - 1 /\ BitsOf(kind) = Half
  /\ \A kind \in {"int64", "sint64"} :
       ValuesOf(kind) = -(2 ^ (Width - 1)) .. 2 ^ (Width - 1) - 1 /\ BitsOf(kind) = Width
  /\ ValuesOf("uint32") = 0 .. 2 ^ Half - 1 /\ BitsOf("uint32") = Half
  /\ ValuesOf("uint64") = 0 .. 2 ^ Width - 1 /\ BitsOf("uint64") = Width
  /\ ValuesOf("bool") = {0, 1}
BY DEF ValuesOf, BitsOf

\* A value comes back from the number that is written for it, under any policy.
LEMMA ValueComesBack ==
  ASSUME NEW kind \in Kinds, NEW v \in ValuesOf(kind), NEW minimal, NEW canonical
  PROVE  Raw(kind, v) \in Number64 /\ FromRaw(kind, Raw(kind, v), minimal, canonical) = {v}
<1>1. PICK raw : raw = Raw(kind, v)
  OBVIOUS
<1>2. CASE kind \in {"int32", "enum"}
  <2>1. v \in -(2 ^ (Half - 1)) .. 2 ^ (Half - 1) - 1 /\ raw = v % 2 ^ Width
    BY <1>1, <1>2, ValuesAre, RawIs
  <2>2. v \in Int /\ Signed(v % 2 ^ Half, Half) = v
    BY <2>1, SignedBack, Widths
  <2>3. raw \in Number64 /\ raw % 2 ^ Half = v % 2 ^ Half
    BY <2>1, <2>2, NarrowOf
  <2>4. FromRaw(kind, raw, minimal, canonical)
          = {x \in {Signed(raw % 2 ^ Half, Half)} :
               minimal => raw = Signed(raw % 2 ^ Half, Half) % 2 ^ Width}
    BY <1>2, FromRawIs
  <2> QED BY <1>1, <2>1, <2>2, <2>3, <2>4
<1>3. CASE kind = "uint32"
  <2>1. v \in 0 .. 2 ^ Half - 1 /\ raw = v % 2 ^ Width
    BY <1>1, <1>3, ValuesAre, RawIs
  <2>2. v \in 0 .. 2 ^ Width - 1
    BY <2>1, Widths
  <2>3. v % 2 ^ Width = v /\ v % 2 ^ Half = v
    BY <2>1, <2>2, Widths, Remains
  <2>4. FromRaw(kind, raw, minimal, canonical)
          = {x \in {raw % 2 ^ Half} : minimal => raw = raw % 2 ^ Half}
    BY <1>3, FromRawIs
  <2> QED BY <1>1, <2>1, <2>2, <2>3, <2>4 DEF Number64
<1>4. CASE kind = "sint32"
  <2>1. v \in -(2 ^ (Half - 1)) .. 2 ^ (Half - 1) - 1 /\ raw = ZigZag(v) % 2 ^ Half
    BY <1>1, <1>4, ValuesAre, RawIs
  <2>2. PICK z \in 0 .. 2 ^ Half - 1 : z = ZigZag(v) /\ UnZigZag(z) = v
    BY <2>1, ZigZagBack, Widths
  <2>3. z % 2 ^ Half = z
    BY <2>2, Widths, Remains
  <2>4. z \in Number64
    BY <2>2, Widths DEF Number64
  <2>5. FromRaw(kind, raw, minimal, canonical)
          = {x \in {UnZigZag(raw % 2 ^ Half)} : minimal => raw = raw % 2 ^ Half}
    BY <1>4, FromRawIs
  <2> QED BY <1>1, <2>1, <2>2, <2>3, <2>4, <2>5
<1>5. CASE kind = "int64"
  <2>1. v \in -(2 ^ (Width - 1)) .. 2 ^ (Width - 1) - 1 /\ raw = v % 2 ^ Width
    BY <1>1, <1>5, ValuesAre, RawIs
  <2>2. v \in Int /\ Signed(v % 2 ^ Width, Width) = v
    BY <2>1, SignedBack, Widths
  <2>3. raw \in Number64
    BY <2>1, <2>2, NarrowOf
  <2>4. FromRaw(kind, raw, minimal, canonical) = {Signed(raw, Width)}
    BY <1>5, FromRawIs
  <2> QED BY <1>1, <2>1, <2>2, <2>3, <2>4
<1>6. CASE kind = "uint64"
  <2>1. v \in 0 .. 2 ^ Width - 1 /\ raw = v % 2 ^ Width
    BY <1>1, <1>6, ValuesAre, RawIs
  <2>2. v % 2 ^ Width = v
    BY <2>1, Widths, Remains
  <2>3. FromRaw(kind, raw, minimal, canonical) = {raw}
    BY <1>6, FromRawIs
  <2> QED BY <1>1, <2>1, <2>2, <2>3 DEF Number64
<1>7. CASE kind = "sint64"
  <2>1. v \in -(2 ^ (Width - 1)) .. 2 ^ (Width - 1) - 1 /\ raw = ZigZag(v) % 2 ^ Width
    BY <1>1, <1>7, ValuesAre, RawIs
  <2>2. PICK z \in 0 .. 2 ^ Width - 1 : z = ZigZag(v) /\ UnZigZag(z) = v
    BY <2>1, ZigZagBack, Widths
  <2>3. z % 2 ^ Width = z
    BY <2>2, Widths, Remains
  <2>4. FromRaw(kind, raw, minimal, canonical) = {UnZigZag(raw)}
    BY <1>7, FromRawIs
  <2> QED BY <1>1, <2>1, <2>2, <2>3, <2>4 DEF Number64
<1>8. CASE kind = "bool"
  <2>1. v \in {0, 1} /\ raw = v % 2 ^ Width
    BY <1>1, <1>8, ValuesAre, RawIs
  <2>2. v \in 0 .. 2 ^ Width - 1
    BY <2>1, Widths
  <2>3. v % 2 ^ Width = v
    BY <2>2, Widths, Remains
  <2>4. FromRaw(kind, raw, minimal, canonical)
          = {b \in {IF raw = 0 THEN 0 ELSE 1} : canonical => raw <= 1}
    BY <1>8, FromRawIs
  <2> QED BY <1>1, <2>1, <2>2, <2>3, <2>4 DEF Number64
<1> QED BY <1>2, <1>3, <1>4, <1>5, <1>6, <1>7, <1>8 DEF Kinds

\* A value of a number is, read strictly, one for which the number is written; in any
\* case it has the bits of the number.
OfNumber(kind, raw, minimal, canonical, v) ==
  /\ minimal /\ canonical => Raw(kind, v) = raw
  /\ kind # "bool" => Raw(kind, v) % 2 ^ BitsOf(kind) = raw % 2 ^ BitsOf(kind)

\* What a number is taken for.
LEMMA ValueIsOfNumber ==
  ASSUME NEW kind \in Kinds, NEW raw \in Number64, NEW minimal, NEW canonical,
         NEW v \in FromRaw(kind, raw, minimal, canonical)
  PROVE  OfNumber(kind, raw, minimal, canonical, v)
<1> USE DEF OfNumber
<1>1. raw \in Nat /\ raw \in Int /\ raw \in 0 .. 2 ^ Width - 1
  BY Widths DEF Number64
<1>2. PICK n \in 0 .. 2 ^ Half - 1 : n = raw % 2 ^ Half
  <2>1. Makes(2 ^ Half, raw \div 2 ^ Half, raw % 2 ^ Half, raw)
    BY <1>1, Widths, Divided
  <2> QED BY <2>1 DEF Makes
<1>3. n \in Nat /\ n % 2 ^ Half = n /\ raw % 2 ^ Width = raw
  <2>1. n \in Nat
    BY <1>2, Widths
  <2>2. n % 2 ^ Half = n
    BY <1>2, Widths, Remains
  <2>3. raw % 2 ^ Width = raw
    BY <1>1, Widths, Remains
  <2> QED BY <2>1, <2>2, <2>3
<1>4. CASE kind \in {"int32", "enum"}
  <2>1. v = Signed(n, Half) /\ (minimal => raw = v % 2 ^ Width)
    <3>1. v \in {x \in {Signed(raw % 2 ^ Half, Half)} :
                   minimal => raw = Signed(raw % 2 ^ Half, Half) % 2 ^ Width}
      BY <1>4, FromRawIs
    <3> QED BY <1>2, <3>1
  <2>2. Raw(kind, v) = v % 2 ^ Width /\ BitsOf(kind) = Half
    BY <1>4, RawIs, ValuesAre
  <2>3. v \in -(2 ^ (Half - 1)) .. 2 ^ (Half - 1) - 1 /\ v % 2 ^ Half = n
    BY <1>2, <2>1, SignedIs, Widths
  <2>4. v \in Int
    BY <2>3, SignedBack, Widths
  <2>5. (v % 2 ^ Width) % 2 ^ Half = v % 2 ^ Half
    BY <2>4, NarrowOf
  <2> QED BY <1>2, <1>4, <2>1, <2>2, <2>3, <2>5
<1>5. CASE kind = "uint32"
  <2>1. v = n /\ (minimal => raw = n)
    <3>1. v \in {x \in {raw % 2 ^ Half} : minimal => raw = raw % 2 ^ Half}
      BY <1>5, FromRawIs
    <3> QED BY <1>2, <3>1
  <2>2. Raw(kind, v) = n % 2 ^ Width /\ BitsOf(kind) = Half
    BY <1>5, <2>1, RawIs, ValuesAre
  <2>3. n % 2 ^ Width = n
    <3>1. n \in 0 .. 2 ^ Width - 1
      BY <1>2, Widths
    <3> QED BY <3>1, Widths, Remains
  <2> QED BY <1>2, <1>3, <2>1, <2>2, <2>3
<1>6. CASE kind = "sint32"
  <2>1. v = UnZigZag(n) /\ (minimal => raw = n)
    <3>1. v \in {x \in {UnZigZag(raw % 2 ^ Half)} : minimal => raw = raw % 2 ^ Half}
      BY <1>6, FromRawIs
    <3> QED BY <1>2, <3>1
  <2>2. Raw(kind, v) = ZigZag(v) % 2 ^ Half /\ BitsOf(kind) = Half
    BY <1>6, RawIs, ValuesAre
  <2>3. ZigZag(v) = n
    BY <1>3, <2>1, ZigZagOf
  <2> QED BY <1>2, <1>3, <2>1, <2>2, <2>3
<1>7. CASE kind = "int64"
  <2>1. v = Signed(raw, Width)
    BY <1>7, FromRawIs
  <2>2. Raw(kind, v) = v % 2 ^ Width /\ BitsOf(kind) = Width
    BY <1>7, RawIs, ValuesAre
  <2>3. v % 2 ^ Width = raw
    BY <1>1, <2>1, SignedIs, Widths
  <2> QED BY <2>2, <2>3
<1>8. CASE kind = "uint64"
  <2>1. v = raw
    BY <1>8, FromRawIs
  <2>2. Raw(kind, v) = v % 2 ^ Width /\ BitsOf(kind) = Width
    BY <1>8, RawIs, ValuesAre
  <2> QED BY <1>3, <2>1, <2>2
<1>9. CASE kind = "sint64"
  <2>1. v = UnZigZag(raw)
    BY <1>9, FromRawIs
  <2>2. Raw(kind, v) = ZigZag(v) % 2 ^ Width /\ BitsOf(kind) = Width
    BY <1>9, RawIs, ValuesAre
  <2>3. ZigZag(v) = raw
    BY <1>1, <2>1, ZigZagOf
  <2> QED BY <1>3, <2>2, <2>3
<1>10. CASE kind = "bool"
  <2>1. v \in {b \in {IF raw = 0 THEN 0 ELSE 1} : canonical => raw <= 1}
    BY <1>10, FromRawIs
  <2>2. canonical => v = raw
    BY <1>1, <2>1
  <2>3. Raw(kind, v) = v % 2 ^ Width
    BY <1>10, RawIs
  <2> QED BY <1>3, <1>10, <2>2, <2>3
<1> QED BY <1>4, <1>5, <1>6, <1>7, <1>8, <1>9, <1>10 DEF Kinds

-----------------------------------------------------------------------------
(* Calls.                                                                  *)

\* What is written for a value is read as the value, and to its last byte.
LEMMA ValueSurvives ==
  ASSUME NEW kind \in Kinds, NEW v \in ValuesOf(kind), NEW strict
  PROVE  /\ WriteScalar(kind, v) \in Seq(Byte)
         /\ ReadScalar(kind, WriteScalar(kind, v), strict, strict)
              = {<<v, Len(WriteScalar(kind, v))>>}
<1>1. PICK raw \in Number64 : raw = Raw(kind, v)
  BY ValueComesBack
<1>2. WriteScalar(kind, v) = vi[raw] /\ vi[raw] \in Seq(Byte)
  BY <1>1, WrittenBytes DEF WriteScalar
<1>3. FromRaw(kind, raw, strict, strict) = {v}
  BY <1>1, ValueComesBack
<1>4. PICK len : len = Len(vi[raw])
  OBVIOUS
<1>5. read_varint(vi[raw], strict) = {<<raw, len>>}
  BY <1>4, VarintWritten
<1>6. ReadScalar(kind, vi[raw], strict, strict) = {<<v, len>>}
  <2>1. ReadScalar(kind, vi[raw], strict, strict)
          = UNION {{<<w, r[2]>> : w \in FromRaw(kind, r[1], strict, strict)} : r \in {<<raw, len>>}}
    BY <1>5 DEF ReadScalar
  <2>2. <<raw, len>>[1] = raw /\ <<raw, len>>[2] = len
    OBVIOUS
  <2>3. {<<w, len>> : w \in FromRaw(kind, raw, strict, strict)} = {<<v, len>>}
    BY <1>3
  <2> QED BY <2>1, <2>2, <2>3
<1> QED BY <1>2, <1>4, <1>6

\* What is read is of a varint, at its end, and has what the number has.
LEMMA ScalarRead ==
  ASSUME NEW kind \in Kinds, NEW bytes \in Seq(Byte), NEW minimal, NEW canonical,
         NEW r \in ReadScalar(kind, bytes, minimal, canonical)
  PROVE  \E q \in read_varint(bytes, minimal) :
           r[1] \in FromRaw(kind, q[1], minimal, canonical) /\ r[2] = q[2]
<1>1. PICK q \in read_varint(bytes, minimal) :
        r \in {<<v, q[2]>> : v \in FromRaw(kind, q[1], minimal, canonical)}
  BY DEF ReadScalar
<1>2. PICK v \in FromRaw(kind, q[1], minimal, canonical) : r = <<v, q[2]>>
  BY <1>1
<1> QED BY <1>2

\* Read strictly, a value is what is written for it.
OneForm(kind, bytes, minimal, canonical, r) ==
  minimal /\ canonical => SubSeq(bytes, 1, r[2]) = WriteScalar(kind, r[1])

\* Reading strictly accepts one form.
LEMMA StrictIsWritten ==
  ASSUME NEW kind \in Kinds, NEW bytes \in Seq(Byte), NEW minimal, NEW canonical,
         NEW r \in ReadScalar(kind, bytes, minimal, canonical)
  PROVE  OneForm(kind, bytes, minimal, canonical, r)
<1>1. PICK q \in read_varint(bytes, minimal) :
        r[1] \in FromRaw(kind, q[1], minimal, canonical) /\ r[2] = q[2]
  BY ScalarRead
<1>2. q[1] \in Number64 /\ (minimal => SubSeq(bytes, 1, q[2]) = vi[q[1]])
  BY VarintRead
<1>3. minimal /\ canonical => Raw(kind, r[1]) = q[1]
  <2>1. OfNumber(kind, q[1], minimal, canonical, r[1])
    BY <1>1, <1>2, ValueIsOfNumber
  <2> QED BY <2>1 DEF OfNumber
<1> QED BY <1>1, <1>2, <1>3 DEF WriteScalar, OneForm

\* However it is read, a value has the bits that its bytes spell.
LEMMA BitsAreSpelled ==
  ASSUME NEW kind \in Kinds, NEW bytes \in Seq(Byte), NEW minimal, NEW canonical,
         NEW r \in ReadScalar(kind, bytes, minimal, canonical)
  PROVE  /\ Spells(bytes, r[2]) < 2 ^ Width
         /\ kind # "bool" => Raw(kind, r[1]) % 2 ^ BitsOf(kind) = Spells(bytes, r[2]) % 2 ^ BitsOf(kind)
<1>1. PICK q \in read_varint(bytes, minimal) :
        r[1] \in FromRaw(kind, q[1], minimal, canonical) /\ r[2] = q[2]
  BY ScalarRead
<1>2. q[1] \in Number64 /\ q[1] = Spells(bytes, q[2])
  BY VarintRead
<1>3. kind # "bool" => Raw(kind, r[1]) % 2 ^ BitsOf(kind) = q[1] % 2 ^ BitsOf(kind)
  <2>1. OfNumber(kind, q[1], minimal, canonical, r[1])
    BY <1>1, <1>2, ValueIsOfNumber
  <2> QED BY <2>1 DEF OfNumber
<1>4. q[1] < 2 ^ Width
  BY <1>2, Widths DEF Number64
<1> QED BY <1>1, <1>2, <1>3, <1>4

\* A key is all of the number that its bytes spell.
LEMMA KeyIsSpelled ==
  ASSUME NEW bytes \in Seq(Byte), NEW minimal, NEW r \in read_key_with_policy(bytes, minimal)
  PROVE  /\ r[1] \in 1 .. MAX_FIELD_NUMBER
         /\ make_key(r[1], r[2]) = Spells(bytes, r[3])
         /\ minimal => SubSeq(bytes, 1, r[3]) = vi[make_key(r[1], r[2])]
<1>1. PICK q \in read_varint(bytes, minimal) :
        /\ r = <<q[1] \div 2 ^ TypeBits, q[1] % 2 ^ TypeBits, q[2]>>
        /\ q[1] \div 2 ^ TypeBits \in 1 .. MAX_FIELD_NUMBER
  BY DEF read_key_with_policy
<1>2. /\ q[1] \in Number64 /\ q[1] = Spells(bytes, q[2])
      /\ minimal => SubSeq(bytes, 1, q[2]) = vi[q[1]]
  BY VarintRead
<1>3. q[1] \in Int
  <2>1. 2 ^ Width \in Nat
    BY Widths
  <2> QED BY <1>2, <2>1 DEF Number64
<1>4. PICK t \in Nat \ {0} : t = 2 ^ TypeBits
  BY WidthAssumption, PowerPositive
<1>5. Makes(t, q[1] \div t, q[1] % t, q[1]) /\ q[1] \div t \in Int
  BY <1>3, Divided
<1>6. make_key(r[1], r[2]) = q[1]
  <2>1. r[1] = q[1] \div t /\ r[2] = q[1] % t
    BY <1>1, <1>4
  <2>2. q[1] = t * r[1] + r[2] /\ r[1] \in Int
    BY <1>5, <2>1 DEF Makes
  <2>3. r[1] * t = t * r[1]
    BY <2>2
  <2> QED BY <1>4, <2>2, <2>3 DEF make_key
<1>7. r[3] = q[2] /\ r[1] = q[1] \div 2 ^ TypeBits
  BY <1>1
<1> QED BY <1>1, <1>2, <1>6, <1>7

\* What a caller hands to the functions of the wire.
LEMMA Arguments ==
  ASSUME NEW c \in Calls
  PROVE  /\ c[1] = "scalar" => c[2] \in Kinds /\ c[3] \in ValuesOf(c[2])
         /\ c[1] = "val" => c[2] \in Kinds /\ c[3] \in Seq(Byte) /\ c[4] \in BOOLEAN /\ c[5] \in BOOLEAN
         /\ c[1] = "read_key" => c[2] \in Seq(Byte) /\ c[3] \in BOOLEAN
<1>1. \/ \E kind \in Kinds : \E v \in ValuesOf(kind) : c = <<"scalar", kind, v>>
      \/ c \in {"val"} \X Kinds \X Inputs \X BOOLEAN \X BOOLEAN
      \/ c \in {"read_key"} \X Inputs \X BOOLEAN
      \/ c[1] \notin {"scalar", "val", "read_key"}
  <2> DEFINE Scalar == UNION {{<<"scalar", kind, v>> : v \in ValuesOf(kind)} : kind \in Kinds}
             Val == {"val"} \X Kinds \X Inputs \X BOOLEAN \X BOOLEAN
             Key == {"read_key"} \X Inputs \X BOOLEAN
             Integer == {"integer"} \X Numerals \X BOOLEAN
             Encode == {"base64_encode"} \X ByteStrings
             Decode == {"base64_decode"} \X Encoded \X {1, 2, 9}
             Span == {"format_duration"} \X (-MaxSeconds - 1 .. MaxSeconds + 1) \X Nanoseconds
             OfSpan == {"parse_duration"} \X Spans
             Stamp == {"format_timestamp"} \X Days \X {0, 59, 3661, 86399} \X {0, 1}
             OfStamp == {"parse_timestamp"} \X Instants
             Mask == {"format_mask"} \X Paths
             OfMask == {"parse_mask"} \X Masks
  <2>1. c \in Scalar => \E kind \in Kinds : \E v \in ValuesOf(kind) : c = <<"scalar", kind, v>>
    OBVIOUS
  <2>2. /\ c \in Integer => c[1] = "integer"
        /\ c \in Encode => c[1] = "base64_encode"
        /\ c \in Decode => c[1] = "base64_decode"
    OBVIOUS
  <2>3. /\ c \in Span => c[1] = "format_duration"
        /\ c \in OfSpan => c[1] = "parse_duration"
    OBVIOUS
  <2>4. /\ c \in Stamp => c[1] = "format_timestamp"
        /\ c \in OfStamp => c[1] = "parse_timestamp"
    OBVIOUS
  <2>5. /\ c \in Mask => c[1] = "format_mask"
        /\ c \in OfMask => c[1] = "parse_mask"
    OBVIOUS
  <2>6. Calls = Scalar \cup Val \cup Key \cup Integer \cup Encode \cup Decode
                  \cup Span \cup OfSpan \cup Stamp \cup OfStamp \cup Mask \cup OfMask
    BY DEF Calls
  <2>7. \/ c \in Scalar \/ c \in Val \/ c \in Key
        \/ c[1] \in {"integer", "base64_encode", "base64_decode", "format_duration",
                     "parse_duration", "format_timestamp", "parse_timestamp",
                     "format_mask", "parse_mask"}
    <3> HIDE DEF Scalar, Val, Key, Integer, Encode, Decode, Span, OfSpan, Stamp, OfStamp, Mask, OfMask
    <3> QED BY <2>2, <2>3, <2>4, <2>5, <2>6
  <2> QED BY <2>1, <2>7
<1>2. CASE \E kind \in Kinds : \E v \in ValuesOf(kind) : c = <<"scalar", kind, v>>
  BY <1>2
<1>3. CASE c \in {"val"} \X Kinds \X Inputs \X BOOLEAN \X BOOLEAN
  <2>1. c[1] = "val" /\ c[2] \in Kinds /\ c[3] \in Inputs /\ c[4] \in BOOLEAN /\ c[5] \in BOOLEAN
    BY <1>3
  <2>2. c[3] \in Seq(Byte)
    BY <2>1, ScalarsAssumption
  <2> QED BY <2>1, <2>2
<1>4. CASE c \in {"read_key"} \X Inputs \X BOOLEAN
  <2>1. c[1] = "read_key" /\ c[2] \in Inputs /\ c[3] \in BOOLEAN
    BY <1>4
  <2>2. c[2] \in Seq(Byte)
    BY <2>1, ScalarsAssumption
  <2> QED BY <2>1, <2>2
<1> QED BY <1>1, <1>2, <1>3, <1>4

\* Nothing is returned yet, or what the function returns.
Answered ==
  /\ call \in Calls
  /\ result # None =>
       /\ call[1] = "scalar" => result = {WriteScalar(call[2], call[3])}
       /\ call[1] = "val" => result = ReadScalar(call[2], call[3], call[4], call[5])
       /\ call[1] = "read_key" => result = read_key_with_policy(call[2], call[3])

\* Every call returns what its function returns, once.
LEMMA AlwaysAnswered == Spec => []Answered
<1>1. Init => Answered
  BY DEF Init, Answered
<1>2. Answered /\ [Next]_vars => Answered'
  <2> SUFFICES ASSUME Answered, [Next]_vars PROVE Answered'
    OBVIOUS
  <2>1. CASE UNCHANGED vars
    BY <2>1 DEF Answered, vars
  <2>2. CASE Write
    BY <2>2 DEF Answered, Write, Returns
  <2>3. CASE Read
    BY <2>3 DEF Answered, Read, Returns
  <2>4. CASE ReadKey
    BY <2>4 DEF Answered, ReadKey, Returns
  <2>5. CASE \/ ReadInteger \/ EncodeBytes \/ DecodeBytes \/ FormatDuration \/ ParseDuration
             \/ FormatTimestamp \/ ParseTimestamp \/ FormatMask \/ ParseMask
    <3>1. call' = call /\ call[1] \notin {"scalar", "val", "read_key"}
      BY <2>5 DEF ReadInteger, EncodeBytes, DecodeBytes, FormatDuration, ParseDuration,
                  FormatTimestamp, ParseTimestamp, FormatMask, ParseMask, Returns
    <3> QED BY <3>1 DEF Answered
  <2> QED BY <2>1, <2>2, <2>3, <2>4, <2>5 DEF Next
<1> QED BY <1>1, <1>2, PTL DEF Spec

-----------------------------------------------------------------------------
(* Results.                                                                *)

\* Strict reading inverts writing, for every width of the numbers and of the bytes:
\* what scalar writes for a value is read as the value under every policy, and what
\* is accepted with require_minimal_varints and RejectNonCanonical is the one form
\* that scalar writes (Reader::varint, val and scalar of codec.rs).
THEOREM StrictlyOneForm == Spec => []StrictReadingInverts
<1>1. Answered => StrictReadingInverts
  <2> SUFFICES ASSUME Answered PROVE StrictReadingInverts
    OBVIOUS
  <2>1. WrittenIsRead
    <3> SUFFICES ASSUME Returned("scalar"), NEW bytes \in result, NEW strict \in BOOLEAN
                 PROVE  /\ bytes \in Seq(Byte)
                        /\ ReadScalar(call[2], bytes, strict, strict) = {<<call[3], Len(bytes)>>}
      BY DEF WrittenIsRead
    <3>1. call \in Calls /\ call[1] = "scalar" /\ bytes = WriteScalar(call[2], call[3])
      BY DEF Answered, Returned
    <3>2. call[2] \in Kinds /\ call[3] \in ValuesOf(call[2])
      BY <3>1, Arguments
    <3> QED BY <3>1, <3>2, ValueSurvives
  <2>2. StrictIsCanonical
    <3> SUFFICES ASSUME Returned("val"), call[4], call[5], NEW r \in result
                 PROVE  SubSeq(call[3], 1, r[2]) = WriteScalar(call[2], r[1])
      BY DEF StrictIsCanonical
    <3>1. call \in Calls /\ call[1] = "val" /\ r \in ReadScalar(call[2], call[3], call[4], call[5])
      BY DEF Answered, Returned
    <3>2. call[2] \in Kinds /\ call[3] \in Seq(Byte)
      BY <3>1, Arguments
    <3>3. OneForm(call[2], call[3], call[4], call[5], r)
      BY <3>1, <3>2, StrictIsWritten
    <3> QED BY <3>3 DEF OneForm
  <2> QED BY <2>1, <2>2 DEF StrictReadingInverts
<1> QED BY <1>1, AlwaysAnswered, PTL

\* Whatever the policy, a number that is accepted has every bit that its bytes spell,
\* and a key is all of the number that its bytes spell, with a field number in range;
\* minimal, it is what make_key and vi write (Reader::varint, val and
\* read_key_with_policy of codec.rs).
THEOREM WireLosesNothing == Spec => []WireExact
<1>1. Answered => WireExact
  <2> SUFFICES ASSUME Answered PROVE WireExact
    OBVIOUS
  <2>1. NoBitLost
    <3> SUFFICES ASSUME Returned("val"), call[2] # "bool", NEW r \in result
                 PROVE  /\ Spells(call[3], r[2]) < 2 ^ Width
                        /\ Raw(call[2], r[1]) % 2 ^ BitsOf(call[2])
                             = Spells(call[3], r[2]) % 2 ^ BitsOf(call[2])
      BY DEF NoBitLost
    <3>1. call \in Calls /\ call[1] = "val" /\ r \in ReadScalar(call[2], call[3], call[4], call[5])
      BY DEF Answered, Returned
    <3>2. call[2] \in Kinds /\ call[3] \in Seq(Byte)
      BY <3>1, Arguments
    <3> QED BY <3>1, <3>2, BitsAreSpelled
  <2>2. KeysExact
    <3> SUFFICES ASSUME Returned("read_key"), NEW r \in result
                 PROVE  /\ r[1] \in 1 .. MAX_FIELD_NUMBER
                        /\ make_key(r[1], r[2]) = Spells(call[2], r[3])
                        /\ call[3] => SubSeq(call[2], 1, r[3]) = vi[make_key(r[1], r[2])]
      BY DEF KeysExact
    <3>1. call \in Calls /\ call[1] = "read_key" /\ r \in read_key_with_policy(call[2], call[3])
      BY DEF Answered, Returned
    <3>2. call[2] \in Seq(Byte)
      BY <3>1, Arguments
    <3> QED BY <3>1, <3>2, KeyIsSpelled
  <2> QED BY <2>1, <2>2 DEF WireExact
<1> QED BY <1>1, AlwaysAnswered, PTL
=============================================================================
