---------------------------- MODULE LinkingProofs ----------------------------
(***************************************************************************)
(* What linking guarantees of the schema it accepts, for every registry.   *)
(***************************************************************************)
EXTENDS Linking, FiniteSetTheorems, SequenceTheorems, WellFoundedInduction, TLAPS

-----------------------------------------------------------------------------
(* The paths that a loop visits.                                           *)

Paths(s) == {s[i] : i \in DOMAIN s}
Distinct(s) == \A i, j \in DOMAIN s : s[i] = s[j] => i = j

\* An order has every path once.
LEMMA OrderVisitsOnce ==
  ASSUME NEW S, IsFiniteSet(S), NEW s \in [1 .. Cardinality(S) -> S],
         \A p \in S : \E i \in DOMAIN s : s[i] = p
  PROVE  s \in Seq(S) /\ Distinct(s) /\ Paths(s) = S
<1>1. Cardinality(S) \in Nat
  BY FS_CardinalityType
<1>2. s \in Seq(S)
  BY <1>1
<1>3. s \in Surjection(1 .. Cardinality(S), S)
  BY DEF Surjection
<1>4. IsFiniteSet(1 .. Cardinality(S)) /\ Cardinality(1 .. Cardinality(S)) = Cardinality(S)
  BY <1>1, FS_Interval
<1>5. s \in Injection(1 .. Cardinality(S), S)
  BY <1>3, <1>4, FS_SurjSameCardinalityImpliesInj
<1>6. Distinct(s)
  BY <1>5 DEF Distinct, Injection, IsInjective
<1> QED BY <1>2, <1>6 DEF Paths

\* Taking the first path of a list visits it and leaves the others.
LEMMA NextPath ==
  ASSUME NEW S, NEW s \in Seq(S), s # <<>>, Distinct(s)
  PROVE  /\ Head(s) \in S /\ Head(s) \in Paths(s)
         /\ Tail(s) \in Seq(S) /\ Distinct(Tail(s))
         /\ Paths(Tail(s)) = Paths(s) \ {Head(s)}
<1>1. Len(s) \in Nat \ {0} /\ DOMAIN s = 1 .. Len(s)
  OBVIOUS
<1>2. Head(s) = s[1] /\ s[1] \in S /\ Tail(s) \in Seq(S) /\ Len(Tail(s)) = Len(s) - 1
  BY <1>1
<1>3. DOMAIN Tail(s) = 1 .. Len(s) - 1 /\ \A i \in 1 .. Len(s) - 1 : Tail(s)[i] = s[i + 1]
  BY <1>1, <1>2
<1>4. Distinct(Tail(s))
  BY <1>1, <1>3 DEF Distinct
<1>5. ASSUME NEW p \in Paths(s), p # s[1] PROVE p \in Paths(Tail(s))
  <2>1. PICK i \in 1 .. Len(s) : s[i] = p
    BY <1>1, <1>5 DEF Paths
  <2>2. i # 1 /\ i - 1 \in 1 .. Len(s) - 1 /\ i = (i - 1) + 1
    BY <1>1, <1>5, <2>1
  <2>3. Tail(s)[i - 1] = p
    BY <1>3, <2>1, <2>2
  <2> QED BY <1>3, <2>2, <2>3 DEF Paths
<1>6. ASSUME NEW p \in Paths(Tail(s)) PROVE p \in Paths(s) /\ p # s[1]
  <2>1. PICK i \in 1 .. Len(s) - 1 : Tail(s)[i] = p
    BY <1>3, <1>6 DEF Paths
  <2>2. s[i + 1] = p /\ i + 1 \in DOMAIN s /\ 1 \in DOMAIN s /\ i + 1 # 1
    BY <1>1, <1>3, <2>1
  <2> QED BY <2>2 DEF Paths, Distinct
<1>7. s[1] \in Paths(s)
  BY <1>1 DEF Paths
<1> QED BY <1>2, <1>4, <1>5, <1>6, <1>7

Without(s, i) == SubSeq(s, 1, i - 1) \o SubSeq(s, i + 1, Len(s))

\* A path is taken out of the order.
LEMMA PathTakenOut ==
  ASSUME NEW S, NEW s \in Seq(S), Distinct(s), NEW i \in DOMAIN s, NEW t,
         t = Without(s, i)
  PROVE  t \in Seq(S) /\ Distinct(t) /\ Paths(t) = Paths(s) \ {s[i]}
<1>1. Len(s) \in Nat /\ DOMAIN s = 1 .. Len(s) /\ i \in 1 .. Len(s)
  OBVIOUS
<1> DEFINE a == SubSeq(s, 1, i - 1)
           b == SubSeq(s, i + 1, Len(s))
<1>2. a \in Seq(S) /\ Len(a) = i - 1 /\ \A j \in 1 .. i - 1 : a[j] = s[j]
  BY <1>1
<1>3. b \in Seq(S) /\ Len(b) = Len(s) - i /\ \A j \in 1 .. Len(s) - i : b[j] = s[j + i]
  BY <1>1
<1>4. t = a \o b
  BY DEF Without
<1> HIDE DEF a, b
<1>13. /\ a \o b \in Seq(S) /\ Len(a \o b) = Len(a) + Len(b)
       /\ \A j \in 1 .. Len(a) + Len(b) : (a \o b)[j] = IF j <= Len(a) THEN a[j] ELSE b[j - Len(a)]
  <2>1. a \in Seq(S) /\ b \in Seq(S)
    BY <1>2, <1>3
  <2> QED BY ONLY <2>1, ConcatProperties, Zenon
<1>10. /\ t \in Seq(S) /\ Len(t) = Len(a) + Len(b)
       /\ \A j \in 1 .. Len(a) + Len(b) : t[j] = IF j <= Len(a) THEN a[j] ELSE b[j - Len(a)]
  BY <1>4, <1>13, Zenon
<1>5. t \in Seq(S) /\ Len(t) = Len(s) - 1 /\ DOMAIN t = 1 .. Len(s) - 1
  <2>1. Len(a) + Len(b) = Len(s) - 1
    BY <1>1, <1>2, <1>3
  <2>2. Len(t) = Len(s) - 1 /\ t \in Seq(S)
    BY <1>10, <2>1
  <2>3. DOMAIN t = 1 .. Len(t)
    BY <2>2
  <2> QED BY <2>2, <2>3
<1>6. \A j \in 1 .. Len(s) - 1 : t[j] = IF j < i THEN s[j] ELSE s[j + 1]
  <2> SUFFICES ASSUME NEW j \in 1 .. Len(s) - 1 PROVE t[j] = IF j < i THEN s[j] ELSE s[j + 1]
    OBVIOUS
  <2>1. t[j] = IF j <= Len(a) THEN a[j] ELSE b[j - Len(a)]
    <3>1. Len(a) + Len(b) = Len(s) - 1
      BY <1>1, <1>2, <1>3
    <3>2. j \in 1 .. Len(a) + Len(b)
      BY <3>1
    <3> QED BY <1>10, <3>2
  <2>2. CASE j < i
    BY <1>1, <1>2, <2>1, <2>2
  <2>3. CASE ~(j < i)
    <3>1. j - Len(a) \in 1 .. Len(s) - i /\ (j - Len(a)) + i = j + 1
      BY <1>1, <1>2, <2>3
    <3>2. t[j] = b[j - Len(a)]
      BY <1>1, <1>2, <2>1, <2>3
    <3> QED BY <1>3, <2>3, <3>1, <3>2
  <2> QED BY <2>2, <2>3
<1>14. ASSUME NEW j \in 1 .. Len(s) - 1
       PROVE  \E l \in 1 .. Len(s) : l = (IF j < i THEN j ELSE j + 1) /\ t[j] = s[l]
  <2>1. CASE j < i
    <3>1. j \in 1 .. Len(s) /\ t[j] = s[j]
      BY <1>1, <1>6, <2>1
    <3> QED BY <2>1, <3>1
  <2>2. CASE ~(j < i)
    <3>1. j + 1 \in 1 .. Len(s)
      BY <1>1
    <3>2. t[j] = s[j + 1]
      BY <1>6, <2>2
    <3> QED BY <2>2, <3>1, <3>2
  <2> QED BY <2>1, <2>2
<1>7. Distinct(t)
  <2> SUFFICES ASSUME NEW j \in 1 .. Len(s) - 1, NEW k \in 1 .. Len(s) - 1, t[j] = t[k]
               PROVE  j = k
    BY <1>5 DEF Distinct
  <2>1. PICK l \in 1 .. Len(s) : l = (IF j < i THEN j ELSE j + 1) /\ t[j] = s[l]
    BY <1>14
  <2>2. PICK m \in 1 .. Len(s) : m = (IF k < i THEN k ELSE k + 1) /\ t[k] = s[m]
    BY <1>14
  <2>3. l = m
    BY <1>1, <2>1, <2>2 DEF Distinct
  <2> QED BY <1>1, <2>1, <2>2, <2>3
<1>8. ASSUME NEW j \in 1 .. Len(s) - 1 PROVE t[j] \in Paths(s) /\ t[j] # s[i]
  <2>1. PICK l \in 1 .. Len(s) : l = (IF j < i THEN j ELSE j + 1) /\ t[j] = s[l]
    BY <1>14
  <2>2. l # i
    BY <1>1, <2>1
  <2> QED BY <1>1, <2>1, <2>2 DEF Paths, Distinct
<1>9. ASSUME NEW j \in 1 .. Len(s), s[j] # s[i] PROVE \E k \in 1 .. Len(s) - 1 : t[k] = s[j]
  <2>1. CASE j < i
    <3>1. j \in 1 .. Len(s) - 1 /\ t[j] = s[j]
      BY <1>1, <1>6, <2>1
    <3> QED BY <3>1
  <2>2. CASE j > i
    <3>1. j - 1 \in 1 .. Len(s) - 1 /\ ~(j - 1 < i) /\ (j - 1) + 1 = j
      BY <1>1, <2>2
    <3>2. t[j - 1] = s[j]
      BY <1>6, <3>1
    <3> QED BY <3>1, <3>2
  <2>3. j < i \/ j > i
    BY <1>1, <1>9
  <2> QED BY <2>1, <2>2, <2>3
<1>11. ASSUME NEW p \in Paths(s), p # s[i] PROVE p \in Paths(t)
  <2>1. PICK j \in 1 .. Len(s) : s[j] = p
    BY <1>1, <1>11 DEF Paths
  <2> QED BY <1>5, <1>9, <1>11, <2>1 DEF Paths
<1>12. ASSUME NEW p \in Paths(t) PROVE p \in Paths(s) /\ p # s[i]
  BY <1>5, <1>8, <1>12 DEF Paths
<1> QED BY <1>5, <1>7, <1>11, <1>12

-----------------------------------------------------------------------------
(* What resolving leaves alone.                                            *)

KeepsField(field, parsed) ==
  /\ DOMAIN field = DOMAIN parsed
  /\ field.number = parsed.number /\ field.cardinality = parsed.cardinality
  /\ field.oneof = parsed.oneof /\ field.packed_explicit = parsed.packed_explicit
  /\ field.default = parsed.default /\ field.options = parsed.options

KeepsMessage(message, parsed) ==
  /\ DOMAIN message = DOMAIN parsed /\ DOMAIN message.fields = DOMAIN parsed.fields
  /\ message.extension_ranges = parsed.extension_ranges /\ message.options = parsed.options
  /\ \A f \in DOMAIN parsed.fields : KeepsField(message.fields[f], parsed.fields[f])

KeepsEnum(enum, parsed) ==
  /\ DOMAIN enum = DOMAIN parsed
  /\ enum.values = parsed.values /\ enum.syntax = parsed.syntax /\ enum.options = parsed.options

KeepsOption(option, parsed) ==
  /\ DOMAIN option = DOMAIN parsed
  /\ option.extendee = parsed.extendee /\ option.number = parsed.number
  /\ option.cardinality = parsed.cardinality

KeepsExtension(extension, parsed) ==
  DOMAIN extension = DOMAIN parsed /\ KeepsField(extension.field, parsed.field)

KeepsNames(file, parsed) == \A sort \in Sorts : DOMAIN file[sort] = DOMAIN parsed[sort]

Keeps(file, parsed) ==
  /\ DOMAIN file = DOMAIN parsed /\ KeepsNames(file, parsed)
  /\ file.syntax = parsed.syntax /\ file.options = parsed.options
  /\ file.settings = parsed.settings
  /\ \A n \in DOMAIN parsed.messages : KeepsMessage(file.messages[n], parsed.messages[n])
  /\ \A n \in DOMAIN parsed.enums : KeepsEnum(file.enums[n], parsed.enums[n])
  /\ \A n \in DOMAIN parsed.custom_options :
       KeepsOption(file.custom_options[n], parsed.custom_options[n])
  /\ \A n \in DOMAIN parsed.extensions : KeepsExtension(file.extensions[n], parsed.extensions[n])

\* A file keeps everything of itself.
LEMMA KeepsItself ==
  ASSUME NEW file
  PROVE  Keeps(file, file)
BY DEF Keeps, KeepsNames, KeepsMessage, KeepsField, KeepsEnum, KeepsOption, KeepsExtension

-----------------------------------------------------------------------------
(* One field.                                                              *)

FieldAsResolved(p, field, scope, g) ==
  /\ KeepsField(g, field)
  /\ g.kind = ResolvedIn(p, field.kind, scope)
  /\ g.explicit_presence = (field.explicit_presence \/ IsMessage(g.kind))
  /\ g.packed = IF field.cardinality = "repeated" /\ ~Packable(g.kind) THEN FALSE
                ELSE field.packed

\* What resolving changes of a field, and all that it leaves alone.
LEMMA FieldIsResolved ==
  ASSUME NEW p, NEW field, ParsedField(field), NEW scope, NEW g,
         g = ResolvedField(p, field, scope)
  PROVE  FieldAsResolved(p, field, scope, g)
<1> DEFINE kind == ResolvedIn(p, field.kind, scope)
           presence == field.explicit_presence \/ IsMessage(kind)
           packed == IF field.cardinality = "repeated" /\ ~Packable(kind) THEN FALSE
                     ELSE field.packed
<1>1. g = [field EXCEPT !.kind = kind, !.explicit_presence = presence, !.packed = packed]
  BY DEF ResolvedField
<1> HIDE DEF kind, presence, packed
<1>2. /\ KeepsField(g, field) /\ g.kind = kind /\ g.explicit_presence = presence
      /\ g.packed = packed
  BY <1>1 DEF ParsedField, KeepsField
<1> QED BY <1>2 DEF kind, presence, packed, FieldAsResolved

FieldAsFeatured(field, inherited, h) ==
  /\ KeepsField(h, field) /\ h.kind = field.kind
  /\ h.features = Applied(inherited, field.options)
  /\ h.explicit_presence = \/ field.explicit_presence \/ field.oneof # None
                           \/ IsMessage(field.kind)
                           \/ h.features.field_presence # "IMPLICIT"
  /\ h.packed = IF field.cardinality = "repeated" /\ ~field.packed_explicit
                   /\ Packable(field.kind)
                THEN h.features.repeated_field_encoding = "PACKED" ELSE field.packed

\* What the features change of a field, and all that they leave alone.
LEMMA FieldIsFeatured ==
  ASSUME NEW field, DOMAIN field = {"number", "kind", "cardinality", "oneof", "packed",
           "packed_explicit", "explicit_presence", "default", "options", "features"},
         NEW inherited, NEW h, h = Featured(field, inherited)
  PROVE  FieldAsFeatured(field, inherited, h)
<1> DEFINE features == Applied(inherited, field.options)
           f == [field EXCEPT !.features = features]
<1>1. h = [f EXCEPT !.explicit_presence = TracksPresence(f), !.packed = PackedByFeature(f)]
  BY DEF Featured
<1> HIDE DEF features
<1>2. KeepsField(f, field) /\ f.kind = field.kind /\ f.features = features
      /\ f.explicit_presence = field.explicit_presence /\ f.packed = field.packed
  BY DEF KeepsField
<1>3. DOMAIN f = DOMAIN field
  OBVIOUS
<1> HIDE DEF f
<1>4. /\ KeepsField(h, f) /\ h.kind = f.kind /\ h.features = f.features
      /\ h.explicit_presence = TracksPresence(f) /\ h.packed = PackedByFeature(f)
  BY <1>1, <1>3 DEF KeepsField
<1>5. KeepsField(h, field) /\ h.kind = field.kind /\ h.features = features
  BY <1>2, <1>4 DEF KeepsField
<1>6. TracksPresence(f) = (\/ field.explicit_presence \/ field.oneof # None
                           \/ IsMessage(field.kind)
                           \/ h.features.field_presence # "IMPLICIT")
  BY <1>2, <1>5 DEF TracksPresence, KeepsField
<1>7. PackedByFeature(f) = IF field.cardinality = "repeated" /\ ~field.packed_explicit
                          /\ Packable(field.kind)
                       THEN h.features.repeated_field_encoding = "PACKED" ELSE field.packed
  BY <1>2, <1>5 DEF PackedByFeature, KeepsField
<1> QED BY <1>4, <1>5, <1>6, <1>7 DEF features, FieldAsFeatured

-----------------------------------------------------------------------------
(* One file.                                                               *)

FileParts == {"syntax", "options", "features", "messages", "enums", "services",
              "custom_options", "extensions", "settings"}

ResolvedEndpoints(p, n) == {ResolvedIn(p, kind, n) : kind \in files[p].services[n]}

\* The parts of a file once its declarations are resolved.
LEMMA DeclaredParts ==
  ASSUME NEW p, DOMAIN files[p] = FileParts, NEW D, D = WithDeclarations(p)
  PROVE  /\ DOMAIN D = FileParts
         /\ D.syntax = files[p].syntax /\ D.options = files[p].options
         /\ D.settings = files[p].settings /\ D.enums = files[p].enums
         /\ D.messages = [n \in DOMAIN files[p].messages |->
                            ResolvedMessage(p, files[p].messages[n], n)]
         /\ D.custom_options = [n \in DOMAIN files[p].custom_options |->
                            ResolvedOption(p, files[p].custom_options[n], n)]
         /\ D.extensions = [n \in DOMAIN files[p].extensions |->
                            ResolvedExtension(p, files[p].extensions[n], n)]
         /\ D.services = [n \in DOMAIN files[p].services |-> ResolvedEndpoints(p, n)]
<1> DEFINE file == files[p]
  messages == [n \in DOMAIN file.messages |-> ResolvedMessage(p, file.messages[n], n)]
  options == [n \in DOMAIN file.custom_options |->
                ResolvedOption(p, file.custom_options[n], n)]
  extensions == [n \in DOMAIN file.extensions |-> ResolvedExtension(p, file.extensions[n], n)]
  services == [n \in DOMAIN file.services |-> ResolvedEndpoints(p, n)]
<1>1. D = [file EXCEPT !.messages = messages, !.custom_options = options,
                       !.extensions = extensions, !.services = services]
  BY DEF WithDeclarations, ResolvedEndpoints
<1>2. DOMAIN file = FileParts
  OBVIOUS
<1> HIDE DEF messages, options, extensions, services, file
<1>3. /\ DOMAIN D = FileParts
      /\ D.syntax = file.syntax /\ D.options = file.options
      /\ D.settings = file.settings /\ D.enums = file.enums
      /\ D.messages = messages /\ D.custom_options = options
      /\ D.extensions = extensions /\ D.services = services
  BY <1>1, <1>2 DEF FileParts
<1> QED BY <1>3 DEF messages, options, extensions, services, file

ExtensionFeatured(file, n) ==
  [file.extensions[n] EXCEPT !.field =
     FeaturedExtension(file.extensions[n].field, ExtensionInherits(file, n))]

\* The parts of a file once its features are set.
LEMMA FeaturedParts ==
  ASSUME NEW D, DOMAIN D = FileParts, NEW F, F = WithFeatures(D)
  PROVE  /\ DOMAIN F = FileParts
         /\ F.syntax = D.syntax /\ F.options = D.options /\ F.settings = D.settings
         /\ F.features = FileFeatures(D)
         /\ F.services = D.services /\ F.custom_options = D.custom_options
         /\ F.messages = [n \in DOMAIN D.messages |->
                            FeaturedMessage(D.messages[n], MessageFeatures(D)[n])]
         /\ F.enums = [n \in DOMAIN D.enums |-> FeaturedEnum(D, n)]
         /\ F.extensions = [n \in DOMAIN D.extensions |-> ExtensionFeatured(D, n)]
<1> DEFINE
  messages == [n \in DOMAIN D.messages |-> FeaturedMessage(D.messages[n], MessageFeatures(D)[n])]
  enums == [n \in DOMAIN D.enums |-> FeaturedEnum(D, n)]
  extensions == [n \in DOMAIN D.extensions |-> ExtensionFeatured(D, n)]
  features == FileFeatures(D)
<1>1. F = [D EXCEPT !.features = features, !.messages = messages, !.enums = enums,
                    !.extensions = extensions]
  BY DEF WithFeatures, ExtensionFeatured
<1> HIDE DEF messages, enums, extensions, features
<1>2. /\ DOMAIN F = FileParts
      /\ F.syntax = D.syntax /\ F.options = D.options /\ F.settings = D.settings
      /\ F.features = features /\ F.services = D.services
      /\ F.custom_options = D.custom_options /\ F.messages = messages
      /\ F.enums = enums /\ F.extensions = extensions
  BY <1>1 DEF FileParts
<1> QED BY <1>2 DEF messages, enums, extensions, features

-----------------------------------------------------------------------------
(* Features: MessageFeatures is the nearest setting of each.               *)

\* The messages around a scope, by the length of their names, that set x.
Sets(file, m, x) == m \in DOMAIN file.messages /\ x \in DOMAIN file.messages[m].options

SetAround(file, scope, x) == {k \in 0 .. Len(scope) : Sets(file, SubSeq(scope, 1, k), x)}

Near(file, scope, x) ==
  IF SetAround(file, scope, x) # {}
  THEN file.messages[SubSeq(scope, 1, Max(SetAround(file, scope, x)))].options[x]
  ELSE IF x \in DOMAIN file.options THEN file.options[x] ELSE Defaults(file.syntax)[x]

Nearest(file, scope) == [x \in Feature |-> Near(file, scope, x)]

\* NearestSetting, without its own options: what is set around the scope.
LEMMA NearestIsNear ==
  ASSUME NEW file, NEW own, NEW scope, NEW x
  PROVE  NearestSetting(file, own, scope, x)
           = IF x \in DOMAIN own THEN own[x] ELSE Near(file, scope, x)
BY DEF NearestSetting, Near, SetAround, Sets

\* A nonempty set of naturals has a least element.
LEMMA Least ==
  ASSUME NEW T, T \subseteq Nat, T # {}
  PROVE  \E n \in T : \A m \in T : n <= m
<1> DEFINE R == {ss \in Nat \X Nat : ss[1] < ss[2]}
<1>1. IsWellFoundedOn(R, Nat)
  BY NatLessThanWellFounded DEF OpToRel
<1>2. \A x, y \in Nat : y < x => <<y, x>> \in R
  OBVIOUS
<1> HIDE DEF R
<1>3. PICK n \in T : \A m \in T : <<m, n>> \notin R
  BY <1>1, WFMin
<1>4. \A m \in T : n \in Nat /\ m \in Nat /\ ~(m < n)
  BY <1>2, <1>3
<1> QED BY <1>3, <1>4

\* The greatest of some lengths.
LEMMA Longest ==
  ASSUME NEW n \in Nat, NEW S \in SUBSET (0 .. n), S # {}
  PROVE  Max(S) \in S /\ \A k \in S : k <= Max(S)
<1> DEFINE T == {i \in Nat : n - i \in S}
<1>1. T \subseteq Nat
  OBVIOUS
<1>2. T # {}
  <2>1. PICK k \in S : TRUE
    OBVIOUS
  <2>2. n - k \in Nat /\ n - (n - k) = k
    BY <2>1
  <2> QED BY <2>1, <2>2
<1>3. PICK i \in T : \A j \in T : i <= j
  <2> HIDE DEF T
  <2> QED BY <1>1, <1>2, Least
<1>4. n - i \in S
  BY <1>3
<1>5. ASSUME NEW k \in S PROVE n - i >= k
  <2>1. n - k \in Nat /\ n - (n - k) = k
    OBVIOUS
  <2>2. n - k \in T
    BY <2>1
  <2> QED BY <1>3, <2>1, <2>2
<1>6. \E m \in S : \A k \in S : m >= k
  BY <1>4, <1>5
<1>7. Max(S) \in S /\ \A k \in S : Max(S) >= k
  BY <1>6 DEF Max
<1> QED BY <1>7

\* A set of lengths has a shortest one.
LEMMA Shortest ==
  ASSUME NEW S, S \subseteq Nat, S # {}
  PROVE  Min(S) \in S /\ \A k \in S : Min(S) <= k
<1>1. \E m \in S : \A k \in S : m <= k
  BY Least
<1> QED BY <1>1 DEF Min

-----------------------------------------------------------------------------
(* Names and their prefixes.                                               *)

\* A prefix of a prefix is a prefix.
LEMMA PrefixOfPrefix ==
  ASSUME NEW n \in Seq(STRING), NEW j \in 0 .. Len(n), NEW k \in 0 .. j
  PROVE  /\ SubSeq(n, 1, j) \in Seq(STRING) /\ Len(SubSeq(n, 1, j)) = j
         /\ SubSeq(SubSeq(n, 1, j), 1, k) = SubSeq(n, 1, k)
<1>1. Len(n) \in Nat
  OBVIOUS
<1>2. SubSeq(n, 1, j) \in Seq(STRING) /\ Len(SubSeq(n, 1, j)) = j
  BY <1>1
<1>3. SubSeq(n, 1, j) = [i \in 1 .. j |-> n[i]]
  BY <1>1
<1>4. SubSeq(n, 1, k) = [i \in 1 .. k |-> n[i]]
  BY <1>1
<1>5. SubSeq(SubSeq(n, 1, j), 1, k) = [i \in 1 .. k |-> SubSeq(n, 1, j)[i]]
  BY <1>1, <1>2
<1>6. \A i \in 1 .. k : SubSeq(n, 1, j)[i] = n[i]
  BY <1>1, <1>3
<1> QED BY <1>2, <1>4, <1>5, <1>6

\* The name around a name.
LEMMA ParentOfName ==
  ASSUME NEW n \in Name
  PROVE  /\ n \in Seq(STRING) /\ Len(n) \in Nat \ {0}
         /\ Parent(n) = SubSeq(n, 1, Len(n) - 1)
         /\ Parent(n) \in Seq(STRING) /\ Len(Parent(n)) = Len(n) - 1
         /\ \A k \in 0 .. Len(n) - 1 : SubSeq(Parent(n), 1, k) = SubSeq(n, 1, k)
         /\ SubSeq(n, 1, Len(n)) = n
<1>1. n \in Seq(STRING) /\ Len(n) \in Nat \ {0}
  BY DEF Name
<1>2. Len(n) - 1 \in 0 .. Len(n)
  BY <1>1
<1>3. Parent(n) = SubSeq(n, 1, Len(n) - 1)
  BY DEF Parent
<1>4. \A k \in 0 .. Len(n) - 1 : SubSeq(SubSeq(n, 1, Len(n) - 1), 1, k) = SubSeq(n, 1, k)
  BY <1>1, <1>2, PrefixOfPrefix
<1>5. SubSeq(n, 1, Len(n) - 1) \in Seq(STRING) /\ Len(SubSeq(n, 1, Len(n) - 1)) = Len(n) - 1
  <2>1. 0 \in 0 .. Len(n) - 1
    BY <1>1
  <2> QED BY <1>1, <1>2, <2>1, PrefixOfPrefix
<1>6. SubSeq(n, 1, Len(n)) = n
  BY <1>1
<1> QED BY <1>1, <1>3, <1>4, <1>5, <1>6

\* The setting nearest to a message is its own, or the nearest around it.
LEMMA NearOwn ==
  ASSUME NEW file, NEW n \in Name, n \in DOMAIN file.messages, NEW x
  PROVE  Near(file, n, x) = IF x \in DOMAIN file.messages[n].options
                            THEN file.messages[n].options[x] ELSE Near(file, Parent(n), x)
<1> DEFINE S == SetAround(file, n, x)
           P == SetAround(file, Parent(n), x)
           own == x \in DOMAIN file.messages[n].options
<1>1. /\ Len(n) \in Nat \ {0} /\ Len(Parent(n)) = Len(n) - 1 /\ SubSeq(n, 1, Len(n)) = n
      /\ \A k \in 0 .. Len(n) - 1 : SubSeq(Parent(n), 1, k) = SubSeq(n, 1, k)
  BY ParentOfName
<1>2. S \in SUBSET (0 .. Len(n)) /\ P \in SUBSET (0 .. Len(n) - 1)
  BY <1>1 DEF SetAround
<1>10. Len(n) \in Nat \ {0}
  BY <1>1
<1>3. ASSUME NEW k \in 0 .. Len(n) - 1 PROVE k \in S <=> k \in P
  <2>1. SubSeq(Parent(n), 1, k) = SubSeq(n, 1, k)
    BY <1>1
  <2>2. k \in 0 .. Len(n) /\ k \in 0 .. Len(Parent(n))
    BY <1>1
  <2> QED BY ONLY <2>1, <2>2 DEF SetAround
<1>4. Len(n) \in S <=> own
  <2>1. Len(n) \in 0 .. Len(n) /\ SubSeq(n, 1, Len(n)) = n
    BY <1>1
  <2>2. Len(n) \in S <=> Sets(file, SubSeq(n, 1, Len(n)), x)
    BY ONLY <2>1 DEF SetAround
  <2>3. Sets(file, n, x) <=> own
    BY DEF Sets
  <2> QED BY ONLY <2>1, <2>2, <2>3
<1> HIDE DEF S, P
<1>5. CASE own
  <2>1. Max(S) \in S /\ Len(n) <= Max(S)
    BY <1>10, <1>2, <1>4, <1>5, Longest
  <2>3. Max(S) \in 0 .. Len(n)
    BY <1>2, <2>1
  <2> DEFINE m == Max(S)
  <2> HIDE DEF m
  <2>4. m \in 0 .. Len(n) /\ Len(n) <= m
    BY <2>1, <2>3 DEF m
  <2>5. m = Len(n)
    BY <1>10, <2>4
  <2>2. Max(S) = Len(n)
    BY <2>5 DEF m
  <2> QED BY <1>1, <1>4, <1>5, <2>2 DEF Near, S
<1>6. CASE ~own
  <2>1. S = P
    <3>1. ASSUME NEW k \in S PROVE k \in P
      <4>1. k \in 0 .. Len(n) - 1
        BY ONLY <1>2, <1>4, <1>6, <1>10, k \in S
      <4> QED BY <1>3, <4>1
    <3>2. ASSUME NEW k \in P PROVE k \in S
      BY <1>2, <1>3
    <3> QED BY <3>1, <3>2
  <2>2. CASE S = {}
    BY <1>6, <2>1, <2>2 DEF Near, S, P
  <2>3. CASE S # {}
    <3>1. Max(S) \in S
      BY <1>1, <1>2, <2>3, Longest
    <3>2. Max(S) \in 0 .. Len(n) - 1
      BY <1>2, <2>1, <3>1
    <3>3. SubSeq(Parent(n), 1, Max(S)) = SubSeq(n, 1, Max(S))
      BY <1>1, <3>2
    <3>4. Near(file, n, x) = file.messages[SubSeq(n, 1, Max(S))].options[x]
      BY <2>3 DEF Near, S
    <3>5. Near(file, Parent(n), x) = file.messages[SubSeq(Parent(n), 1, Max(P))].options[x]
      BY <2>1, <2>3 DEF Near, P
    <3> QED BY <1>6, <2>1, <3>3, <3>4, <3>5
  <2> QED BY <2>2, <2>3
<1> QED BY <1>5, <1>6

\* Enclosing is the longest proper prefix that is a message.
LEMMA EnclosingIs ==
  ASSUME NEW file, DOMAIN file.messages \subseteq Name, NEW n \in Name
  PROVE  /\ Enclosing(file, n) = None =>
              \A k \in 0 .. Len(n) - 1 : SubSeq(n, 1, k) \notin DOMAIN file.messages
         /\ Enclosing(file, n) # None =>
              \E j \in 0 .. Len(n) - 1 :
                /\ Enclosing(file, n) = SubSeq(n, 1, j) /\ SubSeq(n, 1, j) \in DOMAIN file.messages
                /\ \A k \in 0 .. Len(n) - 1 : SubSeq(n, 1, k) \in DOMAIN file.messages => k <= j
<1> DEFINE around == {m \in DOMAIN file.messages : m # n /\ Prefix(m, n)}
           lengths == {k \in 0 .. Len(n) - 1 : SubSeq(n, 1, k) \in DOMAIN file.messages}
<1>1. n \in Seq(STRING) /\ Len(n) \in Nat \ {0} /\ SubSeq(n, 1, Len(n)) = n
  BY ParentOfName
<1>2. ASSUME NEW k \in lengths
      PROVE  SubSeq(n, 1, k) \in around /\ Len(SubSeq(n, 1, k)) = k
  <2>1. k \in 0 .. Len(n) /\ k # Len(n) /\ k \in 0 .. k /\ k <= Len(n)
    <3>1. k \in 0 .. Len(n) - 1 /\ Len(n) \in Nat
      BY <1>1
    <3> QED BY ONLY <3>1
  <2>2. Len(SubSeq(n, 1, k)) = k
    BY <1>1, <2>1, PrefixOfPrefix
  <2>3. SubSeq(n, 1, k) # n
    BY <2>1, <2>2
  <2>4. SubSeq(n, 1, k) \in DOMAIN file.messages
    OBVIOUS
  <2>5. Prefix(SubSeq(n, 1, k), n)
    BY ONLY <2>1, <2>2 DEF Prefix
  <2> QED BY <2>2, <2>3, <2>4, <2>5
<1>3. ASSUME NEW m \in around
      PROVE  Len(m) \in lengths /\ m = SubSeq(n, 1, Len(m))
  <2>1. Len(m) \in Nat /\ Len(m) <= Len(n) /\ SubSeq(n, 1, Len(m)) = m /\ m # n
    BY DEF Prefix, Name
  <2>2. Len(m) # Len(n)
    BY <1>1, <2>1
  <2>3. Len(m) \in 0 .. Len(n) - 1
    <3>1. Len(n) \in Nat
      BY <1>1
    <3> QED BY ONLY <2>1, <2>2, <3>1
  <2> QED BY <2>1, <2>3
<1>4. Enclosing(file, n) = IF around = {} THEN None
                           ELSE CHOOSE m \in around : \A k \in around : Len(k) <= Len(m)
  BY DEF Enclosing
<1>5. lengths \in SUBSET (0 .. Len(n) - 1) /\ Len(n) - 1 \in Nat
  BY <1>1
<1>6. around \subseteq Name
  OBVIOUS
<1>7. \A k \in 0 .. Len(n) - 1 : SubSeq(n, 1, k) \in DOMAIN file.messages => k \in lengths
  OBVIOUS
<1>8. \A k \in lengths : k \in 0 .. Len(n) - 1 /\ SubSeq(n, 1, k) \in DOMAIN file.messages
  OBVIOUS
<1> HIDE DEF around, lengths
<1>9. CASE around = {}
  <2>1. lengths = {}
    BY <1>2, <1>9
  <2>2. Enclosing(file, n) = None
    BY <1>4, <1>9
  <2> QED BY <1>7, <2>1, <2>2
<1>10. CASE around # {}
  <2>1. PICK m \in around : TRUE
    BY <1>10
  <2>2. lengths # {}
    BY <1>3, <2>1
  <2>3. Max(lengths) \in lengths /\ \A k \in lengths : k <= Max(lengths)
    BY <1>5, <2>2, Longest
  <2>4. SubSeq(n, 1, Max(lengths)) \in around
    BY <1>2, <2>3
  <2>5. \A k \in around : Len(k) <= Len(SubSeq(n, 1, Max(lengths)))
    BY <1>2, <1>3, <2>3
  <2>6. PICK outer \in around : /\ \A k \in around : Len(k) <= Len(outer)
                                /\ Enclosing(file, n) = outer
    BY <1>4, <1>10, <2>4, <2>5
  <2>7. Enclosing(file, n) # None
    BY <1>6, <2>6, SchemaAssumption
  <2>8. Len(outer) \in lengths /\ outer = SubSeq(n, 1, Len(outer))
    BY <1>3, <2>6
  <2>9. \A k \in lengths : k <= Len(outer)
    BY <1>2, <2>6
  <2> QED BY <1>7, <1>8, <2>6, <2>7, <2>8, <2>9
<1> QED BY <1>9, <1>10

\* The setting nearest around a name is that of the message around it.
LEMMA NearOuter ==
  ASSUME NEW file, DOMAIN file.messages \subseteq Name, NEW n \in Name, NEW x,
         Enclosing(file, n) # None
  PROVE  /\ Enclosing(file, n) \in DOMAIN file.messages
         /\ Len(Enclosing(file, n)) < Len(n)
         /\ Near(file, Parent(n), x) = Near(file, Enclosing(file, n), x)
<1> DEFINE outer == Enclosing(file, n)
<1>1. /\ n \in Seq(STRING) /\ Len(n) \in Nat \ {0} /\ Len(Parent(n)) = Len(n) - 1
      /\ \A k \in 0 .. Len(n) - 1 : SubSeq(Parent(n), 1, k) = SubSeq(n, 1, k)
  BY ParentOfName
<1>2. PICK j \in 0 .. Len(n) - 1 :
        /\ outer = SubSeq(n, 1, j) /\ outer \in DOMAIN file.messages
        /\ \A k \in 0 .. Len(n) - 1 : SubSeq(n, 1, k) \in DOMAIN file.messages => k <= j
  BY EnclosingIs
<1> HIDE DEF outer
<1>3. /\ Len(outer) = j
      /\ \A k \in 0 .. j : SubSeq(outer, 1, k) = SubSeq(n, 1, k)
  <2>1. j \in 0 .. Len(n) /\ j \in 0 .. j
    BY <1>1, <1>2
  <2> QED BY <1>1, <1>2, <2>1, PrefixOfPrefix
<1> DEFINE S == SetAround(file, Parent(n), x)
           T == SetAround(file, outer, x)
<1>12. Len(n) \in Nat /\ j \in 0 .. Len(n) - 1
  BY <1>1, <1>2
<1>4. ASSUME NEW k \in S PROVE k \in T
  <2>1. k \in 0 .. Len(n) - 1 /\ Sets(file, SubSeq(Parent(n), 1, k), x)
    BY <1>1 DEF SetAround
  <2>2. Sets(file, SubSeq(n, 1, k), x)
    BY <1>1, <2>1
  <2>3. SubSeq(n, 1, k) \in DOMAIN file.messages
    BY ONLY <2>2 DEF Sets
  <2>4. k <= j
    BY <1>2, <2>1, <2>3
  <2>5. k \in 0 .. j
    BY ONLY <1>12, <2>1, <2>4
  <2>6. SubSeq(outer, 1, k) = SubSeq(n, 1, k)
    BY <1>3, <2>5
  <2> QED BY ONLY <1>3, <2>2, <2>5, <2>6 DEF SetAround
<1>5. ASSUME NEW k \in T PROVE k \in S
  <2>1. k \in 0 .. j /\ Sets(file, SubSeq(outer, 1, k), x)
    BY <1>3 DEF SetAround
  <2>2. k \in 0 .. Len(n) - 1 /\ k \in 0 .. Len(Parent(n))
    <3>1. k \in 0 .. Len(n) - 1
      BY ONLY <1>12, <2>1
    <3> QED BY <1>1, <3>1
  <2>3. SubSeq(outer, 1, k) = SubSeq(Parent(n), 1, k)
    BY <1>1, <1>3, <2>1, <2>2
  <2> QED BY ONLY <2>1, <2>2, <2>3 DEF SetAround
<1>6. T \in SUBSET (0 .. j)
  BY <1>3 DEF SetAround
<1> HIDE DEF S, T
<1>7. S = T
  BY <1>4, <1>5
<1>8. ASSUME S = {} PROVE Near(file, Parent(n), x) = Near(file, outer, x)
  <2>1. SetAround(file, Parent(n), x) = {} /\ SetAround(file, outer, x) = {}
    BY <1>7, <1>8 DEF S, T
  <2> QED BY <2>1 DEF Near
<1>9. ASSUME S # {} PROVE Near(file, Parent(n), x) = Near(file, outer, x)
  <2>1. Max(S) \in 0 .. j /\ Max(S) \in 0 .. Len(n) - 1
    <3>1. j \in Nat
      BY ONLY <1>12
    <3>2. Max(S) \in S
      BY <1>6, <1>7, <1>9, <3>1, Longest
    <3>3. Max(S) \in 0 .. j
      BY <1>6, <1>7, <3>2
    <3> DEFINE m == Max(S)
    <3> HIDE DEF m
    <3>4. m \in 0 .. j
      BY <3>3 DEF m
    <3>5. m \in 0 .. Len(n) - 1
      BY <1>12, <3>4
    <3> QED BY <3>3, <3>5 DEF m
  <2>2. SubSeq(Parent(n), 1, Max(S)) = SubSeq(outer, 1, Max(S))
    BY <1>1, <1>3, <2>1
  <2>3. Near(file, Parent(n), x) = file.messages[SubSeq(Parent(n), 1, Max(S))].options[x]
    BY <1>9 DEF Near, S
  <2>4. Near(file, outer, x) = file.messages[SubSeq(outer, 1, Max(T))].options[x]
    BY <1>7, <1>9 DEF Near, T
  <2>5. Max(T) = Max(S)
    BY <1>7
  <2> QED BY <2>2, <2>3, <2>4, <2>5
<1>10. Near(file, Parent(n), x) = Near(file, outer, x)
  BY <1>8, <1>9
<1>11. Len(outer) < Len(n)
  BY <1>1, <1>2, <1>3
<1> QED BY <1>2, <1>10, <1>11 DEF outer

\* With no message around it, a declaration is near the file's options and the defaults.
LEMMA NearNothing ==
  ASSUME NEW file, DOMAIN file.messages \subseteq Name, NEW n \in Name, NEW x,
         Enclosing(file, n) = None
  PROVE  Near(file, Parent(n), x) = IF x \in DOMAIN file.options THEN file.options[x]
                                    ELSE Defaults(file.syntax)[x]
<1>1. /\ Len(n) \in Nat \ {0} /\ Len(Parent(n)) = Len(n) - 1
      /\ \A k \in 0 .. Len(n) - 1 : SubSeq(Parent(n), 1, k) = SubSeq(n, 1, k)
  BY ParentOfName
<1>2. \A k \in 0 .. Len(n) - 1 : SubSeq(n, 1, k) \notin DOMAIN file.messages
  BY EnclosingIs
<1>3. ASSUME NEW k \in 0 .. Len(Parent(n)) PROVE ~Sets(file, SubSeq(Parent(n), 1, k), x)
  <2>1. k \in 0 .. Len(n) - 1
    BY <1>1
  <2>2. ~Sets(file, SubSeq(n, 1, k), x)
    BY <1>2, <2>1 DEF Sets
  <2> QED BY <1>1, <2>1, <2>2
<1>4. SetAround(file, Parent(n), x) = {}
  BY <1>3 DEF SetAround
<1> QED BY <1>4 DEF Near

\* Options override what is inherited.
LEMMA AppliedOptions ==
  ASSUME NEW inherited, DOMAIN inherited = Feature, NEW options, ParsedFeatures(options)
  PROVE  Applied(inherited, options)
           = [x \in Feature |-> IF x \in DOMAIN options THEN options[x] ELSE inherited[x]]
<1>1. Applied(inherited, options)
        = [x \in (DOMAIN options) \cup (DOMAIN inherited) |->
             IF x \in DOMAIN options THEN options[x] ELSE inherited[x]]
  BY DEF Applied, Over
<1>2. (DOMAIN options) \cup (DOMAIN inherited) = Feature
  BY DEF ParsedFeatures
<1> QED BY <1>1, <1>2

\* The defaults of every syntax give every feature.
LEMMA DefaultFeatures ==
  ASSUME NEW syntax
  PROVE  DOMAIN Defaults(syntax) = Feature
BY DEF Defaults, Feature, FeatureValues

\* What is set around a declaration, as a rule about one scope.
LEMMA NearestSteps ==
  ASSUME NEW file, DOMAIN file.messages \subseteq Name, ParsedFeatures(file.options),
         NEW n \in DOMAIN file.messages, ParsedFeatures(file.messages[n].options)
  PROVE  Nearest(file, n)
           = Applied(IF Enclosing(file, n) = None THEN FileFeatures(file)
                     ELSE Nearest(file, Enclosing(file, n)), file.messages[n].options)
<1> DEFINE outer == Enclosing(file, n)
           options == file.messages[n].options
<1>1. n \in Name
  OBVIOUS
<1>2. CASE outer = None
  <2>1. DOMAIN FileFeatures(file) = Feature
    BY DefaultFeatures, AppliedOptions DEF FileFeatures
  <2>2. FileFeatures(file) = [x \in Feature |-> IF x \in DOMAIN file.options THEN file.options[x]
                                              ELSE Defaults(file.syntax)[x]]
    BY DefaultFeatures, AppliedOptions DEF FileFeatures
  <2>3. \A x \in Feature : Near(file, Parent(n), x) = FileFeatures(file)[x]
    BY <1>1, <1>2, <2>2, NearNothing
  <2>4. \A x \in Feature : Near(file, n, x) = IF x \in DOMAIN options THEN options[x]
                                              ELSE FileFeatures(file)[x]
    BY <1>1, <2>3, NearOwn
  <2>5. Applied(FileFeatures(file), options)
          = [x \in Feature |-> IF x \in DOMAIN options THEN options[x] ELSE FileFeatures(file)[x]]
    BY <2>1, AppliedOptions
  <2> HIDE DEF options
  <2> QED BY <1>2, <2>4, <2>5 DEF Nearest, options
<1>3. CASE outer # None
  <2>1. DOMAIN Nearest(file, outer) = Feature
    BY DEF Nearest
  <2>2. \A x \in Feature : Near(file, Parent(n), x) = Nearest(file, outer)[x]
    BY <1>1, <1>3, NearOuter DEF Nearest
  <2>3. \A x \in Feature : Near(file, n, x) = IF x \in DOMAIN options THEN options[x]
                                              ELSE Nearest(file, outer)[x]
    BY <1>1, <2>2, NearOwn
  <2>4. Applied(Nearest(file, outer), options)
          = [x \in Feature |-> IF x \in DOMAIN options THEN options[x]
                               ELSE Nearest(file, outer)[x]]
    BY <2>1, AppliedOptions
  <2>5. Nearest(file, n) = [x \in Feature |-> Near(file, n, x)]
    BY DEF Nearest
  <2> HIDE DEF options
  <2>6. Nearest(file, n) = Applied(Nearest(file, outer), options)
    BY <2>3, <2>4, <2>5
  <2> QED BY <1>3, <2>6 DEF options
<1> QED BY <1>2, <1>3

\* resolve_features gives every message the nearest settings.
LEMMA MessageFeaturesAre ==
  ASSUME NEW file, DOMAIN file.messages \subseteq Name, ParsedFeatures(file.options),
         \A n \in DOMAIN file.messages : ParsedFeatures(file.messages[n].options)
  PROVE  MessageFeatures(file) = [n \in DOMAIN file.messages |-> Nearest(file, n)]
<1> DEFINE D == DOMAIN file.messages
           Inherits(g, n) == IF Enclosing(file, n) = None THEN FileFeatures(file)
                             ELSE g[Enclosing(file, n)]
           Step(g) == [n \in D |-> Applied(Inherits(g, n), file.messages[n].options)]
           G == [n \in D |-> Nearest(file, n)]
           F == MessageFeatures(file)
<1>1. \A n \in D : Enclosing(file, n) # None =>
                     Enclosing(file, n) \in D /\ Len(Enclosing(file, n)) < Len(n)
  BY NearOuter
<1>2. G = Step(G)
  <2>1. ASSUME NEW n \in D
        PROVE  Nearest(file, n) = Applied(Inherits(G, n), file.messages[n].options)
    <3>1. Inherits(G, n) = IF Enclosing(file, n) = None THEN FileFeatures(file)
                           ELSE Nearest(file, Enclosing(file, n))
      BY <1>1
    <3> QED BY <3>1, NearestSteps
  <2> QED BY <2>1
<1>3. F = CHOOSE g : g = Step(g)
  BY DEF MessageFeatures
<1> HIDE DEF F, Step, G
<1>4. F = Step(F)
  BY <1>2, <1>3
<1>5. DOMAIN F = D /\ DOMAIN G = D
  BY <1>4, <1>2 DEF Step
<1>6. \A n \in D : /\ F[n] = Applied(Inherits(F, n), file.messages[n].options)
                   /\ G[n] = Applied(Inherits(G, n), file.messages[n].options)
  BY <1>2, <1>4 DEF Step
<1>7. \A n \in D : Len(n) \in Nat
  BY DEF Name
<1>8. \A n \in D : F[n] = G[n]
  <2> SUFFICES ASSUME \E n \in D : F[n] # G[n] PROVE FALSE
    OBVIOUS
  <2> DEFINE T == {k \in Nat : \E n \in D : Len(n) = k /\ F[n] # G[n]}
  <2>1. T \subseteq Nat /\ T # {}
    BY <1>7
  <2>2. PICK k \in T : \A j \in T : k <= j
    <3> HIDE DEF T
    <3> QED BY <2>1, Least
  <2>3. PICK n \in D : Len(n) = k /\ F[n] # G[n]
    BY <2>2
  <2>4. Enclosing(file, n) # None /\ F[Enclosing(file, n)] # G[Enclosing(file, n)]
    BY <1>6, <2>3
  <2>5. Enclosing(file, n) \in D /\ Len(Enclosing(file, n)) < k
    BY <1>1, <2>3, <2>4
  <2>6. Len(Enclosing(file, n)) \in T
    BY <1>7, <2>4, <2>5
  <2> QED BY <2>1, <2>2, <2>5, <2>6
<1>9. F = [n \in D |-> F[n]] /\ G = [n \in D |-> G[n]]
  BY <1>2, <1>4 DEF Step
<1>10. F = G
  BY <1>5, <1>8, <1>9
<1> QED BY <1>10 DEF F, G

\* Two files with the same settings.
SameSettings(D, file) ==
  /\ D.syntax = file.syntax /\ D.options = file.options
  /\ DOMAIN D.messages = DOMAIN file.messages
  /\ \A n \in DOMAIN file.messages : D.messages[n].options = file.messages[n].options

\* The features depend only on the options, the syntax and the names of a file.
LEMMA SettingsDecide ==
  ASSUME NEW D, NEW file, SameSettings(D, file)
  PROVE  /\ FileFeatures(D) = FileFeatures(file)
         /\ \A scope \in Seq(STRING) : \A x : Near(D, scope, x) = Near(file, scope, x)
         /\ \A scope \in Seq(STRING) : Nearest(D, scope) = Nearest(file, scope)
         /\ \A n : Enclosing(D, n) = Enclosing(file, n)
<1>1. FileFeatures(D) = FileFeatures(file)
  BY DEF SameSettings, FileFeatures
<1>2. ASSUME NEW scope \in Seq(STRING), NEW x PROVE Near(D, scope, x) = Near(file, scope, x)
  <2>1. \A m : Sets(D, m, x) <=> Sets(file, m, x)
    BY DEF SameSettings, Sets
  <2> DEFINE S == SetAround(file, scope, x)
             m == SubSeq(scope, 1, Max(S))
  <2>2. SetAround(D, scope, x) = S
    BY <2>1 DEF SetAround
  <2>3. CASE S = {}
    BY <2>2, <2>3 DEF Near, SameSettings
  <2>4. CASE S # {}
    <3>1. S \in SUBSET (0 .. Len(scope)) /\ Len(scope) \in Nat
      BY DEF SetAround
    <3> HIDE DEF S
    <3>2. Max(S) \in S
      BY <2>4, <3>1, Longest
    <3>3. Sets(file, m, x)
      BY <3>2 DEF SetAround, S
    <3>4. D.messages[m].options = file.messages[m].options
      BY <3>3 DEF SameSettings, Sets
    <3>5. Near(D, scope, x) = D.messages[m].options[x]
      BY <2>2, <2>4 DEF Near
    <3>6. Near(file, scope, x) = file.messages[m].options[x]
      BY <2>4 DEF Near, S
    <3> QED BY <3>4, <3>5, <3>6
  <2> QED BY <2>3, <2>4
<1>3. \A scope \in Seq(STRING) : Nearest(D, scope) = Nearest(file, scope)
  BY <1>2 DEF Nearest
<1>4. ASSUME NEW n PROVE Enclosing(D, n) = Enclosing(file, n)
  BY DEF Enclosing, SameSettings
<1> QED BY <1>1, <1>2, <1>3, <1>4

-----------------------------------------------------------------------------
(* A file, resolved.                                                       *)

\* The fields of a resolved file, out of those that were parsed.
LEMMA FieldsResolved ==
  ASSUME NEW p, ParsedFile(files[p]), NEW D, D = WithDeclarations(p), NEW F, F = WithFeatures(D),
         NEW n \in DOMAIN files[p].messages, NEW f \in DOMAIN files[p].messages[n].fields
  PROVE  /\ f \in DOMAIN D.messages[n].fields
         /\ D.messages[n].fields[f] = ResolvedField(p, files[p].messages[n].fields[f], n)
         /\ F.messages[n].fields[f]
              = Featured(ResolvedField(p, files[p].messages[n].fields[f], n), MessageFeatures(D)[n])
<1>1. DOMAIN files[p] = FileParts
  BY DEF ParsedFile, FileParts
<1>2. DOMAIN D = FileParts
  BY <1>1, DeclaredParts
<1> DEFINE message == files[p].messages[n]
<1>3. DOMAIN message = {"fields", "extension_ranges", "options", "features"}
  BY DEF ParsedFile, ParsedMessage
<1>4. /\ DOMAIN D.messages = DOMAIN files[p].messages
      /\ D.messages[n] = ResolvedMessage(p, message, n)
  <2>1. D.messages = [m \in DOMAIN files[p].messages |-> ResolvedMessage(p, files[p].messages[m], m)]
    BY <1>1, DeclaredParts
  <2> QED BY <2>1
<1>5. F.messages[n] = FeaturedMessage(D.messages[n], MessageFeatures(D)[n])
  <2>1. F.messages = [m \in DOMAIN D.messages |-> FeaturedMessage(D.messages[m], MessageFeatures(D)[m])]
    <3>1. F = WithFeatures(D)
      OBVIOUS
    <3> QED BY ONLY <1>2, <3>1, FeaturedParts, Zenon
  <2> QED BY <1>4, <2>1
<1> DEFINE fields == [g \in DOMAIN message.fields |-> ResolvedField(p, message.fields[g], n)]
<1>6. DOMAIN D.messages[n] = DOMAIN message /\ D.messages[n].fields = fields
  BY <1>3, <1>4 DEF ResolvedMessage
<1>7. f \in DOMAIN fields /\ fields[f] = ResolvedField(p, message.fields[f], n)
  OBVIOUS
<1> HIDE DEF fields
<1>8. F.messages[n].fields = [g \in DOMAIN fields |-> Featured(fields[g], MessageFeatures(D)[n])]
  BY <1>3, <1>5, <1>6 DEF FeaturedMessage
<1> QED BY <1>6, <1>7, <1>8

\* The messages of a resolved file keep what resolving leaves alone.
LEMMA MessagesKept ==
  ASSUME NEW p, ParsedFile(files[p]), NEW D, D = WithDeclarations(p), NEW F, F = WithFeatures(D)
  PROVE  /\ DOMAIN F.messages = DOMAIN files[p].messages
         /\ DOMAIN D.messages = DOMAIN files[p].messages
         /\ \A n \in DOMAIN files[p].messages :
              /\ KeepsMessage(F.messages[n], files[p].messages[n])
              /\ D.messages[n].options = files[p].messages[n].options
              /\ DOMAIN D.messages[n].fields = DOMAIN files[p].messages[n].fields
<1>1. DOMAIN files[p] = FileParts
  BY DEF ParsedFile, FileParts
<1>2. DOMAIN D = FileParts
  BY <1>1, DeclaredParts
<1>3. D.messages = [m \in DOMAIN files[p].messages |-> ResolvedMessage(p, files[p].messages[m], m)]
  BY <1>1, DeclaredParts
<1>4. F.messages = [m \in DOMAIN D.messages |-> FeaturedMessage(D.messages[m], MessageFeatures(D)[m])]
  <2>1. F = WithFeatures(D)
    OBVIOUS
  <2> QED BY ONLY <1>2, <2>1, FeaturedParts, Zenon
<1>5. DOMAIN F.messages = DOMAIN files[p].messages /\ DOMAIN D.messages = DOMAIN files[p].messages
  BY <1>3, <1>4
<1>6. ASSUME NEW n \in DOMAIN files[p].messages
      PROVE  /\ KeepsMessage(F.messages[n], files[p].messages[n])
             /\ D.messages[n].options = files[p].messages[n].options
             /\ DOMAIN D.messages[n].fields = DOMAIN files[p].messages[n].fields
  <2> DEFINE message == files[p].messages[n]
             d == D.messages[n]
             m == F.messages[n]
  <2>1. /\ DOMAIN message = {"fields", "extension_ranges", "options", "features"}
        /\ \A f \in DOMAIN message.fields : ParsedField(message.fields[f])
    BY DEF ParsedFile, ParsedMessage
  <2>2. d = ResolvedMessage(p, message, n)
    BY <1>3
  <2>3. m = FeaturedMessage(d, MessageFeatures(D)[n])
    BY <1>4, <1>5
  <2>4. \A f \in DOMAIN message.fields :
           m.fields[f] = Featured(ResolvedField(p, message.fields[f], n), MessageFeatures(D)[n])
    BY FieldsResolved
  <2> HIDE DEF message, d, m
  <2>5. /\ DOMAIN d = DOMAIN message /\ d.extension_ranges = message.extension_ranges
        /\ d.options = message.options /\ DOMAIN d.fields = DOMAIN message.fields
    BY <2>1, <2>2 DEF ResolvedMessage
  <2>6. /\ DOMAIN m = DOMAIN d /\ m.extension_ranges = d.extension_ranges
        /\ m.options = d.options /\ DOMAIN m.fields = DOMAIN d.fields
    BY <2>1, <2>3, <2>5 DEF FeaturedMessage
  <2>7. ASSUME NEW f \in DOMAIN message.fields
        PROVE  KeepsField(m.fields[f], message.fields[f])
    <3> DEFINE g == ResolvedField(p, message.fields[f], n)
    <3>1. ParsedField(message.fields[f])
      BY <2>1
    <3>2. KeepsField(g, message.fields[f])
      BY <3>1, FieldIsResolved DEF FieldAsResolved
    <3>3. DOMAIN g = {"number", "kind", "cardinality", "oneof", "packed", "packed_explicit",
                      "explicit_presence", "default", "options", "features"}
      BY <3>1, <3>2 DEF KeepsField, ParsedField
    <3>4. KeepsField(m.fields[f], g)
      <4>1. m.fields[f] = Featured(g, MessageFeatures(D)[n])
        BY <2>4
      <4> HIDE DEF g
      <4> QED BY <3>3, <4>1, FieldIsFeatured DEF FieldAsFeatured
    <3> QED BY <3>2, <3>4 DEF KeepsField
  <2> QED BY <2>5, <2>6, <2>7 DEF KeepsMessage, message, d, m
<1> QED BY <1>5, <1>6

\* What the features change of an extension's field.
LEMMA ExtensionIsFeatured ==
  ASSUME NEW field, DOMAIN field = {"number", "kind", "cardinality", "oneof", "packed",
           "packed_explicit", "explicit_presence", "default", "options", "features"},
         NEW inherited, NEW h, h = FeaturedExtension(field, inherited)
  PROVE  /\ KeepsField(h, field) /\ h.kind = field.kind
         /\ h.features = Applied(inherited, field.options)
<1> DEFINE features == Applied(inherited, field.options)
           f == [field EXCEPT !.features = features]
           presence == f.cardinality # "repeated" /\ f.features.field_presence # "IMPLICIT"
<1>1. h = [f EXCEPT !.explicit_presence = presence, !.packed = PackedByFeature(f)]
  BY DEF FeaturedExtension
<1> HIDE DEF features, presence
<1>2. DOMAIN f = DOMAIN field /\ KeepsField(f, field) /\ f.kind = field.kind /\ f.features = features
  BY DEF KeepsField
<1> HIDE DEF f
<1>3. KeepsField(h, f) /\ h.kind = f.kind /\ h.features = f.features
  BY <1>1, <1>2 DEF KeepsField
<1>4. KeepsField(h, field) /\ h.kind = field.kind /\ h.features = features
  BY <1>2, <1>3 DEF KeepsField
<1> QED BY <1>4 DEF features

\* The extensions of a resolved file.
LEMMA ExtensionsKept ==
  ASSUME NEW p, ParsedFile(files[p]), NEW D, D = WithDeclarations(p), NEW F, F = WithFeatures(D)
  PROVE  /\ DOMAIN F.extensions = DOMAIN files[p].extensions
         /\ \A n \in DOMAIN files[p].extensions :
              /\ KeepsExtension(F.extensions[n], files[p].extensions[n])
              /\ F.extensions[n].extendee = Extendee(p, n)
              /\ F.extensions[n].field.features
                   = Applied(ExtensionInherits(D, n), files[p].extensions[n].field.options)
<1>1. DOMAIN files[p] = FileParts
  BY DEF ParsedFile, FileParts
<1>2. DOMAIN D = FileParts
  BY <1>1, DeclaredParts
<1>3. D.extensions = [m \in DOMAIN files[p].extensions |->
                        ResolvedExtension(p, files[p].extensions[m], m)]
  BY <1>1, DeclaredParts
<1>4. F.extensions = [m \in DOMAIN D.extensions |-> ExtensionFeatured(D, m)]
  <2>1. F = WithFeatures(D)
    OBVIOUS
  <2> QED BY ONLY <1>2, <2>1, FeaturedParts, Zenon
<1>5. DOMAIN F.extensions = DOMAIN files[p].extensions /\ DOMAIN D.extensions = DOMAIN files[p].extensions
  BY <1>3, <1>4
<1>6. ASSUME NEW n \in DOMAIN files[p].extensions
      PROVE  /\ KeepsExtension(F.extensions[n], files[p].extensions[n])
             /\ F.extensions[n].extendee = Extendee(p, n)
             /\ F.extensions[n].field.features
                  = Applied(ExtensionInherits(D, n), files[p].extensions[n].field.options)
  <2> DEFINE extension == files[p].extensions[n]
             d == D.extensions[n]
             m == F.extensions[n]
             kind == ResolvedIn(p, extension.field.kind, Parent(n))
             inherited == ExtensionInherits(D, n)
             extendee == Extendee(p, n)
  <2>1. DOMAIN extension = {"extendee", "field"} /\ ParsedField(extension.field)
    BY DEF ParsedFile, ParsedExtension
  <2>2. d = [extension EXCEPT !.extendee = extendee, !.field.kind = kind]
    BY <1>3 DEF ResolvedExtension
  <2>3. m = [d EXCEPT !.field = FeaturedExtension(d.field, inherited)]
    BY <1>4, <1>5 DEF ExtensionFeatured
  <2> HIDE DEF extension, d, m, kind, inherited, extendee
  <2>4. /\ DOMAIN d = DOMAIN extension /\ d.extendee = extendee
        /\ d.field = [extension.field EXCEPT !.kind = kind]
    BY <2>1, <2>2
  <2>5. KeepsField(d.field, extension.field)
    BY <2>1, <2>4 DEF KeepsField, ParsedField
  <2>6. DOMAIN m = DOMAIN extension /\ m.extendee = extendee /\ m.field = FeaturedExtension(d.field, inherited)
    BY <2>1, <2>3, <2>4
  <2>7. DOMAIN d.field = {"number", "kind", "cardinality", "oneof", "packed", "packed_explicit",
                          "explicit_presence", "default", "options", "features"}
    BY <2>1, <2>5 DEF KeepsField, ParsedField
  <2>8. KeepsField(m.field, d.field) /\ m.field.features = Applied(inherited, d.field.options)
    BY <2>6, <2>7, ExtensionIsFeatured
  <2>9. KeepsField(m.field, extension.field) /\ d.field.options = extension.field.options
    BY <2>5, <2>8 DEF KeepsField
  <2> QED BY <2>6, <2>8, <2>9 DEF KeepsExtension, extension, d, m, kind, inherited, extendee
<1> QED BY <1>5, <1>6
\* The other declarations of a resolved file.
LEMMA OthersKept ==
  ASSUME NEW p, ParsedFile(files[p]), NEW D, D = WithDeclarations(p), NEW F, F = WithFeatures(D)
  PROVE  /\ DOMAIN F.enums = DOMAIN files[p].enums
         /\ \A n \in DOMAIN files[p].enums :
              /\ KeepsEnum(F.enums[n], files[p].enums[n])
              /\ F.enums[n].features = Applied(Inherited(D, n), files[p].enums[n].options)
         /\ DOMAIN F.custom_options = DOMAIN files[p].custom_options
         /\ \A n \in DOMAIN files[p].custom_options :
              KeepsOption(F.custom_options[n], files[p].custom_options[n])
         /\ DOMAIN F.services = DOMAIN files[p].services
         /\ \A n \in DOMAIN files[p].services :
              F.services[n] = {ResolvedIn(p, kind, n) : kind \in files[p].services[n]}
<1>1. DOMAIN files[p] = FileParts
  BY DEF ParsedFile, FileParts
<1>2. DOMAIN D = FileParts
  BY <1>1, DeclaredParts
<1>3. /\ D.custom_options = [n \in DOMAIN files[p].custom_options |->
                               ResolvedOption(p, files[p].custom_options[n], n)]
      /\ D.enums = files[p].enums
      /\ D.services = [n \in DOMAIN files[p].services |-> ResolvedEndpoints(p, n)]
  BY <1>1, DeclaredParts
<1>4. /\ F.enums = [m \in DOMAIN D.enums |-> FeaturedEnum(D, m)]
      /\ F.custom_options = D.custom_options /\ F.services = D.services
  <2>1. F = WithFeatures(D)
    OBVIOUS
  <2> QED BY ONLY <1>2, <2>1, FeaturedParts, Zenon
<1>5. ASSUME NEW n \in DOMAIN files[p].enums
      PROVE  /\ KeepsEnum(F.enums[n], files[p].enums[n])
             /\ F.enums[n].features = Applied(Inherited(D, n), files[p].enums[n].options)
  <2> DEFINE enum == files[p].enums[n]
             features == Applied(Inherited(D, n), enum.options)
  <2>1. DOMAIN enum = {"values", "syntax", "options", "features"}
    BY DEF ParsedFile, ParsedEnum
  <2>2. F.enums[n] = [enum EXCEPT !.features = features]
    BY <1>3, <1>4 DEF FeaturedEnum
  <2> HIDE DEF enum, features
  <2>3. KeepsEnum(F.enums[n], enum) /\ F.enums[n].features = features
    BY <2>1, <2>2 DEF KeepsEnum
  <2> QED BY <2>3 DEF enum, features
<1>6. ASSUME NEW n \in DOMAIN files[p].custom_options
      PROVE  KeepsOption(F.custom_options[n], files[p].custom_options[n])
  <2> DEFINE option == files[p].custom_options[n]
             kind == ResolvedIn(p, option.kind, Parent(n))
  <2>1. DOMAIN option = {"extendee", "number", "kind", "cardinality"}
    BY DEF ParsedFile, ParsedOption
  <2>2. F.custom_options[n] = [option EXCEPT !.kind = kind]
    BY <1>3, <1>4 DEF ResolvedOption
  <2> HIDE DEF option, kind
  <2>3. KeepsOption(F.custom_options[n], option)
    BY <2>1, <2>2 DEF KeepsOption
  <2> QED BY <2>3 DEF option
<1> QED BY <1>3, <1>4, <1>5, <1>6 DEF ResolvedEndpoints

\* Resolving a file keeps what it does not resolve.
LEMMA FileKept ==
  ASSUME NEW p, ParsedFile(files[p]), NEW D, D = WithDeclarations(p), NEW F, F = WithFeatures(D)
  PROVE  Keeps(F, files[p]) /\ SameSettings(D, files[p])
<1>1. DOMAIN files[p] = FileParts
  BY DEF ParsedFile, FileParts
<1>2. /\ DOMAIN D = FileParts /\ D.syntax = files[p].syntax /\ D.options = files[p].options
      /\ D.settings = files[p].settings
  BY <1>1, DeclaredParts
<1>3. /\ DOMAIN F = FileParts /\ F.syntax = D.syntax /\ F.options = D.options
      /\ F.settings = D.settings
  <2>1. F = WithFeatures(D)
    OBVIOUS
  <2> QED BY ONLY <1>2, <2>1, FeaturedParts, Zenon
<1>4. /\ DOMAIN F.messages = DOMAIN files[p].messages
      /\ DOMAIN D.messages = DOMAIN files[p].messages
      /\ \A n \in DOMAIN files[p].messages :
              /\ KeepsMessage(F.messages[n], files[p].messages[n])
              /\ D.messages[n].options = files[p].messages[n].options
  BY MessagesKept
<1>5. /\ DOMAIN F.extensions = DOMAIN files[p].extensions
      /\ \A n \in DOMAIN files[p].extensions :
              KeepsExtension(F.extensions[n], files[p].extensions[n])
  BY ExtensionsKept
<1>6. /\ DOMAIN F.enums = DOMAIN files[p].enums
      /\ \A n \in DOMAIN files[p].enums : KeepsEnum(F.enums[n], files[p].enums[n])
      /\ DOMAIN F.custom_options = DOMAIN files[p].custom_options
      /\ \A n \in DOMAIN files[p].custom_options :
              KeepsOption(F.custom_options[n], files[p].custom_options[n])
      /\ DOMAIN F.services = DOMAIN files[p].services
  BY OthersKept
<1>7. KeepsNames(F, files[p])
  BY <1>4, <1>5, <1>6 DEF KeepsNames, Sorts
<1>8. SameSettings(D, files[p])
  BY <1>2, <1>4 DEF SameSettings
<1> QED BY <1>1, <1>2, <1>3, <1>4, <1>5, <1>6, <1>7, <1>8 DEF Keeps

-----------------------------------------------------------------------------
(* What a name means.                                                      *)

\* The innermost name of a set that a kind means in a scope.
InnermostIn(kind, scope, n, T) ==
  /\ n \in T
  /\ IF kind.absolute THEN n = kind.name
     ELSE \E k \in 0 .. Len(scope) :
            /\ n = SubSeq(scope, 1, k) \o kind.name
            /\ \A j \in k + 1 .. Len(scope) : SubSeq(scope, 1, j) \o kind.name \notin T

\* The names that a reference may stand for, one for each scope around it.
LEMMA CandidatesAre ==
  ASSUME NEW kind, NEW scope \in Seq(STRING)
  PROVE  /\ kind.absolute => /\ DOMAIN Candidates(kind, scope) = {1}
                             /\ Candidates(kind, scope)[1] = kind.name
         /\ ~kind.absolute => DOMAIN Candidates(kind, scope) = 1 .. Len(scope) + 1
         /\ ~kind.absolute =>
              \A k \in 0 .. Len(scope) :
                /\ Len(scope) + 1 - k \in 1 .. Len(scope) + 1
                /\ Candidates(kind, scope)[Len(scope) + 1 - k] = SubSeq(scope, 1, k) \o kind.name
<1>1. Len(scope) \in Nat
  OBVIOUS
<1>2. ASSUME ~kind.absolute, NEW k \in 0 .. Len(scope)
      PROVE  /\ Len(scope) + 1 - k \in 1 .. Len(scope) + 1
             /\ Candidates(kind, scope)[Len(scope) + 1 - k] = SubSeq(scope, 1, k) \o kind.name
  <2>1. Len(scope) + 1 - k \in 1 .. Len(scope) + 1 /\ Len(scope) + 1 - (Len(scope) + 1 - k) = k
    BY <1>1
  <2> QED BY <1>2, <2>1 DEF Candidates
<1>3. kind.absolute => DOMAIN Candidates(kind, scope) = {1} /\ Candidates(kind, scope)[1] = kind.name
  BY DEF Candidates
<1>4. ~kind.absolute => DOMAIN Candidates(kind, scope) = 1 .. Len(scope) + 1
  BY DEF Candidates
<1> QED BY <1>2, <1>3, <1>4

\* The first match is the innermost name.
LEMMA FirstMatch ==
  ASSUME NEW kind, NEW scope \in Seq(STRING), NEW T, Matches(kind, scope, T) # {}
  PROVE  InnermostIn(kind, scope, Candidates(kind, scope)[Min(Matches(kind, scope, T))], T)
<1> DEFINE c == Candidates(kind, scope)
           S == Matches(kind, scope, T)
<1>1. Len(scope) \in Nat
  OBVIOUS
<1>2. S = {i \in DOMAIN c : c[i] \in T}
  BY DEF Matches
<1>3. CASE kind.absolute
  <2>1. DOMAIN c = {1} /\ c[1] = kind.name
    BY <1>3, CandidatesAre
  <2>2. S = {1}
    BY <1>2, <2>1
  <2>3. S \subseteq Nat /\ S # {}
    BY <2>2
  <2>4. Min(S) \in S
    <3> HIDE DEF S
    <3> QED BY <2>3, Shortest
  <2>5. c[Min(S)] = kind.name /\ c[Min(S)] \in T
    BY <1>2, <2>1, <2>2, <2>4
  <2> QED BY <1>3, <2>5 DEF InnermostIn
<1>4. CASE ~kind.absolute
  <2>1. DOMAIN c = 1 .. Len(scope) + 1
    BY <1>4, CandidatesAre
  <2>2. \A k \in 0 .. Len(scope) : c[Len(scope) + 1 - k] = SubSeq(scope, 1, k) \o kind.name
    BY <1>4, CandidatesAre
  <2> HIDE DEF c, S
  <2>3. S \subseteq Nat /\ S # {}
    <3>1. S \subseteq 1 .. Len(scope) + 1
      BY <1>2, <2>1
    <3>2. S # {}
      BY DEF S
    <3> QED BY <3>1, <3>2
  <2>4. Min(S) \in S /\ \A i \in S : Min(S) <= i
    BY <2>3, Shortest
  <2> DEFINE m == Min(S)
             k == Len(scope) + 1 - m
  <2>5. m \in 1 .. Len(scope) + 1 /\ c[m] \in T /\ \A i \in S : m <= i
    BY <1>2, <2>1, <2>4
  <2> HIDE DEF m
  <2>6. k \in 0 .. Len(scope) /\ Len(scope) + 1 - k = m
    BY <1>1, <2>5
  <2>7. c[m] = SubSeq(scope, 1, k) \o kind.name
    <3> HIDE DEF k
    <3>1. c[Len(scope) + 1 - k] = SubSeq(scope, 1, k) \o kind.name
      BY <2>2, <2>6
    <3> QED BY <2>6, <3>1
  <2>8. ASSUME NEW j \in k + 1 .. Len(scope) PROVE SubSeq(scope, 1, j) \o kind.name \notin T
    <3>1. j \in 0 .. Len(scope) /\ Len(scope) + 1 - j \in 1 .. Len(scope) + 1
          /\ ~(m <= Len(scope) + 1 - j)
      BY <1>1, <2>5, <2>6
    <3>2. c[Len(scope) + 1 - j] = SubSeq(scope, 1, j) \o kind.name
      BY <2>2, <3>1
    <3>3. Len(scope) + 1 - j \notin S
      BY <2>5, <3>1
    <3>4. c[Len(scope) + 1 - j] \notin T
      BY <1>2, <2>1, <3>1, <3>3
    <3> QED BY <3>2, <3>4
  <2>9. InnermostIn(kind, scope, c[m], T)
    <3> HIDE DEF k
    <3> QED BY <1>4, <2>5, <2>6, <2>7, <2>8 DEF InnermostIn
  <2> QED BY <2>9 DEF c, S, m
<1> QED BY <1>3, <1>4

\* What matches nothing means nothing.
LEMMA NoMatch ==
  ASSUME NEW kind, NEW scope \in Seq(STRING), NEW T, Matches(kind, scope, T) = {}, NEW n
  PROVE  ~InnermostIn(kind, scope, n, T)
<1>1. Len(scope) \in Nat
  OBVIOUS
<1>2. SUFFICES ASSUME InnermostIn(kind, scope, n, T) PROVE FALSE
  OBVIOUS
<1>3. CASE kind.absolute
  <2>1. DOMAIN Candidates(kind, scope) = {1} /\ Candidates(kind, scope)[1] = kind.name
    BY <1>3, CandidatesAre
  <2>2. n \in T /\ n = kind.name
    BY <1>2, <1>3 DEF InnermostIn
  <2> QED BY <2>1, <2>2 DEF Matches
<1>4. CASE ~kind.absolute
  <2>1. PICK k \in 0 .. Len(scope) : n = SubSeq(scope, 1, k) \o kind.name
    BY <1>2, <1>4 DEF InnermostIn
  <2>2. n \in T
    BY <1>2 DEF InnermostIn
  <2>3. Len(scope) + 1 - k \in DOMAIN Candidates(kind, scope)
        /\ Candidates(kind, scope)[Len(scope) + 1 - k] = n
    BY <1>4, <2>1, CandidatesAre
  <2> QED BY <2>2, <2>3 DEF Matches
<1> QED BY <1>3, <1>4

IsBound(kind, scope, final, messages, enums) ==
  IF kind.of # "message" THEN final = kind
  ELSE /\ DOMAIN final = DOMAIN kind /\ final.map = kind.map /\ final.absolute = FALSE
       /\ \/ final.of = "message" /\ InnermostIn(kind, scope, final.name, messages)
          \/ /\ final.of = "enum" /\ InnermostIn(kind, scope, final.name, enums)
             /\ \A n : ~InnermostIn(kind, scope, n, messages)

\* A reference that resolves is bound to the innermost name that it may stand for.
LEMMA ResolvedIsBound ==
  ASSUME NEW kind \in ParsedKind, NEW scope \in Seq(STRING), NEW messages, NEW enums,
         ~Unknown(kind, scope, messages, enums), NEW final,
         final = Resolved(kind, scope, messages, enums)
  PROVE  IsBound(kind, scope, final, messages, enums)
<1>1. CASE kind.of # "message"
  BY <1>1 DEF Resolved, IsBound
<1>2. DOMAIN kind = {"of", "name", "absolute", "map"}
  BY DEF ParsedKind
<1>3. ASSUME NEW of, NEW T, final = Named(kind, of, scope, T)
      PROVE  /\ DOMAIN final = DOMAIN kind /\ final.map = kind.map /\ final.absolute = FALSE
             /\ final.of = of
             /\ final.name = Candidates(kind, scope)[Min(Matches(kind, scope, T))]
  <2> DEFINE name == Candidates(kind, scope)[Min(Matches(kind, scope, T))]
  <2>1. final = [kind EXCEPT !.of = of, !.absolute = FALSE, !.name = name]
    BY <1>3 DEF Named
  <2> HIDE DEF name
  <2>2. /\ DOMAIN final = DOMAIN kind /\ final.map = kind.map /\ final.absolute = FALSE
        /\ final.of = of /\ final.name = name
    BY <1>2, <2>1
  <2> QED BY <2>2 DEF name
<1>4. CASE kind.of = "message" /\ Matches(kind, scope, messages) # {}
  <2>1. final = Named(kind, "message", scope, messages)
    BY <1>4 DEF Resolved
  <2>2. InnermostIn(kind, scope, final.name, messages)
    BY <1>3, <1>4, <2>1, FirstMatch
  <2> QED BY <1>3, <1>4, <2>1, <2>2 DEF IsBound
<1>5. CASE kind.of = "message" /\ Matches(kind, scope, messages) = {}
  <2>1. final = Named(kind, "enum", scope, enums)
    BY <1>5 DEF Resolved
  <2>2. Matches(kind, scope, enums) # {}
    BY <1>5 DEF Unknown, Matches
  <2>3. InnermostIn(kind, scope, final.name, enums)
    BY <1>3, <2>1, <2>2, FirstMatch
  <2>4. \A n : ~InnermostIn(kind, scope, n, messages)
    BY <1>5, NoMatch
  <2> QED BY <1>3, <1>5, <2>1, <2>3, <2>4 DEF IsBound
<1> QED BY <1>1, <1>4, <1>5
-----------------------------------------------------------------------------
(* The features of a resolved file.                                        *)

NamesAndOptions(file) ==
  /\ DOMAIN file.messages \subseteq Name /\ ParsedFeatures(file.options)
  /\ \A n \in DOMAIN file.messages : ParsedFeatures(file.messages[n].options)

\* What a declaration inherits is what is set nearest around it.
LEMMA InheritedIsNear ==
  ASSUME NEW file, NamesAndOptions(file), NEW n \in Name
  PROVE  Inherited(file, n) = Nearest(file, Parent(n))
<1>1. MessageFeatures(file) = [m \in DOMAIN file.messages |-> Nearest(file, m)]
  BY MessageFeaturesAre DEF NamesAndOptions
<1>2. CASE Enclosing(file, n) = None
  <2>1. FileFeatures(file) = [x \in Feature |-> IF x \in DOMAIN file.options THEN file.options[x]
                                                ELSE Defaults(file.syntax)[x]]
    <3>1. DOMAIN Defaults(file.syntax) = Feature /\ ParsedFeatures(file.options)
      BY DefaultFeatures DEF NamesAndOptions
    <3> QED BY <3>1, AppliedOptions DEF FileFeatures
  <2>2. \A x : Near(file, Parent(n), x) = IF x \in DOMAIN file.options THEN file.options[x]
                                          ELSE Defaults(file.syntax)[x]
    BY <1>2, NearNothing DEF NamesAndOptions
  <2>3. FileFeatures(file) = [x \in Feature |-> Near(file, Parent(n), x)]
    BY <2>1, <2>2
  <2>4. Inherited(file, n) = FileFeatures(file)
    BY <1>2 DEF Inherited
  <2> QED BY <2>3, <2>4 DEF Nearest
<1>3. CASE Enclosing(file, n) # None
  <2> DEFINE outer == Enclosing(file, n)
  <2>1. outer \in DOMAIN file.messages /\ \A x : Near(file, Parent(n), x) = Near(file, outer, x)
    BY <1>3, NearOuter DEF NamesAndOptions
  <2>2. Inherited(file, n) = Nearest(file, outer)
    BY <1>1, <1>3, <2>1 DEF Inherited
  <2> HIDE DEF outer
  <2> QED BY <2>1, <2>2 DEF Nearest
<1> QED BY <1>2, <1>3

\* What an extension inherits is what is set nearest around its declarer.
LEMMA ExtensionInheritsNear ==
  ASSUME NEW file, NamesAndOptions(file), NEW n \in Name
  PROVE  ExtensionInherits(file, n) = Nearest(file, Declarer(file, n))
<1>1. MessageFeatures(file) = [m \in DOMAIN file.messages |-> Nearest(file, m)]
  BY MessageFeaturesAre DEF NamesAndOptions
<1>2. CASE Parent(n) \in DOMAIN file.messages
  BY <1>1, <1>2 DEF ExtensionInherits, Declarer
<1>3. CASE Parent(n) \notin DOMAIN file.messages
  <2>1. FileFeatures(file) = [x \in Feature |-> IF x \in DOMAIN file.options THEN file.options[x]
                                                ELSE Defaults(file.syntax)[x]]
    <3>1. DOMAIN Defaults(file.syntax) = Feature /\ ParsedFeatures(file.options)
      BY DefaultFeatures DEF NamesAndOptions
    <3> QED BY <3>1, AppliedOptions DEF FileFeatures
  <2>2. ASSUME NEW x PROVE Near(file, <<>>, x) = IF x \in DOMAIN file.options THEN file.options[x]
                                                 ELSE Defaults(file.syntax)[x]
    <3>1. <<>> \notin DOMAIN file.messages
      BY DEF NamesAndOptions, Name
    <3>2. \A k \in 0 .. Len(<<>>) : SubSeq(<<>>, 1, k) = <<>>
      OBVIOUS
    <3>3. SetAround(file, <<>>, x) = {}
      BY <3>1, <3>2 DEF SetAround, Sets
    <3> QED BY <3>3 DEF Near
  <2>3. FileFeatures(file) = [x \in Feature |-> Near(file, <<>>, x)]
    BY <2>1, <2>2
  <2> QED BY <1>3, <2>3 DEF ExtensionInherits, Declarer, Nearest
<1> QED BY <1>2, <1>3

\* A declaration that inherits what is nearest to its scope has what is nearest
\* to itself.
LEMMA AppliedIsNearest ==
  ASSUME NEW file, NEW scope, NEW own, ParsedFeatures(own), NEW x \in Feature
  PROVE  Applied(Nearest(file, scope), own)[x] = NearestSetting(file, own, scope, x)
<1>1. DOMAIN Nearest(file, scope) = Feature /\ Nearest(file, scope)[x] = Near(file, scope, x)
  BY DEF Nearest
<1>2. Applied(Nearest(file, scope), own)[x] = IF x \in DOMAIN own THEN own[x]
                                               ELSE Nearest(file, scope)[x]
  BY <1>1, AppliedOptions
<1> QED BY <1>1, <1>2, NearestIsNear

FeaturesSet(F, file) ==
  /\ F.features = FileFeatures(file)
  /\ \A n \in DOMAIN file.messages : \A f \in DOMAIN file.messages[n].fields :
       \A x \in Feature : F.messages[n].fields[f].features[x]
                            = NearestSetting(file, file.messages[n].fields[f].options, n, x)
  /\ \A n \in DOMAIN file.enums : \A x \in Feature :
       F.enums[n].features[x] = NearestSetting(file, file.enums[n].options, Parent(n), x)
  /\ \A n \in DOMAIN file.extensions : \A x \in Feature :
       F.extensions[n].field.features[x]
         = NearestSetting(file, file.extensions[n].field.options, Declarer(file, n), x)

\* The names and options of a parsed file, before and after resolving.
LEMMA FileSettings ==
  ASSUME NEW file, ParsedFile(file), NEW D, SameSettings(D, file)
  PROVE  NamesAndOptions(file) /\ NamesAndOptions(D)
<1>1. NamesAndOptions(file)
  BY DEF ParsedFile, NamesAndOptions, ParsedMessage
<1> QED BY <1>1 DEF NamesAndOptions, SameSettings

\* Inheriting from block to block gives what is set nearest.
LEMMA InheritsNearest ==
  ASSUME NEW file, ParsedFile(file), NEW D, SameSettings(D, file)
  PROVE  /\ \A n \in DOMAIN file.messages : MessageFeatures(D)[n] = Nearest(file, n)
         /\ \A n \in Name : Inherited(D, n) = Nearest(file, Parent(n))
         /\ \A n \in Name : ExtensionInherits(D, n) = Nearest(file, Declarer(file, n))
         /\ FileFeatures(D) = FileFeatures(file)
<1>1. NamesAndOptions(file) /\ NamesAndOptions(D)
  BY FileSettings
<1>2. /\ FileFeatures(D) = FileFeatures(file)
      /\ \A scope \in Seq(STRING) : Nearest(D, scope) = Nearest(file, scope)
  BY SettingsDecide
<1>3. \A n \in DOMAIN file.messages : MessageFeatures(D)[n] = Nearest(file, n)
  <2>1. MessageFeatures(D) = [m \in DOMAIN D.messages |-> Nearest(D, m)]
    BY <1>1, MessageFeaturesAre DEF NamesAndOptions
  <2>2. DOMAIN D.messages = DOMAIN file.messages /\ DOMAIN file.messages \subseteq Seq(STRING)
    BY <1>1 DEF SameSettings, NamesAndOptions, Name
  <2> QED BY <1>2, <2>1, <2>2
<1>4. ASSUME NEW n \in Name PROVE Inherited(D, n) = Nearest(file, Parent(n))
  <2>1. Parent(n) \in Seq(STRING)
    BY ParentOfName
  <2> QED BY <1>1, <1>2, <2>1, InheritedIsNear
<1>5. ASSUME NEW n \in Name PROVE ExtensionInherits(D, n) = Nearest(file, Declarer(file, n))
  <2>1. Declarer(D, n) = Declarer(file, n)
    BY DEF Declarer, SameSettings
  <2>2. Declarer(file, n) \in Seq(STRING)
    <3>1. Parent(n) \in Seq(STRING) /\ <<>> \in Seq(STRING)
      BY ParentOfName
    <3> QED BY <3>1 DEF Declarer
  <2>3. ExtensionInherits(D, n) = Nearest(D, Declarer(D, n))
    BY <1>1, ExtensionInheritsNear
  <2> QED BY <1>2, <2>1, <2>2, <2>3
<1> QED BY <1>2, <1>3, <1>4, <1>5

\* The declarations of a resolved file have the nearest settings.
LEMMA FileFeatured ==
  ASSUME NEW p, ParsedFile(files[p]), NEW D, D = WithDeclarations(p), NEW F, F = WithFeatures(D)
  PROVE  FeaturesSet(F, files[p])
<1> DEFINE file == files[p]
<1>1. DOMAIN file = FileParts
  BY DEF ParsedFile, FileParts
<1>2. DOMAIN D = FileParts
  BY <1>1, DeclaredParts
<1>3. SameSettings(D, file)
  BY FileKept
<1>4. F.features = FileFeatures(file)
  <2>1. F = WithFeatures(D)
    OBVIOUS
  <2>2. F.features = FileFeatures(D)
    BY ONLY <1>2, <2>1, FeaturedParts, Zenon
  <2> QED BY <1>3, <2>2, InheritsNearest
<1>5. ASSUME NEW n \in DOMAIN file.messages, NEW f \in DOMAIN file.messages[n].fields,
             NEW x \in Feature
      PROVE  F.messages[n].fields[f].features[x]
               = NearestSetting(file, file.messages[n].fields[f].options, n, x)
  <2> DEFINE field == file.messages[n].fields[f]
             g == ResolvedField(p, field, n)
  <2>1. ParsedField(field)
    BY DEF ParsedFile, ParsedMessage
  <2>2. KeepsField(g, field)
    BY <2>1, FieldIsResolved DEF FieldAsResolved
  <2>3. DOMAIN g = {"number", "kind", "cardinality", "oneof", "packed", "packed_explicit",
                    "explicit_presence", "default", "options", "features"}
    BY <2>1, <2>2 DEF KeepsField, ParsedField
  <2>4. F.messages[n].fields[f] = Featured(g, MessageFeatures(D)[n])
    BY FieldsResolved
  <2>5. MessageFeatures(D)[n] = Nearest(file, n)
    BY <1>3, InheritsNearest
  <2>6. F.messages[n].fields[f].features = Applied(MessageFeatures(D)[n], g.options)
    <3> HIDE DEF g
    <3> QED BY <2>3, <2>4, FieldIsFeatured DEF FieldAsFeatured
  <2>7. g.options = field.options /\ ParsedFeatures(field.options)
    BY <2>1, <2>2 DEF KeepsField, ParsedField
  <2> HIDE DEF g, field, file
  <2>8. F.messages[n].fields[f].features[x] = NearestSetting(file, field.options, n, x)
    BY <2>5, <2>6, <2>7, AppliedIsNearest
  <2> QED BY <2>8 DEF field
<1>6. ASSUME NEW n \in DOMAIN file.enums, NEW x \in Feature
      PROVE  F.enums[n].features[x] = NearestSetting(file, file.enums[n].options, Parent(n), x)
  <2> DEFINE options == file.enums[n].options
  <2>1. n \in Name /\ ParsedFeatures(options)
    BY DEF ParsedFile, ParsedEnum
  <2>2. F.enums[n].features = Applied(Inherited(D, n), options)
    BY OthersKept
  <2>3. Inherited(D, n) = Nearest(file, Parent(n))
    BY <1>3, <2>1, InheritsNearest
  <2> HIDE DEF options
  <2>4. F.enums[n].features[x] = NearestSetting(file, options, Parent(n), x)
    BY <2>1, <2>2, <2>3, AppliedIsNearest
  <2> QED BY <2>4 DEF options
<1>7. ASSUME NEW n \in DOMAIN file.extensions, NEW x \in Feature
      PROVE  F.extensions[n].field.features[x]
               = NearestSetting(file, file.extensions[n].field.options, Declarer(file, n), x)
  <2> DEFINE options == file.extensions[n].field.options
  <2>1. n \in Name /\ ParsedFeatures(options)
    BY DEF ParsedFile, ParsedExtension, ParsedField
  <2>2. F.extensions[n].field.features = Applied(ExtensionInherits(D, n), options)
    BY ExtensionsKept
  <2>3. ExtensionInherits(D, n) = Nearest(file, Declarer(file, n))
    BY <1>3, <2>1, InheritsNearest
  <2> HIDE DEF options
  <2>4. F.extensions[n].field.features[x] = NearestSetting(file, options, Declarer(file, n), x)
    BY <2>1, <2>2, <2>3, AppliedIsNearest
  <2> QED BY <2>4 DEF options
<1> QED BY <1>4, <1>5, <1>6, <1>7 DEF FeaturesSet
-----------------------------------------------------------------------------
(* What a file sees.                                                       *)

Seen(p, sort) == UNION {DOMAIN registry.files[q][sort] : q \in registry.sees[p]}

\* Resolving has kept every file.
Kept == \A p \in Path : Keeps(files[p], registry.files[p])

\* The names that a file may use are those of the files it sees, resolved or not.
LEMMA VisibleIsSeen ==
  ASSUME Loaded(registry), Kept, NEW p \in Path, NEW sort \in Sorts
  PROVE  /\ Visible(p, sort) = Seen(p, sort)
         /\ \A n \in Seen(p, sort) : \E q \in registry.sees[p] :
              /\ q \in Path /\ n \in DOMAIN registry.files[q][sort]
              /\ Lookup(p, sort, n) = files[q][sort][n]
<1>1. registry.sees[p] \subseteq Path
  BY DEF Loaded, Path
<1>2. \A q \in registry.sees[p] : DOMAIN files[q][sort] = DOMAIN registry.files[q][sort]
  BY <1>1 DEF Kept, Keeps, KeepsNames
<1>3. Visible(p, sort) = Seen(p, sort)
  BY <1>2 DEF Visible, Seen
<1>4. ASSUME NEW n \in Seen(p, sort)
      PROVE  \E q \in registry.sees[p] :
               /\ q \in Path /\ n \in DOMAIN registry.files[q][sort]
               /\ Lookup(p, sort, n) = files[q][sort][n]
  <2> DEFINE q == CHOOSE q \in registry.sees[p] : n \in DOMAIN files[q][sort]
  <2>1. \E r \in registry.sees[p] : n \in DOMAIN files[r][sort]
    BY <1>2 DEF Seen
  <2>2. q \in registry.sees[p] /\ n \in DOMAIN files[q][sort]
    BY <2>1
  <2>3. Lookup(p, sort, n) = files[q][sort][n]
    BY DEF Lookup
  <2> HIDE DEF q
  <2> QED BY <1>1, <1>2, <2>2, <2>3
<1> QED BY <1>3, <1>4

Bound(kind, scope, final, p) ==
  IsBound(kind, scope, final, Seen(p, "messages"), Seen(p, "enums"))

\* ResolvedIsBound, in a file of the registry.
LEMMA ResolvedIsBoundIn ==
  ASSUME Loaded(registry), Kept, NEW p \in Path, NEW kind \in ParsedKind,
         NEW scope \in Seq(STRING), ~UnknownIn(p, kind, scope)
  PROVE  Bound(kind, scope, ResolvedIn(p, kind, scope), p)
<1>1. Visible(p, "messages") = Seen(p, "messages") /\ Visible(p, "enums") = Seen(p, "enums")
  BY VisibleIsSeen DEF Sorts
<1>2. ~Unknown(kind, scope, Seen(p, "messages"), Seen(p, "enums"))
  BY <1>1 DEF UnknownIn
<1>3. ResolvedIn(p, kind, scope) = Resolved(kind, scope, Seen(p, "messages"), Seen(p, "enums"))
  BY <1>1 DEF ResolvedIn
<1> QED BY <1>2, <1>3, ResolvedIsBound DEF Bound

\* A bound name is one that the file sees.
LEMMA BoundIsSeen ==
  ASSUME NEW kind \in ParsedKind, NEW scope, NEW final, NEW p, Bound(kind, scope, final, p)
  PROVE  /\ final.of = "enum" => final.name \in Seen(p, "enums")
         /\ kind.of = "message" /\ final.of = "message" => final.name \in Seen(p, "messages")
<1>1. kind.of # "enum"
  BY DEF ParsedKind
<1>2. CASE kind.of # "message"
  BY <1>1, <1>2 DEF Bound, IsBound
<1>3. CASE kind.of = "message"
  <2>1. \/ final.of = "message" /\ final.name \in Seen(p, "messages")
        \/ final.of = "enum" /\ final.name \in Seen(p, "enums")
    BY <1>3 DEF Bound, IsBound, InnermostIn
  <2> QED BY <2>1
<1> QED BY <1>2, <1>3

-----------------------------------------------------------------------------
(* What the checks of a file leave.                                        *)

\* A file without defects has none of each kind.
LEMMA NoDefects ==
  ASSUME NEW p, DeclarationDefects(p) = {}
  PROVE  /\ \A n \in DOMAIN files[p].messages : \A f \in DOMAIN files[p].messages[n].fields :
              FieldDefects(p, files[p].messages[n].fields[f], n) = {}
         /\ ExtensionDefects(p) = {} /\ EndpointDefects(p) = {} /\ ~SameNumbers(p)
<1> DEFINE defects == MessageDefects(p) \cup OptionDefects(p) \cup ExtensionDefects(p)
                        \cup EndpointDefects(p)
<1>1. DeclarationDefects(p) = IF defects = {} /\ SameNumbers(p) THEN {"number"} ELSE defects
  BY DEF DeclarationDefects
<1> HIDE DEF defects
<1>2. defects = {} /\ ~SameNumbers(p)
  BY <1>1
<1>3. MessageDefects(p) = {} /\ ExtensionDefects(p) = {} /\ EndpointDefects(p) = {}
  BY <1>2 DEF defects
<1>4. ASSUME NEW n \in DOMAIN files[p].messages, NEW f \in DOMAIN files[p].messages[n].fields
      PROVE  FieldDefects(p, files[p].messages[n].fields[f], n) = {}
  BY <1>3 DEF MessageDefects
<1> QED BY <1>2, <1>3, <1>4

\* What a field without defects has right.
LEMMA NoFieldDefects ==
  ASSUME NEW p, NEW field, NEW scope, FieldDefects(p, field, scope) = {}, NEW kind,
         kind = ResolvedIn(p, field.kind, scope)
  PROVE  /\ ~UnknownIn(p, field.kind, scope)
         /\ ~(Modern(files[p].syntax) /\ Proto2Enum(p, kind))
         /\ field.default => ~kind.map /\ kind.of # "message"
<1>1. ~UnknownIn(p, field.kind, scope)
  BY DEF FieldDefects
<1> DEFINE proto2 == Modern(files[p].syntax) /\ Proto2Enum(p, kind)
           packed == field.packed_explicit /\ field.packed = TRUE /\ ~Packable(kind)
           default == field.default /\ (kind.map \/ kind.of = "message")
<1>2. {why \in {"proto2 enum", "packed", "default"} :
         \/ why = "proto2 enum" /\ proto2
         \/ why = "packed" /\ packed
         \/ why = "default" /\ default} = {}
  BY <1>1 DEF FieldDefects
<1> HIDE DEF proto2, packed, default
<1>3. ~proto2 /\ ~default
  BY <1>2
<1> QED BY <1>1, <1>3 DEF proto2, default

-----------------------------------------------------------------------------
(* The fields of a resolved file fit the codec.                            *)

\* The nearest setting of a feature is one of its values.
LEMMA NearIsValue ==
  ASSUME NEW file, file.syntax \in Syntax, ~Misapplied(file.options, "file", file.syntax),
         \A n \in DOMAIN file.messages :
           ~Misapplied(file.messages[n].options, "message", file.syntax),
         NEW scope \in Seq(STRING), NEW own, ~Misapplied(own, "field", file.syntax),
         NEW x \in Feature
  PROVE  NearestSetting(file, own, scope, x) \in FeatureValues[x]
<1>1. x \in DOMAIN own => own[x] \in FeatureValues[x]
  BY DEF Misapplied
<1>2. Defaults(file.syntax)[x] \in FeatureValues[x]
  BY DEF Defaults, FeatureValues, Feature
<1>3. x \in DOMAIN file.options => file.options[x] \in FeatureValues[x]
  BY DEF Misapplied
<1>4. \A m : Sets(file, m, x) => file.messages[m].options[x] \in FeatureValues[x]
  BY DEF Misapplied, Sets
<1>5. ASSUME SetAround(file, scope, x) # {}
      PROVE  Sets(file, SubSeq(scope, 1, Max(SetAround(file, scope, x))), x)
  <2> DEFINE S == SetAround(file, scope, x)
  <2>1. Len(scope) \in Nat /\ S \in SUBSET (0 .. Len(scope)) /\ S # {}
    BY <1>5 DEF SetAround
  <2> HIDE DEF S
  <2>2. Max(S) \in S
    BY <2>1, Longest
  <2> QED BY <2>2 DEF SetAround, S
<1>6. Near(file, scope, x) \in FeatureValues[x]
  BY <1>2, <1>3, <1>4, <1>5 DEF Near
<1> QED BY <1>1, <1>6, NearestIsNear

\* The field that resolving makes of a parsed one that it does not refuse.
LEMMA FieldFits ==
  ASSUME NEW p, NEW field, ParsedField(field), NEW scope, FieldDefects(p, field, scope) = {},
         NEW g, g = ResolvedField(p, field, scope), NEW inherited, ~FieldMisuse(g, inherited),
         NEW h, h = Featured(g, inherited),
         \A x \in Feature : h.features[x] \in FeatureValues[x]
  PROVE  FitForCodec(h)
<1>1. /\ field.cardinality \in {"optional", "required", "repeated"}
      /\ field.packed_explicit \in BOOLEAN /\ field.explicit_presence \in BOOLEAN
      /\ field.default \in BOOLEAN /\ field.packed \in BOOLEAN \cup {None}
      /\ (field.packed_explicit => field.packed \in BOOLEAN)
      /\ (field.cardinality # "repeated" => field.packed = None)
      /\ (field.default => field.cardinality # "repeated")
      /\ (field.oneof # None => field.explicit_presence /\ field.cardinality = "optional")
  BY DEF ParsedField
<1>2. /\ KeepsField(g, field)
      /\ g.kind = ResolvedIn(p, field.kind, scope)
      /\ g.explicit_presence = (field.explicit_presence \/ IsMessage(g.kind))
      /\ g.packed = IF field.cardinality = "repeated" /\ ~Packable(g.kind) THEN FALSE
                    ELSE field.packed
  <2>1. FieldAsResolved(p, field, scope, g)
    BY FieldIsResolved
  <2> QED BY ONLY <2>1 DEF FieldAsResolved
<1>3. DOMAIN g = {"number", "kind", "cardinality", "oneof", "packed", "packed_explicit",
                  "explicit_presence", "default", "options", "features"}
  BY <1>2 DEF KeepsField, ParsedField
<1>4. /\ KeepsField(h, g) /\ h.kind = g.kind
      /\ h.features = Applied(inherited, g.options)
      /\ h.explicit_presence = \/ g.explicit_presence \/ g.oneof # None
                               \/ IsMessage(g.kind)
                               \/ h.features.field_presence # "IMPLICIT"
      /\ h.packed = IF g.cardinality = "repeated" /\ ~g.packed_explicit /\ Packable(g.kind)
                    THEN h.features.repeated_field_encoding = "PACKED" ELSE g.packed
  <2>1. FieldAsFeatured(g, inherited, h)
    BY <1>3, FieldIsFeatured
  <2> QED BY ONLY <2>1 DEF FieldAsFeatured
<1>5. /\ h.cardinality = field.cardinality /\ h.oneof = field.oneof /\ h.default = field.default
      /\ g.cardinality = field.cardinality /\ g.oneof = field.oneof /\ g.default = field.default
      /\ g.packed_explicit = field.packed_explicit
  BY <1>2, <1>4 DEF KeepsField
<1>6. field.default => ~g.kind.map /\ g.kind.of # "message"
  BY <1>2, NoFieldDefects
<1>7. field.default => h.features.field_presence # "IMPLICIT"
  BY <1>4, <1>5 DEF FieldMisuse
<1>8. None \notin BOOLEAN
  BY SchemaAssumption
<1> DEFINE presence == h.features.field_presence # "IMPLICIT"
           packed == h.features.repeated_field_encoding = "PACKED"
           message == IsMessage(g.kind)
           packable == Packable(g.kind)
<1>9. /\ IsMessage(h.kind) = message /\ Packable(h.kind) = packable
      /\ message \in BOOLEAN /\ packable \in BOOLEAN /\ packed \in BOOLEAN /\ presence \in BOOLEAN
  BY <1>4 DEF IsMessage, Packable
<1>10. ~message <=> g.kind.map \/ g.kind.of # "message"
  BY DEF IsMessage
<1>11. h.explicit_presence = (\/ (field.explicit_presence \/ message) \/ field.oneof # None
                              \/ message \/ presence)
  BY <1>2, <1>4, <1>5
<1>12. h.packed = IF field.cardinality = "repeated" /\ ~field.packed_explicit /\ packable
                  THEN packed
                  ELSE IF field.cardinality = "repeated" /\ ~packable THEN FALSE ELSE field.packed
  BY <1>2, <1>4, <1>5
<1>13. /\ IsMessage(h.kind) => h.explicit_presence
       /\ h.oneof # None => h.explicit_presence /\ h.cardinality = "optional"
       /\ ~h.explicit_presence => h.features.field_presence = "IMPLICIT"
  <2> HIDE DEF message, packed
  <2> QED BY <1>1, <1>5, <1>9, <1>11
<1>14. h.default => h.explicit_presence /\ h.cardinality # "repeated" /\ ~IsMessage(h.kind)
  <2>1. field.default => presence
    BY <1>7
  <2>2. field.default => ~message
    BY <1>6, <1>10
  <2> HIDE DEF presence, message
  <2> QED BY <1>1, <1>5, <1>9, <1>11, <2>1, <2>2
<1>15. /\ h.cardinality = "repeated" => h.packed \in BOOLEAN
       /\ h.packed = TRUE => h.cardinality = "repeated" /\ Packable(h.kind)
  <2> HIDE DEF packed, packable
  <2>1. CASE field.cardinality = "repeated"
    <3>1. CASE packable
      <4>1. CASE field.packed_explicit
        BY <1>1, <1>5, <1>9, <1>12, <2>1, <3>1, <4>1
      <4>2. CASE ~field.packed_explicit
        BY <1>1, <1>5, <1>9, <1>12, <2>1, <3>1, <4>2
      <4> QED BY <4>1, <4>2
    <3>2. CASE ~packable
      BY <1>1, <1>5, <1>9, <1>12, <2>1, <3>2
    <3> QED BY <3>1, <3>2
  <2>2. CASE field.cardinality # "repeated"
    <3>1. h.packed = None
      BY <1>1, <1>12, <2>2
    <3>2. h.packed # TRUE
      BY <1>8, <3>1
    <3> QED BY <1>5, <2>2, <3>2
  <2> QED BY <2>1, <2>2
<1> QED BY <1>13, <1>14, <1>15 DEF FitForCodec
-----------------------------------------------------------------------------
(* What linking has established of a file that it resolved to F.           *)

FieldsBound(p, F) ==
  \A n \in DOMAIN registry.files[p].messages :
    \A f \in DOMAIN registry.files[p].messages[n].fields :
      Bound(registry.files[p].messages[n].fields[f].kind, n, F.messages[n].fields[f].kind, p)

EndpointsBound(p, F) ==
  \A n \in DOMAIN registry.files[p].services : \A kind \in registry.files[p].services[n] :
    \E final \in F.services[n] : final.of = "message" /\ Bound(kind, n, final, p)

MessageKind(name) == [of |-> "message", name |-> name, absolute |-> FALSE, map |-> FALSE]

\* An extension has a number that its message takes.
ExtensionsBound(p, F) ==
  \A n \in DOMAIN registry.files[p].extensions :
    /\ F.extensions[n].extendee = MessageKind(F.extensions[n].extendee.name)
    /\ \E q \in registry.sees[p] :
         /\ F.extensions[n].extendee.name \in DOMAIN registry.files[q].messages
         /\ TakesNumber(registry.files[q].messages[F.extensions[n].extendee.name],
                        F.extensions[n].field.number)

NumbersApart(p, F) ==
  \A m, n \in DOMAIN registry.files[p].extensions :
    /\ F.extensions[m].extendee.name = F.extensions[n].extendee.name
    /\ F.extensions[m].field.number = F.extensions[n].field.number
    => m = n

EnumsModern(p, F) ==
  Modern(registry.files[p].syntax) =>
    \A n \in DOMAIN registry.files[p].messages :
      \A f \in DOMAIN registry.files[p].messages[n].fields :
        F.messages[n].fields[f].kind.of = "enum" =>
          \E q \in registry.sees[p] :
            /\ F.messages[n].fields[f].kind.name \in DOMAIN registry.files[q].enums
            /\ Modern(registry.files[q].enums[F.messages[n].fields[f].kind.name].syntax)

FieldsFit(p, F) ==
  \A n \in DOMAIN registry.files[p].messages :
    \A f \in DOMAIN registry.files[p].messages[n].fields : FitForCodec(F.messages[n].fields[f])

LinkedAs(p, F) ==
  /\ FieldsBound(p, F) /\ EndpointsBound(p, F) /\ ExtensionsBound(p, F) /\ NumbersApart(p, F)
  /\ EnumsModern(p, F) /\ FieldsFit(p, F) /\ FeaturesSet(F, registry.files[p])

Linked(p) == LinkedAs(p, files[p])

\* The file that ResolveFile makes of p.
Linking(p, F) ==
  /\ Loaded(registry) /\ Kept /\ p \in Path /\ files[p] = registry.files[p]
  /\ DeclarationDefects(p) = {} /\ ~FeatureMisuse(WithDeclarations(p))
  /\ F = WithFeatures(WithDeclarations(p))

\* A file that is being resolved is as parse_file returned it.
LEMMA LinkingParsed ==
  ASSUME NEW p, NEW F, Linking(p, F)
  PROVE  /\ ParsedFile(files[p])
         /\ \A n \in DOMAIN files[p].messages : n \in Name /\ n \in Seq(STRING)
BY DEF Linking, Loaded, Path, ParsedFile, Name

FieldLinked(p, field, final, n) ==
  /\ ParsedField(field) /\ FieldDefects(p, field, n) = {}
  /\ final = Featured(ResolvedField(p, field, n), MessageFeatures(WithDeclarations(p))[n])
  /\ final.kind = ResolvedIn(p, field.kind, n)
  /\ Bound(field.kind, n, final.kind, p)

\* Resolving a file binds a field of it.
LEMMA FieldBound ==
  ASSUME NEW p, NEW F, Linking(p, F), NEW n \in DOMAIN files[p].messages,
         NEW f \in DOMAIN files[p].messages[n].fields
  PROVE  FieldLinked(p, files[p].messages[n].fields[f], F.messages[n].fields[f], n)
<1> DEFINE D == WithDeclarations(p)
           field == files[p].messages[n].fields[f]
           final == F.messages[n].fields[f]
           g == ResolvedField(p, field, n)
<1>1. ParsedFile(files[p]) /\ n \in Seq(STRING) /\ F = WithFeatures(D)
  BY LinkingParsed DEF Linking
<1>2. ParsedField(field)
  BY <1>1 DEF ParsedFile, ParsedMessage
<1>3. FieldDefects(p, field, n) = {}
  BY NoDefects DEF Linking
<1>4. final = Featured(g, MessageFeatures(D)[n])
  <2> HIDE DEF D
  <2>1. D = WithDeclarations(p)
    BY DEF D
  <2> QED BY <1>1, <2>1, FieldsResolved
<1>5. KeepsField(g, field) /\ g.kind = ResolvedIn(p, field.kind, n)
  <2>1. FieldAsResolved(p, field, n, g)
    <3> HIDE DEF field
    <3> QED BY <1>2, FieldIsResolved
  <2> HIDE DEF field, g
  <2> QED BY <2>1 DEF FieldAsResolved
<1>6. DOMAIN g = {"number", "kind", "cardinality", "oneof", "packed", "packed_explicit",
                  "explicit_presence", "default", "options", "features"}
  BY <1>2, <1>5 DEF KeepsField, ParsedField
<1>7. final.kind = g.kind
  <2> DEFINE inherited == MessageFeatures(D)[n]
  <2> HIDE DEF g, D, final, inherited
  <2>1. final = Featured(g, inherited)
    BY <1>4 DEF inherited
  <2>2. FieldAsFeatured(g, inherited, final)
    BY <1>6, <2>1, FieldIsFeatured
  <2> QED BY <2>2 DEF FieldAsFeatured
<1>8. field.kind \in ParsedKind /\ ~UnknownIn(p, field.kind, n)
  <2>1. ~UnknownIn(p, field.kind, n)
    <3> HIDE DEF field
    <3> QED BY <1>3, NoFieldDefects
  <2> QED BY <1>2, <2>1 DEF ParsedField
<1>9. Bound(field.kind, n, ResolvedIn(p, field.kind, n), p)
  <2> HIDE DEF field
  <2> QED BY <1>1, <1>8, ResolvedIsBoundIn DEF Linking
<1> QED BY <1>2, <1>3, <1>4, <1>5, <1>7, <1>9 DEF FieldLinked

\* Resolving a file binds its fields.
LEMMA FieldsAreBound ==
  ASSUME NEW p, NEW F, Linking(p, F)
  PROVE  FieldsBound(p, F)
BY FieldBound DEF FieldLinked, FieldsBound, Linking

\* A modern file has no field of an enum of a proto2 file.
LEMMA EnumsAreModern ==
  ASSUME NEW p, NEW F, Linking(p, F)
  PROVE  EnumsModern(p, F)
<1> SUFFICES ASSUME Modern(registry.files[p].syntax),
                    NEW n \in DOMAIN files[p].messages,
                    NEW f \in DOMAIN files[p].messages[n].fields,
                    F.messages[n].fields[f].kind.of = "enum"
             PROVE  \E q \in registry.sees[p] :
                      /\ F.messages[n].fields[f].kind.name \in DOMAIN registry.files[q].enums
                      /\ Modern(registry.files[q].enums[F.messages[n].fields[f].kind.name].syntax)
  BY DEF EnumsModern, Linking
<1> DEFINE field == files[p].messages[n].fields[f]
           kind == F.messages[n].fields[f].kind
<1>1. /\ ParsedField(field) /\ FieldDefects(p, field, n) = {}
      /\ kind = ResolvedIn(p, field.kind, n) /\ Bound(field.kind, n, kind, p)
  <2>1. FieldLinked(p, field, F.messages[n].fields[f], n)
    BY FieldBound
  <2> HIDE DEF field
  <2> QED BY <2>1 DEF FieldLinked
<1>2. files[p] = registry.files[p] /\ p \in Path /\ Loaded(registry) /\ Kept /\ kind.of = "enum"
  BY DEF Linking
<1> HIDE DEF field, kind
<1>3. kind.name \in Seen(p, "enums")
  <2>1. field.kind \in ParsedKind
    BY <1>1 DEF ParsedField
  <2> QED BY <1>1, <1>2, <2>1, BoundIsSeen
<1>4. PICK q \in registry.sees[p] :
        /\ q \in Path /\ kind.name \in DOMAIN registry.files[q].enums
        /\ Lookup(p, "enums", kind.name) = files[q].enums[kind.name]
  BY <1>2, <1>3, VisibleIsSeen DEF Sorts
<1>5. files[q].enums[kind.name].syntax = registry.files[q].enums[kind.name].syntax
  BY <1>2, <1>4 DEF Kept, Keeps, KeepsEnum
<1>6. ~(Modern(files[p].syntax) /\ Proto2Enum(p, kind))
  BY <1>1, NoFieldDefects
<1>7. registry.files[q].enums[kind.name].syntax # "proto2"
  BY <1>2, <1>4, <1>5, <1>6 DEF Proto2Enum
<1> QED BY <1>4, <1>7 DEF Modern, kind

\* The features that a file and its messages and fields set are ones they may set.
InOrder(p, file, D) ==
  /\ ~Misapplied(file.options, "file", file.syntax)
  /\ \A n \in DOMAIN file.messages :
       /\ ~Misapplied(file.messages[n].options, "message", file.syntax)
       /\ \A f \in DOMAIN file.messages[n].fields :
            /\ ~Misapplied(file.messages[n].fields[f].options, "field", file.syntax)
            /\ ~FieldMisuse(ResolvedField(p, file.messages[n].fields[f], n),
                            MessageFeatures(D)[n])

\* Resolving a file sets its features from the nearest options.
LEMMA FeaturesInOrder ==
  ASSUME NEW p, NEW F, Linking(p, F)
  PROVE  InOrder(p, files[p], WithDeclarations(p))
<1> DEFINE file == files[p]
           D == WithDeclarations(p)
<1>1. ParsedFile(file) /\ F = WithFeatures(D) /\ ~FeatureMisuse(D)
  BY LinkingParsed DEF Linking
<1>2. DOMAIN file = FileParts
  BY <1>1 DEF ParsedFile, FileParts
<1>3. D.syntax = file.syntax /\ D.options = file.options
  BY <1>2, DeclaredParts
<1>4. /\ DOMAIN D.messages = DOMAIN file.messages
      /\ \A n \in DOMAIN file.messages :
              /\ D.messages[n].options = file.messages[n].options
              /\ DOMAIN D.messages[n].fields = DOMAIN file.messages[n].fields
  <2> HIDE DEF D
  <2>1. D = WithDeclarations(p)
    BY DEF D
  <2> QED BY <1>1, <2>1, MessagesKept
<1>5. \A n \in DOMAIN file.messages : \A f \in DOMAIN file.messages[n].fields :
        /\ D.messages[n].fields[f] = ResolvedField(p, file.messages[n].fields[f], n)
        /\ D.messages[n].fields[f].options = file.messages[n].fields[f].options
  <2> SUFFICES ASSUME NEW n \in DOMAIN file.messages, NEW f \in DOMAIN file.messages[n].fields
               PROVE  /\ D.messages[n].fields[f] = ResolvedField(p, file.messages[n].fields[f], n)
                      /\ D.messages[n].fields[f].options = file.messages[n].fields[f].options
    OBVIOUS
  <2> DEFINE field == file.messages[n].fields[f]
             g == ResolvedField(p, field, n)
  <2>1. D.messages[n].fields[f] = g
    <3> HIDE DEF D
    <3>1. D = WithDeclarations(p)
      BY DEF D
    <3> QED BY <1>1, <3>1, FieldsResolved
  <2>2. ParsedField(field)
    BY <1>1 DEF ParsedFile, ParsedMessage
  <2>3. g.options = field.options
    <3>1. FieldAsResolved(p, field, n, g)
      <4> HIDE DEF field
      <4> QED BY <2>2, FieldIsResolved
    <3> HIDE DEF field, g
    <3> QED BY <3>1 DEF FieldAsResolved, KeepsField
  <2> QED BY <2>1, <2>3
<1> HIDE DEF D
<1>6. /\ ~Misapplied(D.options, "file", D.syntax)
      /\ \A n \in DOMAIN D.messages :
           /\ ~Misapplied(D.messages[n].options, "message", D.syntax)
           /\ \A f \in DOMAIN D.messages[n].fields :
                /\ ~Misapplied(D.messages[n].fields[f].options, "field", D.syntax)
                /\ ~FieldMisuse(D.messages[n].fields[f], MessageFeatures(D)[n])
  BY <1>1 DEF FeatureMisuse
<1> HIDE DEF file
<1>7. InOrder(p, file, D)
  BY <1>3, <1>4, <1>5, <1>6 DEF InOrder
<1> QED BY <1>7 DEF file, D

\* Resolving a file leaves its fields fit for the codec.
LEMMA FieldsDoFit ==
  ASSUME NEW p, NEW F, Linking(p, F)
  PROVE  FieldsFit(p, F)
<1> SUFFICES ASSUME NEW n \in DOMAIN files[p].messages,
                    NEW f \in DOMAIN files[p].messages[n].fields
             PROVE  FitForCodec(F.messages[n].fields[f])
  BY DEF FieldsFit, Linking
<1> DEFINE file == files[p]
           D == WithDeclarations(p)
           field == file.messages[n].fields[f]
           g == ResolvedField(p, field, n)
           h == F.messages[n].fields[f]
           inherited == MessageFeatures(D)[n]
<1>1. ParsedField(field) /\ FieldDefects(p, field, n) = {} /\ h = Featured(g, inherited)
  BY FieldBound DEF FieldLinked
<1>2. /\ ~FieldMisuse(g, inherited) /\ ~Misapplied(file.options, "file", file.syntax)
      /\ \A m \in DOMAIN file.messages : ~Misapplied(file.messages[m].options, "message", file.syntax)
      /\ ~Misapplied(field.options, "field", file.syntax)
  BY FeaturesInOrder DEF InOrder
<1>3. ParsedFile(file) /\ n \in Seq(STRING) /\ file.syntax \in Syntax /\ F = WithFeatures(D)
  BY LinkingParsed DEF ParsedFile, Linking
<1>4. \A x \in Feature : h.features[x] = NearestSetting(file, field.options, n, x)
  <2>1. FeaturesSet(F, file)
    BY <1>3, FileFeatured
  <2> QED BY <2>1 DEF FeaturesSet
<1> HIDE DEF file, D, field, g, h, inherited
<1>5. \A x \in Feature : h.features[x] \in FeatureValues[x]
  <2> SUFFICES ASSUME NEW x \in Feature PROVE h.features[x] \in FeatureValues[x]
    OBVIOUS
  <2> QED BY <1>2, <1>3, <1>4, NearIsValue
<1>6. g = ResolvedField(p, field, n)
  BY DEF g
<1>7. FitForCodec(h)
  BY <1>1, <1>2, <1>5, <1>6, FieldFits
<1> QED BY <1>7 DEF h
\* A reference to a message resolves to a message and nothing more.
LEMMA ResolvedMessageKind ==
  ASSUME NEW p, NEW kind, NamedKind(kind), NEW scope, ResolvedIn(p, kind, scope).of = "message"
  PROVE  ResolvedIn(p, kind, scope) = MessageKind(ResolvedIn(p, kind, scope).name)
<1> DEFINE messages == Visible(p, "messages")
           enums == Visible(p, "enums")
           final == ResolvedIn(p, kind, scope)
<1>1. kind \in ParsedKind /\ kind.of = "message" /\ kind.map = FALSE
  BY DEF NamedKind, ParsedKind
<1>2. final = Resolved(kind, scope, messages, enums)
  BY DEF ResolvedIn
<1> HIDE DEF messages, enums, final
<1>3. ASSUME NEW of, NEW S, final = Named(kind, of, scope, S)
      PROVE  final = [of |-> of, name |-> final.name, absolute |-> FALSE, map |-> FALSE]
  <2> DEFINE name == Candidates(kind, scope)[Min(Matches(kind, scope, S))]
  <2>1. final = [kind EXCEPT !.of = of, !.absolute = FALSE, !.name = name]
    BY <1>3 DEF Named
  <2> HIDE DEF name
  <2>2. final = [of |-> of, name |-> name, absolute |-> FALSE, map |-> FALSE]
    BY <1>1, <2>1 DEF ParsedKind
  <2> QED BY <2>2
<1>4. CASE Matches(kind, scope, messages) # {}
  BY <1>1, <1>2, <1>3, <1>4 DEF Resolved, MessageKind, final
<1>5. CASE Matches(kind, scope, messages) = {}
  <2>1. final = Named(kind, "enum", scope, enums)
    BY <1>1, <1>2, <1>5 DEF Resolved
  <2>2. final.of = "enum"
    BY <1>3, <2>1
  <2> QED BY <2>2 DEF final
<1> QED BY <1>4, <1>5

ExtensionLinked(p, n) ==
  /\ Extendee(p, n) = MessageKind(Extendee(p, n).name)
  /\ \E q \in registry.sees[p] :
       /\ Extendee(p, n).name \in DOMAIN registry.files[q].messages
       /\ TakesNumber(registry.files[q].messages[Extendee(p, n).name],
                      files[p].extensions[n].field.number)

\* Resolving a file binds an extension of it.
LEMMA ExtensionBound ==
  ASSUME NEW p, NEW F, Linking(p, F), NEW n \in DOMAIN files[p].extensions
  PROVE  ExtensionLinked(p, n)
<1> DEFINE extension == files[p].extensions[n]
           target == Extendee(p, n)
           scope == Parent(n)
           number == extension.field.number
<1>1. ParsedFile(files[p]) /\ Loaded(registry) /\ Kept /\ p \in Path
  BY LinkingParsed DEF Linking
<1>2. NamedKind(extension.extendee) /\ scope \in Seq(STRING)
  BY <1>1, ParentOfName DEF ParsedFile, ParsedExtension
<1>3. extension.extendee \in ParsedKind /\ extension.extendee.of = "message"
  BY <1>2 DEF NamedKind
<1>4. target = ResolvedIn(p, extension.extendee, scope)
  BY DEF Extendee
<1>5. /\ ~UnknownIn(p, extension.extendee, scope)
      /\ target.of # "enum"
      /\ ~(target.of = "message" /\ ~TakesNumber(Lookup(p, "messages", target.name), number))
  <2> DEFINE enum == target.of = "enum"
             taken == target.of = "message"
                        /\ ~TakesNumber(Lookup(p, "messages", target.name), number)
             unknown == UnknownIn(p, extension.field.kind, Parent(n))
             defects == {why \in {"extendee", "number", "unknown type"} :
                           \/ why = "extendee" /\ enum
                           \/ why = "number" /\ taken
                           \/ why = "unknown type" /\ unknown}
  <2>1. (IF UnknownIn(p, extension.extendee, scope) THEN {"unknown type"} ELSE defects) = {}
    <3>1. ExtensionDefects(p) = {}
      BY NoDefects DEF Linking
    <3> QED BY <3>1 DEF ExtensionDefects
  <2> HIDE DEF enum, taken, unknown
  <2>2. ~UnknownIn(p, extension.extendee, scope) /\ ~enum /\ ~taken
    BY <2>1
  <2> QED BY <2>2 DEF enum, taken
<1> HIDE DEF extension, target, scope, number
<1>6. Bound(extension.extendee, scope, target, p)
  BY <1>1, <1>2, <1>3, <1>4, <1>5, ResolvedIsBoundIn
<1>7. target.of = "message"
  BY <1>3, <1>5, <1>6 DEF Bound, IsBound
<1>8. target = MessageKind(target.name)
  BY <1>2, <1>4, <1>7, ResolvedMessageKind
<1>9. target.name \in Seen(p, "messages")
  BY <1>3, <1>6, <1>7, BoundIsSeen
<1>10. PICK q \in registry.sees[p] :
         /\ q \in Path /\ target.name \in DOMAIN registry.files[q].messages
         /\ Lookup(p, "messages", target.name) = files[q].messages[target.name]
  BY <1>1, <1>9, VisibleIsSeen DEF Sorts
<1>11. KeepsMessage(files[q].messages[target.name], registry.files[q].messages[target.name])
  BY <1>1, <1>10 DEF Kept, Keeps
<1>12. TakesNumber(files[q].messages[target.name], number)
  BY <1>5, <1>7, <1>10
<1>13. TakesNumber(registry.files[q].messages[target.name], number)
  BY <1>11, <1>12 DEF TakesNumber, KeepsMessage, KeepsField
<1> QED BY <1>8, <1>10, <1>13 DEF ExtensionLinked, target, number, extension

\* Resolving a file binds its extensions and keeps their numbers apart.
LEMMA ExtensionsAreBound ==
  ASSUME NEW p, NEW F, Linking(p, F)
  PROVE  ExtensionsBound(p, F) /\ NumbersApart(p, F)
<1>1. ParsedFile(files[p]) /\ F = WithFeatures(WithDeclarations(p)) /\ files[p] = registry.files[p]
  BY LinkingParsed DEF Linking
<1>2. \A n \in DOMAIN files[p].extensions :
        /\ KeepsExtension(F.extensions[n], files[p].extensions[n])
        /\ F.extensions[n].extendee = Extendee(p, n)
  <2> DEFINE D == WithDeclarations(p)
  <2>1. D = WithDeclarations(p) /\ F = WithFeatures(D)
    BY <1>1
  <2> HIDE DEF D
  <2> QED BY <1>1, <2>1, ExtensionsKept
<1>3. \A n \in DOMAIN files[p].extensions :
        F.extensions[n].field.number = files[p].extensions[n].field.number
  BY <1>2 DEF KeepsExtension, KeepsField
<1>4. \A n \in DOMAIN files[p].extensions : ExtensionLinked(p, n)
  BY ExtensionBound
<1>5. ExtensionsBound(p, F)
  BY <1>1, <1>2, <1>3, <1>4 DEF ExtensionsBound, ExtensionLinked
<1>6. ~SameNumbers(p)
  BY NoDefects DEF Linking
<1>7. NumbersApart(p, F)
  BY <1>1, <1>2, <1>3, <1>6 DEF NumbersApart, SameNumbers
<1> QED BY <1>5, <1>7

\* Resolving a file binds the endpoints of its services.
LEMMA EndpointsAreBound ==
  ASSUME NEW p, NEW F, Linking(p, F)
  PROVE  EndpointsBound(p, F)
<1>1. ParsedFile(files[p]) /\ F = WithFeatures(WithDeclarations(p)) /\ files[p] = registry.files[p]
      /\ Loaded(registry) /\ Kept /\ p \in Path
  BY LinkingParsed DEF Linking
<1>2. SUFFICES ASSUME NEW n \in DOMAIN files[p].services, NEW kind \in files[p].services[n]
               PROVE  \E final \in F.services[n] : final.of = "message" /\ Bound(kind, n, final, p)
  BY <1>1 DEF EndpointsBound
<1> DEFINE final == ResolvedIn(p, kind, n)
<1>3. final \in F.services[n]
  <2> DEFINE D == WithDeclarations(p)
  <2>1. D = WithDeclarations(p) /\ F = WithFeatures(D)
    BY <1>1
  <2> HIDE DEF D
  <2>2. F.services[n] = {ResolvedIn(p, k, n) : k \in files[p].services[n]}
    BY <1>1, <2>1, OthersKept
  <2> QED BY <2>2
<1>4. n \in Seq(STRING) /\ kind \in ParsedKind /\ kind.of = "message"
  BY <1>1 DEF ParsedFile, Name, NamedKind
<1>5. ~UnknownIn(p, kind, n) /\ final.of # "enum"
  <2>1. EndpointDefects(p) = {}
    BY NoDefects DEF Linking
  <2> DEFINE Defects(m, k) == IF UnknownIn(p, k, m) THEN {"unknown type"}
                              ELSE IF ResolvedIn(p, k, m).of = "enum" THEN {"endpoint"} ELSE {}
  <2>2. EndpointDefects(p) = UNION {UNION {Defects(m, k) : k \in files[p].services[m]} :
                                      m \in DOMAIN files[p].services}
    BY DEF EndpointDefects
  <2> HIDE DEF Defects
  <2>3. Defects(n, kind) = {}
    BY <2>1, <2>2
  <2> QED BY <2>3 DEF Defects
<1>6. Bound(kind, n, final, p)
  BY <1>1, <1>4, <1>5, ResolvedIsBoundIn
<1> HIDE DEF final
<1>7. final.of = "message"
  BY <1>4, <1>5, <1>6 DEF Bound, IsBound
<1> QED BY <1>3, <1>6, <1>7

\* A file that resolving does not refuse is linked.
LEMMA FileLinked ==
  ASSUME NEW p, NEW F, Linking(p, F)
  PROVE  LinkedAs(p, F) /\ Keeps(F, registry.files[p])
<1>1. ParsedFile(files[p]) /\ F = WithFeatures(WithDeclarations(p)) /\ files[p] = registry.files[p]
  BY LinkingParsed DEF Linking
<1>2. FeaturesSet(F, files[p]) /\ Keeps(F, files[p])
  <2> DEFINE D == WithDeclarations(p)
  <2>1. D = WithDeclarations(p) /\ F = WithFeatures(D)
    BY <1>1
  <2> HIDE DEF D
  <2> QED BY <1>1, <2>1, FileFeatured, FileKept
<1>3. /\ FieldsBound(p, F) /\ EndpointsBound(p, F) /\ ExtensionsBound(p, F) /\ NumbersApart(p, F)
      /\ EnumsModern(p, F) /\ FieldsFit(p, F)
  BY FieldsAreBound, EndpointsAreBound, ExtensionsAreBound, EnumsAreModern, FieldsDoFit
<1> QED BY <1>1, <1>2, <1>3 DEF LinkedAs
-----------------------------------------------------------------------------
(* Symbols.                                                                *)

\* The declaration that a symbol belongs to is in the file.
Declared(file, s) ==
  \/ s.sort = "message" /\ s.name \in DOMAIN file.messages
  \/ s.sort = "enum" /\ s.name \in DOMAIN file.enums
  \/ s.sort = "service" /\ s.name \in DOMAIN file.services
  \/ s.sort = "option" /\ s.name \in DOMAIN file.custom_options
  \/ s.sort \in {"field", "oneof"} /\ s.owner \in DOMAIN file.messages
  \/ s.sort = "value" /\ s.owner \in DOMAIN file.enums

IsSymbol(file, s) ==
  \/ \E n \in DOMAIN file.messages : s = Symbol("message", <<>>, n)
  \/ \E n \in DOMAIN file.enums : s = Symbol("enum", <<>>, n)
  \/ \E n \in DOMAIN file.services : s = Symbol("service", <<>>, n)
  \/ \E n \in DOMAIN file.custom_options : s = Symbol("option", <<>>, n)
  \/ \E n \in DOMAIN file.messages : \E f \in DOMAIN file.messages[n].fields :
       s = Symbol("field", n, Append(n, f))
  \/ \E n \in DOMAIN file.messages : \E f \in DOMAIN file.messages[n].fields :
       /\ file.messages[n].fields[f].oneof # None
       /\ s = Symbol("oneof", n, Append(n, file.messages[n].fields[f].oneof))
  \/ \E n \in DOMAIN file.enums : \E v \in file.enums[n].values :
       s = Symbol("value", n, Append(Parent(n), v))

\* The symbols of a file, one by one.
LEMMA SymbolsAre ==
  ASSUME NEW file, NEW s
  PROVE  s \in Symbols(file) <=> IsSymbol(file, s)
<1> DEFINE
  Field == \E n \in DOMAIN file.messages : \E f \in DOMAIN file.messages[n].fields :
             s = Symbol("field", n, Append(n, f))
  Oneof == \E n \in DOMAIN file.messages : \E f \in DOMAIN file.messages[n].fields :
             /\ file.messages[n].fields[f].oneof # None
             /\ s = Symbol("oneof", n, Append(n, file.messages[n].fields[f].oneof))
  Value == \E n \in DOMAIN file.enums : \E v \in file.enums[n].values :
             s = Symbol("value", n, Append(Parent(n), v))
<1>1. s \in FieldSymbols(file) <=> Field
  BY DEF FieldSymbols
<1>2. s \in OneofSymbols(file) <=> Oneof
  <2>1. \A n, o : o \in OneofsOf(file.messages[n])
                    <=> \E f \in DOMAIN file.messages[n].fields :
                          o # None /\ o = file.messages[n].fields[f].oneof
    BY DEF OneofsOf
  <2>2. s \in OneofSymbols(file) <=> \E n \in DOMAIN file.messages :
          \E o \in OneofsOf(file.messages[n]) : s = Symbol("oneof", n, Append(n, o))
    BY DEF OneofSymbols
  <2>3. ASSUME s \in OneofSymbols(file) PROVE Oneof
    <3>3. PICK n \in DOMAIN file.messages :
            \E o \in OneofsOf(file.messages[n]) : s = Symbol("oneof", n, Append(n, o))
      BY <2>2, <2>3
    <3>1. PICK o \in OneofsOf(file.messages[n]) : s = Symbol("oneof", n, Append(n, o))
      BY <3>3
    <3>2. PICK f \in DOMAIN file.messages[n].fields :
            o # None /\ o = file.messages[n].fields[f].oneof
      BY <2>1, <3>1
    <3> QED BY <3>1, <3>2
  <2>4. ASSUME Oneof PROVE s \in OneofSymbols(file)
    <3>3. PICK n \in DOMAIN file.messages : \E f \in DOMAIN file.messages[n].fields :
            /\ file.messages[n].fields[f].oneof # None
            /\ s = Symbol("oneof", n, Append(n, file.messages[n].fields[f].oneof))
      BY <2>4
    <3>1. PICK f \in DOMAIN file.messages[n].fields :
            /\ file.messages[n].fields[f].oneof # None
            /\ s = Symbol("oneof", n, Append(n, file.messages[n].fields[f].oneof))
      BY <3>3
    <3>2. file.messages[n].fields[f].oneof \in OneofsOf(file.messages[n])
      BY <2>1, <3>1
    <3> QED BY <2>2, <3>1, <3>2
  <2> QED BY <2>3, <2>4
<1>3. s \in ValueSymbols(file) <=> Value
  BY DEF ValueSymbols
<1> HIDE DEF Field, Oneof, Value
<1>4. s \in Symbols(file)
        <=> (\/ \E n \in DOMAIN file.messages : s = Symbol("message", <<>>, n)
             \/ \E n \in DOMAIN file.enums : s = Symbol("enum", <<>>, n)
             \/ \E n \in DOMAIN file.services : s = Symbol("service", <<>>, n)
             \/ \E n \in DOMAIN file.custom_options : s = Symbol("option", <<>>, n)
             \/ Field \/ Oneof \/ Value)
  BY <1>1, <1>2, <1>3 DEF Symbols
<1> QED BY <1>4 DEF IsSymbol, Field, Oneof, Value

\* A symbol of a file is declared in it.
LEMMA SymbolsDeclared ==
  ASSUME NEW file, NEW s \in Symbols(file)
  PROVE  Declared(file, s)
<1>1. IsSymbol(file, s)
  BY SymbolsAre
<1> QED BY <1>1 DEF IsSymbol, Declared, Symbol

\* A file that keeps another has its symbols.
LEMMA SymbolsKept ==
  ASSUME NEW file, NEW parsed, Keeps(file, parsed), NEW s
  PROVE  IsSymbol(file, s) <=> IsSymbol(parsed, s)
<1>1. /\ DOMAIN file.messages = DOMAIN parsed.messages
      /\ DOMAIN file.enums = DOMAIN parsed.enums
      /\ DOMAIN file.services = DOMAIN parsed.services
      /\ DOMAIN file.custom_options = DOMAIN parsed.custom_options
  BY DEF Keeps, KeepsNames, Sorts
<1>2. \A n \in DOMAIN parsed.messages :
        /\ DOMAIN file.messages[n].fields = DOMAIN parsed.messages[n].fields
        /\ \A f \in DOMAIN parsed.messages[n].fields :
             file.messages[n].fields[f].oneof = parsed.messages[n].fields[f].oneof
  BY DEF Keeps, KeepsMessage, KeepsField
<1>3. \A n \in DOMAIN parsed.enums : file.enums[n].values = parsed.enums[n].values
  BY DEF Keeps, KeepsEnum
<1> QED BY <1>1, <1>2, <1>3 DEF IsSymbol

-----------------------------------------------------------------------------
(* Merging.                                                                *)

\* A schema is that of the files V, together.
MergedFrom(into, V) ==
  /\ DOMAIN into = FileParts
  /\ \A sort \in Sorts :
       /\ DOMAIN into[sort] = UNION {DOMAIN registry.files[p][sort] : p \in V}
       /\ \A p \in V : \A n \in DOMAIN registry.files[p][sort] : into[sort][n] = files[p][sort][n]
  /\ \A p, q \in V : p # q =>
       /\ \A sort \in Sorts :
            DOMAIN registry.files[p][sort] \cap DOMAIN registry.files[q][sort] = {}
       /\ ~NumberTaken(files[p], files[q])
  /\ into.syntax = registry.files[Root].syntax
  /\ into.features = FileFeatures(registry.files[Root])

\* Two extensions take the number from each other.
LEMMA NumberTakenBack ==
  ASSUME NEW a, NEW b
  PROVE  NumberTaken(a, b) <=> NumberTaken(b, a)
BY DEF NumberTaken

\* Merging one more file without a duplicate keeps the schema the union of the files merged.
LEMMA MergeOne ==
  ASSUME Kept, NEW V \in SUBSET Path, NEW h \in Path, h \notin V, MergedFrom(schema, V),
         ~Duplicate(schema, files[h]), NEW into, into = Merged(schema, files[h])
  PROVE  MergedFrom(into, V \cup {h})
<1>1. DOMAIN schema = FileParts
  BY DEF MergedFrom
<1>2. DOMAIN into = FileParts /\ into.syntax = schema.syntax /\ into.features = schema.features
  BY <1>1 DEF Merged, FileParts, Sorts
<1>3. ASSUME NEW sort \in Sorts
      PROVE  into[sort] = Over(files[h][sort], schema[sort])
  BY <1>1 DEF Merged, FileParts, Sorts
<1>4. ASSUME NEW sort \in Sorts
      PROVE  /\ DOMAIN files[h][sort] = DOMAIN registry.files[h][sort]
             /\ DOMAIN schema[sort] \cap DOMAIN registry.files[h][sort] = {}
             /\ DOMAIN schema[sort] = UNION {DOMAIN registry.files[p][sort] : p \in V}
             /\ \A p \in V : \A n \in DOMAIN registry.files[p][sort] :
                  schema[sort][n] = files[p][sort][n]
  <2>1. DOMAIN files[h][sort] = DOMAIN registry.files[h][sort]
    BY DEF Kept, Keeps, KeepsNames
  <2>2. DOMAIN schema[sort] \cap DOMAIN files[h][sort] = {}
    BY DEF Duplicate
  <2> QED BY <2>1, <2>2 DEF MergedFrom
<1>5. ASSUME NEW sort \in Sorts
      PROVE  /\ DOMAIN into[sort] = UNION {DOMAIN registry.files[p][sort] : p \in V \cup {h}}
             /\ \A p \in V \cup {h} : \A n \in DOMAIN registry.files[p][sort] :
                  into[sort][n] = files[p][sort][n]
             /\ \A p \in V :
                  DOMAIN registry.files[p][sort] \cap DOMAIN registry.files[h][sort] = {}
  <2> DEFINE a == files[h][sort]
             b == schema[sort]
  <2>6. into[sort] = Over(a, b) /\ DOMAIN a = DOMAIN registry.files[h][sort]
    BY <1>3, <1>4
  <2> HIDE DEF a, b
  <2>7. /\ DOMAIN into[sort] = DOMAIN registry.files[h][sort] \cup DOMAIN b
        /\ \A n \in DOMAIN into[sort] :
             into[sort][n] = IF n \in DOMAIN registry.files[h][sort] THEN a[n] ELSE b[n]
    BY <2>6 DEF Over
  <2>1. DOMAIN into[sort] = DOMAIN registry.files[h][sort] \cup DOMAIN schema[sort]
    BY <2>7 DEF b
  <2>2. \A n \in DOMAIN into[sort] : into[sort][n] = IF n \in DOMAIN registry.files[h][sort]
                                                     THEN files[h][sort][n] ELSE schema[sort][n]
    BY <2>7 DEF a, b
  <2>3. \A p \in V : DOMAIN registry.files[p][sort] \cap DOMAIN registry.files[h][sort] = {}
    BY <1>4
  <2>4. DOMAIN into[sort] = UNION {DOMAIN registry.files[p][sort] : p \in V \cup {h}}
    BY <1>4, <2>1
  <2>5. ASSUME NEW p \in V \cup {h}, NEW n \in DOMAIN registry.files[p][sort]
        PROVE  into[sort][n] = files[p][sort][n]
    <3>1. CASE p = h
      BY <2>1, <2>2, <2>5, <3>1
    <3>2. CASE p \in V
      <4>1. n \in DOMAIN schema[sort] /\ n \notin DOMAIN registry.files[h][sort]
            /\ schema[sort][n] = files[p][sort][n]
        BY <1>4, <2>3, <2>5, <3>2
      <4> QED BY <2>1, <2>2, <4>1
    <3> QED BY <3>1, <3>2
  <2> QED BY <2>3, <2>4, <2>5
<1>6. ASSUME NEW p \in V PROVE ~NumberTaken(files[p], files[h])
  <2>1. /\ DOMAIN files[p].custom_options = DOMAIN registry.files[p].custom_options
        /\ DOMAIN files[p].extensions = DOMAIN registry.files[p].extensions
    BY DEF Kept, Keeps, KeepsNames, Sorts
  <2>2. /\ \A n \in DOMAIN files[p].custom_options :
             /\ n \in DOMAIN schema.custom_options
             /\ schema.custom_options[n] = files[p].custom_options[n]
        /\ \A n \in DOMAIN files[p].extensions :
             n \in DOMAIN schema.extensions /\ schema.extensions[n] = files[p].extensions[n]
    BY <1>4, <2>1 DEF Sorts
  <2>3. ~NumberTaken(schema, files[h])
    BY DEF Duplicate
  <2> QED BY <2>2, <2>3 DEF NumberTaken
<1>7. ASSUME NEW p \in V \cup {h}, NEW q \in V \cup {h}, p # q
      PROVE  /\ \A sort \in Sorts :
                  DOMAIN registry.files[p][sort] \cap DOMAIN registry.files[q][sort] = {}
             /\ ~NumberTaken(files[p], files[q])
  <2>1. CASE p \in V /\ q \in V
    BY <1>7, <2>1 DEF MergedFrom
  <2>2. CASE p \in V /\ q = h
    BY <1>5, <1>6, <2>2
  <2>3. CASE p = h /\ q \in V
    <3>1. ~NumberTaken(files[p], files[q])
      BY <1>6, <2>3, NumberTakenBack
    <3> QED BY <1>5, <2>3, <3>1
  <2> QED BY <1>7, <2>1, <2>2, <2>3
<1>8. into.syntax = registry.files[Root].syntax /\ into.features = FileFeatures(registry.files[Root])
  BY <1>2 DEF MergedFrom
<1> QED BY <1>2, <1>5, <1>7, <1>8 DEF MergedFrom

\* What merging refuses is shared by two files.
LEMMA MergeRefuses ==
  ASSUME Kept, NEW V \in SUBSET Path, NEW h \in Path, h \notin V, MergedFrom(schema, V),
         Duplicate(schema, files[h])
  PROVE  SharedName \/ SharedExtension \/ SharedNumber
<1>1. ASSUME NEW sort \in Sorts, NEW n \in DOMAIN schema[sort]
      PROVE  \E p \in V : /\ n \in DOMAIN registry.files[p][sort]
                          /\ n \in DOMAIN files[p][sort] /\ schema[sort][n] = files[p][sort][n]
  <2>1. PICK p \in V : n \in DOMAIN registry.files[p][sort]
    BY DEF MergedFrom
  <2>2. schema[sort][n] = files[p][sort][n]
    BY <2>1 DEF MergedFrom
  <2>3. DOMAIN files[p][sort] = DOMAIN registry.files[p][sort]
    BY DEF Kept, Keeps, KeepsNames
  <2> QED BY <2>1, <2>2, <2>3
<1>2. ASSUME NEW sort \in Sorts, NEW n \in DOMAIN schema[sort], n \in DOMAIN files[h][sort]
      PROVE  SharedName \/ SharedExtension
  <2>1. PICK p \in V : n \in DOMAIN registry.files[p][sort]
    BY <1>1
  <2>2. n \in DOMAIN registry.files[h][sort] /\ p \in Path /\ p # h
    BY <1>2 DEF Kept, Keeps, KeepsNames
  <2>3. CASE sort = "extensions"
    BY <2>1, <2>2, <2>3 DEF SharedExtension
  <2>4. CASE sort = "custom_options"
    BY <2>1, <2>2, <2>4 DEF SharedExtension
  <2>5. ASSUME NEW s, IsSymbol(registry.files[p], s), IsSymbol(registry.files[h], s)
        PROVE  SharedName
    <3>1. s \in Symbols(registry.files[p]) /\ s \in Symbols(registry.files[h])
      BY <2>5, SymbolsAre
    <3> QED BY <2>2, <3>1 DEF SharedName
  <2>6. CASE sort = "messages"
    <3>1. IsSymbol(registry.files[p], Symbol("message", <<>>, n))
          /\ IsSymbol(registry.files[h], Symbol("message", <<>>, n))
      BY <2>1, <2>2, <2>6 DEF IsSymbol
    <3> QED BY <2>5, <3>1
  <2>7. CASE sort = "enums"
    <3>1. IsSymbol(registry.files[p], Symbol("enum", <<>>, n))
          /\ IsSymbol(registry.files[h], Symbol("enum", <<>>, n))
      BY <2>1, <2>2, <2>7 DEF IsSymbol
    <3> QED BY <2>5, <3>1
  <2>8. CASE sort = "services"
    <3>1. IsSymbol(registry.files[p], Symbol("service", <<>>, n))
          /\ IsSymbol(registry.files[h], Symbol("service", <<>>, n))
      BY <2>1, <2>2, <2>8 DEF IsSymbol
    <3> QED BY <2>5, <3>1
  <2> QED BY <2>3, <2>4, <2>6, <2>7, <2>8 DEF Sorts
<1>3. ASSUME NumberTaken(schema, files[h]) PROVE SharedNumber
  <2>1. CASE \E m \in DOMAIN schema.custom_options, n \in DOMAIN files[h].custom_options :
               /\ schema.custom_options[m].extendee = files[h].custom_options[n].extendee
               /\ schema.custom_options[m].number = files[h].custom_options[n].number
    <3>1. PICK m \in DOMAIN schema.custom_options, n \in DOMAIN files[h].custom_options :
               /\ schema.custom_options[m].extendee = files[h].custom_options[n].extendee
               /\ schema.custom_options[m].number = files[h].custom_options[n].number
      BY <2>1
    <3>2. PICK p \in V : /\ m \in DOMAIN files[p].custom_options
                         /\ schema.custom_options[m] = files[p].custom_options[m]
      BY <1>1 DEF Sorts
    <3> DEFINE x == [name |-> m, in |-> p, of |-> files[p].custom_options[m].extendee,
                     number |-> files[p].custom_options[m].number]
               y == [name |-> n, in |-> h, of |-> files[h].custom_options[n].extendee,
                     number |-> files[h].custom_options[n].number]
    <3>3. x \in OptionNumbers /\ y \in OptionNumbers
      BY <3>1, <3>2 DEF OptionNumbers
    <3>4. p # h /\ x # y /\ x.of = y.of /\ x.number = y.number
      BY <3>1, <3>2
    <3> HIDE DEF x, y
    <3> QED BY <3>3, <3>4 DEF SharedNumber
  <2>2. CASE \E m \in DOMAIN schema.extensions, n \in DOMAIN files[h].extensions :
               /\ schema.extensions[m].extendee = files[h].extensions[n].extendee
               /\ schema.extensions[m].field.number = files[h].extensions[n].field.number
    <3>1. PICK m \in DOMAIN schema.extensions, n \in DOMAIN files[h].extensions :
               /\ schema.extensions[m].extendee = files[h].extensions[n].extendee
               /\ schema.extensions[m].field.number = files[h].extensions[n].field.number
      BY <2>2
    <3>2. PICK p \in V : /\ m \in DOMAIN files[p].extensions
                         /\ schema.extensions[m] = files[p].extensions[m]
      BY <1>1 DEF Sorts
    <3> DEFINE x == [name |-> m, in |-> p, of |-> files[p].extensions[m].extendee.name,
                     number |-> files[p].extensions[m].field.number]
               y == [name |-> n, in |-> h, of |-> files[h].extensions[n].extendee.name,
                     number |-> files[h].extensions[n].field.number]
    <3>3. x \in ExtensionNumbers /\ y \in ExtensionNumbers
      BY <3>1, <3>2 DEF ExtensionNumbers
    <3>4. p # h /\ x # y /\ x.of = y.of /\ x.number = y.number
      BY <3>1, <3>2
    <3> HIDE DEF x, y
    <3> QED BY <3>3, <3>4 DEF SharedNumber
  <2> QED BY <1>3, <2>1, <2>2 DEF NumberTaken
<1>4. CASE \E sort \in Sorts : DOMAIN schema[sort] \cap DOMAIN files[h][sort] # {}
  BY <1>2, <1>4
<1> QED BY <1>3, <1>4 DEF Duplicate

\* The symbols of the merged schema are those of the files.
LEMMA SymbolsMerged ==
  ASSUME Kept, MergedFrom(schema, Path), NEW s
  PROVE  IsSymbol(schema, s) <=> \E p \in Path : IsSymbol(registry.files[p], s)
<1>1. ASSUME NEW p \in Path, NEW sort \in Sorts, NEW n \in DOMAIN files[p][sort]
      PROVE  n \in DOMAIN schema[sort] /\ schema[sort][n] = files[p][sort][n]
  <2>1. n \in DOMAIN registry.files[p][sort]
    BY DEF Kept, Keeps, KeepsNames
  <2> QED BY <2>1 DEF MergedFrom
<1>2. ASSUME NEW sort \in Sorts, NEW n \in DOMAIN schema[sort]
      PROVE  \E p \in Path : n \in DOMAIN files[p][sort] /\ schema[sort][n] = files[p][sort][n]
  <2>1. PICK p \in Path : n \in DOMAIN registry.files[p][sort]
    BY DEF MergedFrom
  <2>2. DOMAIN files[p][sort] = DOMAIN registry.files[p][sort]
    BY DEF Kept, Keeps, KeepsNames
  <2> QED BY <1>1, <2>1, <2>2
<1>3. /\ \A p \in Path : \A n \in DOMAIN files[p].messages :
           n \in DOMAIN schema.messages /\ schema.messages[n] = files[p].messages[n]
      /\ \A p \in Path : \A n \in DOMAIN files[p].enums :
           n \in DOMAIN schema.enums /\ schema.enums[n] = files[p].enums[n]
      /\ \A p \in Path : \A n \in DOMAIN files[p].services : n \in DOMAIN schema.services
      /\ \A p \in Path : \A n \in DOMAIN files[p].custom_options :
           n \in DOMAIN schema.custom_options
  BY <1>1 DEF Sorts
<1>4. /\ \A n \in DOMAIN schema.messages : \E p \in Path :
           n \in DOMAIN files[p].messages /\ schema.messages[n] = files[p].messages[n]
      /\ \A n \in DOMAIN schema.enums : \E p \in Path :
           n \in DOMAIN files[p].enums /\ schema.enums[n] = files[p].enums[n]
      /\ \A n \in DOMAIN schema.services : \E p \in Path : n \in DOMAIN files[p].services
      /\ \A n \in DOMAIN schema.custom_options : \E p \in Path :
           n \in DOMAIN files[p].custom_options
  BY <1>2 DEF Sorts
<1>5. ASSUME NEW p \in Path, IsSymbol(files[p], s) PROVE IsSymbol(schema, s)
  BY <1>3, <1>5 DEF IsSymbol
<1>6. ASSUME IsSymbol(schema, s) PROVE \E p \in Path : IsSymbol(files[p], s)
  BY <1>4, <1>6 DEF IsSymbol
<1>7. \A p \in Path : IsSymbol(files[p], s) <=> IsSymbol(registry.files[p], s)
  BY SymbolsKept DEF Kept
<1> QED BY <1>5, <1>6, <1>7

\* Names are unique over all files exactly if they are in the merged schema.
LEMMA ConflictIsShared ==
  ASSUME Kept, MergedFrom(schema, Path)
  PROVE  Conflicting(schema) <=> SharedName
<1>1. ASSUME NEW s PROVE s \in Symbols(schema) <=> \E p \in Path : s \in Symbols(registry.files[p])
  BY SymbolsMerged, SymbolsAre
<1>2. ASSUME Conflicting(schema) PROVE SharedName
  <2>1. PICK s \in Symbols(schema), t \in Symbols(schema) : s # t /\ s.name = t.name
    BY <1>2 DEF Conflicting
  <2>2. PICK p \in Path : s \in Symbols(registry.files[p])
    BY <1>1
  <2>3. PICK q \in Path : t \in Symbols(registry.files[q])
    BY <1>1
  <2> QED BY <2>1, <2>2, <2>3 DEF SharedName
<1>3. ASSUME SharedName PROVE Conflicting(schema)
  <2>1. PICK p \in Path, q \in Path : \E s \in Symbols(registry.files[p]), t \in Symbols(registry.files[q]) :
          s.name = t.name /\ (p # q \/ s # t)
    BY <1>3 DEF SharedName
  <2>2. PICK s \in Symbols(registry.files[p]), t \in Symbols(registry.files[q]) :
          s.name = t.name /\ (p # q \/ s # t)
    BY <2>1
  <2>3. s \in Symbols(schema) /\ t \in Symbols(schema)
    BY <1>1, <2>2
  <2>4. ASSUME p # q, s = t PROVE FALSE
    <3>1. Declared(registry.files[p], s) /\ Declared(registry.files[q], s)
      BY <2>2, <2>4, SymbolsDeclared
    <3>2. \A sort \in Sorts : DOMAIN registry.files[p][sort] \cap DOMAIN registry.files[q][sort] = {}
      BY <2>4 DEF MergedFrom
    <3>3. /\ DOMAIN registry.files[p].messages \cap DOMAIN registry.files[q].messages = {}
          /\ DOMAIN registry.files[p].enums \cap DOMAIN registry.files[q].enums = {}
          /\ DOMAIN registry.files[p].services \cap DOMAIN registry.files[q].services = {}
          /\ DOMAIN registry.files[p].custom_options \cap DOMAIN registry.files[q].custom_options = {}
      BY <3>2 DEF Sorts
    <3> QED BY <3>1, <3>3 DEF Declared
  <2> QED BY <2>2, <2>3, <2>4 DEF Conflicting
<1> QED BY <1>2, <1>3
-----------------------------------------------------------------------------
(* The inductive invariant.                                                *)

Visited == Path \ Paths(todo)

VisitInv ==
  /\ Loaded(registry)
  /\ order \in Seq(Path) /\ Distinct(order) /\ Paths(order) = Path
  /\ todo \in Seq(Path) /\ Distinct(todo)
  /\ phase \in {"resolving", "checking", "merging", "accepted", "error"}

FilesInv ==
  /\ DOMAIN files = Path /\ Kept
  /\ phase = "resolving" => \A p \in Paths(todo) : files[p] = registry.files[p]
  /\ phase = "resolving" => \A p \in Visited : Linked(p)
  /\ phase \in {"checking", "merging", "accepted"} => \A p \in Path : Linked(p)

MergeInv ==
  /\ phase \in {"merging", "accepted"} => MergedFrom(schema, Visited)
  /\ phase = "accepted" => todo = <<>> /\ ~Conflicting(schema)

ReasonInv ==
  /\ phase # "error" => reason = None
  /\ reason = "conflict" => SharedName
  /\ reason = "duplicate" => SharedName \/ SharedExtension \/ SharedNumber

LinkInv == VisitInv /\ FilesInv /\ MergeInv /\ ReasonInv

\* No error is none.
LEMMA NoReason ==
  None # "conflict" /\ None # "duplicate"
BY ReasonAssumption DEF Reason

\* A file is linked once it is replaced by what resolving makes of it.
LEMMA LinkedNow ==
  ASSUME registry' = registry, NEW p, NEW F, files'[p] = F, LinkedAs(p, F)
  PROVE  Linked(p)'
<1>2. FieldsBound(p, files[p])'
  BY DEF LinkedAs, FieldsBound, Bound, Seen
<1>3. EndpointsBound(p, files[p])'
  BY DEF LinkedAs, EndpointsBound, Bound, Seen
<1>4. ExtensionsBound(p, files[p])'
  BY DEF LinkedAs, ExtensionsBound
<1>5. NumbersApart(p, files[p])'
  BY DEF LinkedAs, NumbersApart
<1>6. EnumsModern(p, files[p])'
  BY DEF LinkedAs, EnumsModern
<1>7. FieldsFit(p, files[p])'
  BY DEF LinkedAs, FieldsFit
<1>8. FeaturesSet(files[p], registry.files[p])'
  BY DEF LinkedAs
<1> QED BY <1>2, <1>3, <1>4, <1>5, <1>6, <1>7, <1>8 DEF Linked, LinkedAs
\* What is linked stays so.
LEMMA LinkedStays ==
  ASSUME registry' = registry, NEW p, files'[p] = files[p], Linked(p)
  PROVE  Linked(p)'
<1>1. PICK F : F = files[p]
  OBVIOUS
<1>2. LinkedAs(p, F) /\ files'[p] = F
  BY <1>1 DEF Linked
<1> QED BY <1>2, LinkedNow
\* A step that goes on through the order keeps the loop's invariant.
LEMMA VisitStays ==
  ASSUME VisitInv, registry' = registry, order' = order, todo' \in Seq(Path), Distinct(todo'),
         phase' \in {"resolving", "checking", "merging", "accepted", "error"}
  PROVE  VisitInv'
BY DEF VisitInv, Path

\* A step that leaves the files alone keeps what is known of them.
LEMMA KeptStays ==
  ASSUME Kept, registry' = registry, files' = files
  PROVE  Kept' /\ \A p \in Path : Linked(p) => Linked(p)'
<1>1. Kept'
  BY DEF Kept, Path
<1> QED BY <1>1, LinkedStays

\* A step that leaves the files alone keeps what they share.
LEMMA SharedStays ==
  ASSUME registry' = registry, files' = files
  PROVE  /\ SharedName => SharedName'
         /\ SharedExtension => SharedExtension'
         /\ SharedNumber => SharedNumber'
<1>1. SharedName => SharedName'
  BY DEF SharedName, Path
<1>2. SharedExtension => SharedExtension'
  BY DEF SharedExtension, Path
<1>3. ExtensionNumbers' = ExtensionNumbers /\ OptionNumbers' = OptionNumbers
  BY DEF ExtensionNumbers, OptionNumbers, Path
<1>4. SharedNumber => SharedNumber'
  BY <1>3 DEF SharedNumber
<1> QED BY <1>1, <1>2, <1>4

\* A schema that is the union of the files visited after a step.
LEMMA MergedNow ==
  ASSUME registry' = registry, files' = files, NEW into, NEW V, schema' = into, Visited' = V,
         MergedFrom(into, V)
  PROVE  MergedFrom(schema, Visited)'
BY DEF MergedFrom

\* The state in which linking begins.
Starting ==
  /\ Loaded(registry) /\ order \in Seq(Path) /\ Distinct(order) /\ Paths(order) = Path
  /\ files = registry.files /\ todo = order /\ phase = "resolving" /\ reason = None

\* Where linking begins, the invariant holds.
LEMMA StartingLinks == Starting => LinkInv
<1> SUFFICES ASSUME Starting PROVE LinkInv
  OBVIOUS
<1>1. VisitInv
  BY DEF Starting, VisitInv
<1>2. FilesInv
  <2>1. DOMAIN files = Path /\ Kept
    BY KeepsItself DEF Starting, Kept, Path
  <2>2. Visited = {}
    BY DEF Starting, Visited
  <2> QED BY <2>1, <2>2 DEF Starting, FilesInv
<1>3. MergeInv /\ ReasonInv
  BY NoReason DEF Starting, MergeInv, ReasonInv
<1> QED BY <1>1, <1>2, <1>3 DEF LinkInv

\* One parsed file that sees itself is a loaded registry.
LEMMA OneFileLoaded ==
  ASSUME NEW r, DOMAIN r.files = {Root}, ParsedFile(r.files[Root]),
         r.sees[Root] = {Root}
  PROVE  Loaded(r)
<1>1. ASSUME NEW p \in DOMAIN r.files
      PROVE  ParsedFile(r.files[p]) /\ p \in r.sees[p] /\ r.sees[p] \subseteq DOMAIN r.files
  <2>1. p = Root
    OBVIOUS
  <2> QED BY <2>1
<1>2. IsFiniteSet(DOMAIN r.files) /\ Root \in DOMAIN r.files
  BY FS_Singleton
<1> QED BY <1>1, <1>2 DEF Loaded

\* Linking begins with a registry that was just loaded.
LEMMA InitStarts == Init => Starting
<1> SUFFICES ASSUME Init PROVE Starting
  OBVIOUS
<1>1. /\ registry \in Registries /\ order \in Orders /\ files = registry.files /\ todo = order
      /\ phase = "resolving" /\ reason = None
  BY DEF Init
<1>2. Loaded(registry)
  BY <1>1, LinkAssumption
<1>3. IsFiniteSet(Path)
  BY <1>2 DEF Loaded, Path
<1>4. order \in [1 .. Cardinality(Path) -> Path]
      /\ \A p \in Path : \E i \in DOMAIN order : order[i] = p
  BY <1>1 DEF Orders
<1>5. order \in Seq(Path) /\ Distinct(order) /\ Paths(order) = Path
  BY <1>3, <1>4, OrderVisitsOnce
<1> QED BY <1>1, <1>2, <1>5 DEF Starting

\* A step to an error keeps the invariant, when its reason is true of the files.
LEMMA FailKeeps ==
  ASSUME LinkInv, NEW why, Fail(why), why = "conflict" => SharedName,
         why = "duplicate" => SharedName \/ SharedExtension \/ SharedNumber
  PROVE  LinkInv'
<1>1. /\ phase' = "error" /\ reason' = why /\ registry' = registry /\ order' = order
      /\ files' = files /\ todo' = todo /\ schema' = schema
  BY DEF Fail
<1>2. VisitInv'
  <2>1. todo \in Seq(Path) /\ Distinct(todo)
    BY DEF LinkInv, VisitInv
  <2> QED BY <1>1, <2>1, VisitStays DEF LinkInv
<1>3. FilesInv'
  <2>1. Kept' /\ DOMAIN files' = Path'
    BY <1>1, KeptStays DEF LinkInv, FilesInv, Path
  <2> QED BY <1>1, <2>1 DEF FilesInv
<1>4. MergeInv'
  BY <1>1 DEF MergeInv
<1>5. ReasonInv'
  BY <1>1, SharedStays DEF ReasonInv
<1> QED BY <1>2, <1>3, <1>4, <1>5 DEF LinkInv

\* Where an error is not met, there is no reason.
LEMMA NoReasonYet ==
  ASSUME reason = None, reason' = reason
  PROVE  ReasonInv'
BY NoReason DEF ReasonInv

\* Resolving a file keeps the invariant.
LEMMA ResolveKeeps ==
  ASSUME LinkInv, ResolveFile
  PROVE  LinkInv'
<1>0. PICK p : p = Head(todo)
  OBVIOUS
<1> DEFINE F == WithFeatures(WithDeclarations(p))
<1>1. phase = "resolving" /\ todo # <<>>
  BY DEF ResolveFile
<1>2. /\ Loaded(registry) /\ todo \in Seq(Path) /\ Distinct(todo) /\ DOMAIN files = Path /\ Kept
      /\ \A q \in Paths(todo) : files[q] = registry.files[q]
      /\ \A q \in Visited : Linked(q)
      /\ reason = None
  BY <1>1 DEF LinkInv, VisitInv, FilesInv, ReasonInv
<1>3. /\ p \in Path /\ p \in Paths(todo) /\ Tail(todo) \in Seq(Path) /\ Distinct(Tail(todo))
      /\ Paths(Tail(todo)) = Paths(todo) \ {p}
  BY <1>0, <1>1, <1>2, NextPath
<1>4. files[p] = registry.files[p]
  BY <1>2, <1>3
<1>5. CASE Conflicting(files[p])
  <2>1. Fail("conflict")
    BY <1>0, <1>1, <1>5 DEF ResolveFile
  <2>2. SharedName
    BY <1>3, <1>4, <1>5 DEF Conflicting, SharedName
  <2> QED BY <2>1, <2>2, FailKeeps
<1>6. CASE ~Conflicting(files[p]) /\ DeclarationDefects(p) # {}
  <2>1. PICK why \in DeclarationDefects(p) : Fail(why)
    BY <1>0, <1>6 DEF ResolveFile
  <2>2. why # "conflict" /\ why # "duplicate"
    <3>1. \A q, field, scope : "conflict" \notin FieldDefects(q, field, scope)
                               /\ "duplicate" \notin FieldDefects(q, field, scope)
      BY DEF FieldDefects
    <3>2. "conflict" \notin MessageDefects(p) /\ "duplicate" \notin MessageDefects(p)
      BY <3>1 DEF MessageDefects
    <3>3. "conflict" \notin OptionDefects(p) /\ "duplicate" \notin OptionDefects(p)
      BY DEF OptionDefects
    <3>4. "conflict" \notin ExtensionDefects(p) /\ "duplicate" \notin ExtensionDefects(p)
      BY DEF ExtensionDefects
    <3>5. "conflict" \notin EndpointDefects(p) /\ "duplicate" \notin EndpointDefects(p)
      BY DEF EndpointDefects
    <3> QED BY <3>2, <3>3, <3>4, <3>5 DEF DeclarationDefects
  <2> QED BY <2>1, <2>2, FailKeeps
<1>7. CASE ~Conflicting(files[p]) /\ DeclarationDefects(p) = {}
           /\ FeatureMisuse(WithDeclarations(p))
  <2>1. Fail("feature")
    BY <1>0, <1>7 DEF ResolveFile
  <2> QED BY <2>1, FailKeeps
<1>8. CASE ~Conflicting(files[p]) /\ DeclarationDefects(p) = {}
           /\ ~FeatureMisuse(WithDeclarations(p))
  <2>1. /\ files' = [files EXCEPT ![p] = F] /\ todo' = Tail(todo)
        /\ registry' = registry /\ order' = order /\ schema' = schema /\ phase' = phase
        /\ reason' = reason
    BY <1>0, <1>8 DEF ResolveFile
  <2>2. Linking(p, F)
    BY <1>2, <1>3, <1>4, <1>8 DEF Linking
  <2> HIDE DEF F
  <2>3. LinkedAs(p, F) /\ Keeps(F, registry.files[p])
    BY <2>2, FileLinked
  <2>4. VisitInv'
    BY <1>1, <1>3, <2>1, VisitStays DEF LinkInv
  <2>5. /\ DOMAIN files' = Path /\ files'[p] = F
        /\ \A q \in Path : q # p => files'[q] = files[q]
    BY <1>2, <1>3, <2>1
  <2>6. Path' = Path
    BY <2>1 DEF Path
  <2>7. Kept'
    BY <1>2, <2>1, <2>3, <2>5, <2>6 DEF Kept
  <2>8. Linked(p)'
    <3>1. PICK G : G = F
      OBVIOUS
    <3> QED BY <2>1, <2>3, <2>5, <3>1, LinkedNow
  <2>9. Paths(todo)' = Paths(todo) \ {p}
    BY <1>3, <2>1
  <2>10. \A q \in Visited' : Linked(q)'
    <3> SUFFICES ASSUME NEW q \in Path, q \notin Paths(todo) \/ q = p PROVE Linked(q)'
      BY <2>6, <2>9 DEF Visited
    <3>1. CASE q = p
      BY <2>8, <3>1
    <3>2. CASE q # p
      <4>1. Linked(q) /\ files'[q] = files[q]
        BY <1>2, <2>5, <3>2 DEF Visited
      <4> QED BY <2>1, <4>1, LinkedStays
    <3> QED BY <3>1, <3>2
  <2>11. \A q \in Paths(todo)' : files'[q] = registry'.files[q]
    <3> SUFFICES ASSUME NEW q \in Paths(todo), q # p PROVE files'[q] = registry.files[q]
      BY <2>1, <2>9
    <3>1. q \in Path
      BY <1>2 DEF Paths
    <3> QED BY <1>2, <2>5, <3>1
  <2>12. FilesInv'
    BY <1>1, <2>1, <2>5, <2>6, <2>7, <2>10, <2>11 DEF FilesInv
  <2>13. MergeInv'
    BY <1>1, <2>1 DEF MergeInv
  <2>14. ReasonInv'
    BY <1>2, <2>1, NoReasonYet
  <2> QED BY <2>4, <2>12, <2>13, <2>14 DEF LinkInv
<1> QED BY <1>5, <1>6, <1>7, <1>8
\* A step that leaves the files, all linked, alone.
LEMMA FilesStay ==
  ASSUME LinkInv, registry' = registry, files' = files, \A p \in Path : Linked(p),
         phase' # "resolving"
  PROVE  FilesInv'
<1>1. Kept' /\ (\A p \in Path : Linked(p)') /\ DOMAIN files' = Path' /\ Path' = Path
  BY KeptStays DEF LinkInv, FilesInv, Path
<1> QED BY <1>1 DEF FilesInv

\* Going on to the settings keeps the invariant.
LEMMA BeginCheckingKeeps ==
  ASSUME LinkInv, BeginChecking
  PROVE  LinkInv'
<1>1. /\ phase = "resolving" /\ todo = <<>> /\ phase' = "checking" /\ todo' = order
      /\ registry' = registry /\ order' = order /\ files' = files /\ schema' = schema
      /\ reason' = reason
  BY DEF BeginChecking
<1>2. /\ order \in Seq(Path) /\ Distinct(order) /\ reason = None
      /\ \A p \in Visited : Linked(p)
  BY <1>1 DEF LinkInv, VisitInv, FilesInv, ReasonInv
<1>3. VisitInv'
  BY <1>1, <1>2, VisitStays DEF LinkInv
<1>4. FilesInv'
  <2>1. Visited = Path
    BY <1>1 DEF Visited, Paths
  <2> QED BY <1>1, <1>2, <2>1, FilesStay
<1>5. MergeInv'
  BY <1>1 DEF MergeInv
<1>6. ReasonInv'
  BY <1>1, <1>2, NoReasonYet
<1> QED BY <1>3, <1>4, <1>5, <1>6 DEF LinkInv

\* Checking the settings of a file keeps the invariant.
LEMMA CheckKeeps ==
  ASSUME LinkInv, CheckFile
  PROVE  LinkInv'
<1>1. phase = "checking" /\ todo # <<>>
  BY DEF CheckFile
<1>2. CASE ~SettingsValid(Head(todo))
  <2>1. Fail("setting")
    BY <1>2 DEF CheckFile
  <2> QED BY <2>1, FailKeeps
<1>3. CASE SettingsValid(Head(todo))
  <2>1. /\ todo' = Tail(todo) /\ registry' = registry /\ order' = order /\ files' = files
        /\ schema' = schema /\ phase' = phase /\ reason' = reason
    BY <1>3 DEF CheckFile
  <2>2. /\ todo \in Seq(Path) /\ Distinct(todo) /\ reason = None
        /\ \A p \in Path : Linked(p)
    BY <1>1 DEF LinkInv, VisitInv, FilesInv, ReasonInv
  <2>3. Tail(todo) \in Seq(Path) /\ Distinct(Tail(todo))
    BY <1>1, <2>2, NextPath
  <2>4. VisitInv'
    BY <1>1, <2>1, <2>3, VisitStays DEF LinkInv
  <2>5. FilesInv'
    BY <1>1, <2>1, <2>2, FilesStay
  <2>6. MergeInv'
    BY <1>1, <2>1 DEF MergeInv
  <2>7. ReasonInv'
    BY <2>1, <2>2, NoReasonYet
  <2> QED BY <2>4, <2>5, <2>6, <2>7 DEF LinkInv
<1> QED BY <1>2, <1>3

\* Merging begins with the root alone.
LEMMA RootMerged ==
  ASSUME LinkInv, Linked(Root)
  PROVE  MergedFrom(files[Root], {Root})
<1>1. Root \in Path /\ Kept /\ ParsedFile(registry.files[Root])
  BY DEF LinkInv, VisitInv, FilesInv, Loaded, Path
<1>2. Keeps(files[Root], registry.files[Root])
  BY <1>1 DEF Kept
<1>3. DOMAIN files[Root] = FileParts /\ files[Root].syntax = registry.files[Root].syntax
  BY <1>1, <1>2 DEF Keeps, ParsedFile, FileParts
<1>4. \A sort \in Sorts : DOMAIN files[Root][sort] = DOMAIN registry.files[Root][sort]
  BY <1>2 DEF Keeps, KeepsNames
<1>5. files[Root].features = FileFeatures(registry.files[Root])
  BY DEF Linked, LinkedAs, FeaturesSet
<1> QED BY <1>3, <1>4, <1>5 DEF MergedFrom

\* Going on to the merge keeps the invariant.
LEMMA BeginMergingKeeps ==
  ASSUME LinkInv, BeginMerging
  PROVE  LinkInv'
<1>1. /\ phase = "checking" /\ phase' = "merging" /\ registry' = registry /\ order' = order
      /\ files' = files /\ schema' = files[Root] /\ reason' = reason
  BY DEF BeginMerging
<1>2. PICK i \in DOMAIN order :
        order[i] = Root /\ todo' = SubSeq(order, 1, i - 1) \o SubSeq(order, i + 1, Len(order))
  BY DEF BeginMerging
<1>3. /\ order \in Seq(Path) /\ Distinct(order) /\ Paths(order) = Path /\ reason = None
      /\ Root \in Path /\ \A p \in Path : Linked(p)
  BY <1>1 DEF LinkInv, VisitInv, FilesInv, ReasonInv, Loaded, Path
<1>4. todo' \in Seq(Path) /\ Distinct(todo') /\ Paths(todo') = Path \ {Root}
  <2>1. PICK t : t = Without(order, i)
    OBVIOUS
  <2>2. t \in Seq(Path) /\ Distinct(t) /\ Paths(t) = Paths(order) \ {order[i]}
    BY <1>3, <2>1, PathTakenOut
  <2> QED BY <1>2, <1>3, <2>1, <2>2 DEF Without
<1>5. VisitInv'
  BY <1>1, <1>4, VisitStays DEF LinkInv
<1>6. FilesInv'
  BY <1>1, <1>3, FilesStay
<1>7. MergeInv'
  <2>1. PICK into, V : into = files[Root] /\ V = {Root}
    OBVIOUS
  <2>2. MergedFrom(into, V)
    BY <1>3, <2>1, RootMerged
  <2>3. Visited' = V
    <3>1. Path' = Path /\ Paths(todo)' = Path \ {Root}
      BY <1>1, <1>4 DEF Path
    <3> QED BY <1>3, <2>1, <3>1 DEF Visited
  <2>4. MergedFrom(schema, Visited)'
    BY <1>1, <2>1, <2>2, <2>3, MergedNow
  <2> QED BY <1>1, <2>4 DEF MergeInv
<1>8. ReasonInv'
  BY <1>1, <1>3, NoReasonYet
<1> QED BY <1>5, <1>6, <1>7, <1>8 DEF LinkInv

\* Merging a file keeps the invariant.
LEMMA MergeKeeps ==
  ASSUME LinkInv, MergeFile
  PROVE  LinkInv'
<1>0. PICK h : h = Head(todo)
  OBVIOUS
<1>1. phase = "merging" /\ todo # <<>>
  BY DEF MergeFile
<1>2. /\ todo \in Seq(Path) /\ Distinct(todo) /\ reason = None /\ Kept
      /\ (\A p \in Path : Linked(p)) /\ MergedFrom(schema, Visited)
  BY <1>1 DEF LinkInv, VisitInv, FilesInv, MergeInv, ReasonInv
<1>3. /\ h \in Path /\ h \in Paths(todo) /\ Tail(todo) \in Seq(Path) /\ Distinct(Tail(todo))
      /\ Paths(Tail(todo)) = Paths(todo) \ {h}
  BY <1>0, <1>1, <1>2, NextPath
<1>4. Visited \in SUBSET Path /\ h \notin Visited
  BY <1>3 DEF Visited
<1>5. CASE Duplicate(schema, files[h])
  <2>1. Fail("duplicate")
    BY <1>0, <1>5 DEF MergeFile
  <2>2. SharedName \/ SharedExtension \/ SharedNumber
    <3>1. PICK V : V = Visited
      OBVIOUS
    <3> QED BY <1>2, <1>3, <1>4, <1>5, <3>1, MergeRefuses
  <2> QED BY <2>1, <2>2, FailKeeps
<1>6. CASE ~Duplicate(schema, files[h])
  <2>1. /\ schema' = Merged(schema, files[h]) /\ todo' = Tail(todo) /\ registry' = registry
        /\ order' = order /\ files' = files /\ phase' = phase /\ reason' = reason
    BY <1>0, <1>6 DEF MergeFile
  <2>2. VisitInv'
    BY <1>1, <1>3, <2>1, VisitStays DEF LinkInv
  <2>3. FilesInv'
    BY <1>1, <1>2, <2>1, FilesStay
  <2>4. MergeInv'
    <3>1. PICK V, into, W : V = Visited /\ into = Merged(schema, files[h]) /\ W = V \cup {h}
      OBVIOUS
    <3>2. MergedFrom(into, W)
      BY <1>2, <1>3, <1>4, <1>6, <3>1, MergeOne
    <3>3. Visited' = W
      <4>1. Path' = Path /\ Paths(todo)' = Paths(todo) \ {h}
        BY <1>3, <2>1 DEF Path
      <4> QED BY <1>3, <3>1, <4>1 DEF Visited
    <3>4. MergedFrom(schema, Visited)'
      BY <2>1, <3>1, <3>2, <3>3, MergedNow
    <3> QED BY <1>1, <2>1, <3>4 DEF MergeInv
  <2>5. ReasonInv'
    BY <1>2, <2>1, NoReasonYet
  <2> QED BY <2>2, <2>3, <2>4, <2>5 DEF LinkInv
<1> QED BY <1>5, <1>6

\* Accepting the schema keeps the invariant.
LEMMA FinishKeeps ==
  ASSUME LinkInv, Finish
  PROVE  LinkInv'
<1>1. phase = "merging" /\ todo = <<>>
  BY DEF Finish
<1>2. /\ todo \in Seq(Path) /\ Distinct(todo) /\ reason = None /\ Kept
      /\ (\A p \in Path : Linked(p)) /\ MergedFrom(schema, Visited)
  BY <1>1 DEF LinkInv, VisitInv, FilesInv, MergeInv, ReasonInv
<1>3. Visited = Path
  BY <1>1 DEF Visited, Paths
<1>4. CASE Conflicting(schema)
  <2>1. Fail("conflict")
    BY <1>4 DEF Finish
  <2>2. SharedName
    BY <1>2, <1>3, <1>4, ConflictIsShared
  <2> QED BY <2>1, <2>2, FailKeeps
<1>5. CASE ~Conflicting(schema)
  <2>1. /\ phase' = "accepted" /\ registry' = registry /\ order' = order /\ files' = files
        /\ todo' = todo /\ schema' = schema /\ reason' = reason
    BY <1>5 DEF Finish
  <2>2. VisitInv'
    BY <1>1, <1>2, <2>1, VisitStays DEF LinkInv
  <2>3. FilesInv'
    BY <1>1, <1>2, <2>1, FilesStay
  <2>4. MergeInv'
    <3>1. PICK V, into : V = Path /\ into = schema
      OBVIOUS
    <3>2. Visited' = V
      BY <1>3, <2>1, <3>1 DEF Visited, Path
    <3>3. MergedFrom(schema, Visited)'
      BY <1>2, <1>3, <2>1, <3>1, <3>2, MergedNow
    <3>4. todo' = <<>> /\ ~Conflicting(schema')
      BY <1>1, <1>5, <2>1
    <3> QED BY <2>1, <3>3, <3>4 DEF MergeInv
  <2>5. ReasonInv'
    BY <1>2, <2>1, NoReasonYet
  <2> QED BY <2>2, <2>3, <2>4, <2>5 DEF LinkInv
<1> QED BY <1>4, <1>5

\* Nothing happens.
LEMMA StutterKeeps ==
  ASSUME LinkInv, UNCHANGED vars
  PROVE  LinkInv'
<1>1. /\ registry' = registry /\ order' = order /\ files' = files /\ todo' = todo
      /\ schema' = schema /\ phase' = phase /\ reason' = reason
  BY DEF vars
<1>2. VisitInv'
  <2>1. todo \in Seq(Path) /\ Distinct(todo)
        /\ phase \in {"resolving", "checking", "merging", "accepted", "error"}
    BY DEF LinkInv, VisitInv
  <2> QED BY <1>1, <2>1, VisitStays DEF LinkInv
<1>3. Path' = Path /\ Visited' = Visited
  BY <1>1 DEF Path, Visited
<1>4. FilesInv'
  <2>1. Kept' /\ \A p \in Path : Linked(p) => Linked(p)'
    BY <1>1, KeptStays DEF LinkInv, FilesInv
  <2>2. Visited \subseteq Path
    BY DEF Visited
  <2>3. /\ DOMAIN files = Path
        /\ phase = "resolving" => \A p \in Paths(todo) : files[p] = registry.files[p]
        /\ phase = "resolving" => \A p \in Visited : Linked(p)
        /\ phase \in {"checking", "merging", "accepted"} => \A p \in Path : Linked(p)
    BY DEF LinkInv, FilesInv
  <2> QED BY <1>1, <1>3, <2>1, <2>2, <2>3 DEF FilesInv
<1>5. MergeInv'
  <2>1. ASSUME phase \in {"merging", "accepted"} PROVE MergedFrom(schema, Visited)'
    <3>1. PICK V, into : V = Visited /\ into = schema
      OBVIOUS
    <3>2. MergedFrom(into, V)
      BY <2>1, <3>1 DEF LinkInv, MergeInv
    <3> QED BY <1>1, <1>3, <3>1, <3>2, MergedNow
  <2>2. phase = "accepted" => todo = <<>> /\ ~Conflicting(schema)
    BY DEF LinkInv, MergeInv
  <2> QED BY <1>1, <2>1, <2>2 DEF MergeInv
<1>6. ReasonInv'
  <2>1. ReasonInv
    BY DEF LinkInv
  <2> QED BY <1>1, <2>1, SharedStays DEF ReasonInv
<1> QED BY <1>2, <1>4, <1>5, <1>6 DEF LinkInv

\* Every step of linking keeps the invariant.
LEMMA LinkStep == LinkInv /\ [Next]_vars => LinkInv'
<1> SUFFICES ASSUME LinkInv, [Next]_vars PROVE LinkInv'
  OBVIOUS
<1>1. CASE Terminated
  BY <1>1, StutterKeeps DEF Terminated
<1> QED BY <1>1, ResolveKeeps, BeginCheckingKeeps, CheckKeeps, BeginMergingKeeps, MergeKeeps,
           FinishKeeps, StutterKeeps DEF Next

\* Every file that linking has passed is resolved as it should be and keeps what
\* was parsed, and the schema under construction is that of the files merged.
THEOREM LinkInvariant == Spec => []LinkInv
BY InitStarts, StartingLinks, LinkStep, PTL DEF Spec

-----------------------------------------------------------------------------
(* What an accepted schema is.                                             *)

\* The accepted schema is that of all files, each of them linked.
AllMerged ==
  /\ Loaded(registry) /\ Kept /\ (\A p \in Path : Linked(p))
  /\ MergedFrom(schema, Path) /\ ~Conflicting(schema)

\* When the schema is accepted every file is linked and merged.
LEMMA AcceptedIsMerged ==
  ASSUME LinkInv, Accepted
  PROVE  AllMerged
<1>1. phase = "accepted"
  BY DEF Accepted
<1>2. todo = <<>>
  BY <1>1 DEF LinkInv, MergeInv
<1>3. Visited = Path
  BY <1>2 DEF Visited, Paths
<1> QED BY <1>1, <1>3 DEF AllMerged, LinkInv, VisitInv, FilesInv, MergeInv

\* The schema has every declaration of every file, as resolved.
LEMMA Has ==
  ASSUME AllMerged, NEW p \in Path, NEW sort \in Sorts, NEW n \in DOMAIN registry.files[p][sort]
  PROVE  n \in DOMAIN schema[sort] /\ schema[sort][n] = files[p][sort][n]
BY DEF AllMerged, MergedFrom

\* It has no other.
LEMMA ComesFrom ==
  ASSUME AllMerged, NEW sort \in Sorts, NEW n \in DOMAIN schema[sort]
  PROVE  \E p \in Path : n \in DOMAIN registry.files[p][sort] /\ schema[sort][n] = files[p][sort][n]
BY DEF AllMerged, MergedFrom

\* The invariant is enough for MergeComplete.
LEMMA MergedCompletely == LinkInv => MergeComplete
BY AcceptedIsMerged DEF MergeComplete, AllMerged, MergedFrom

\* Merging loses nothing and changes nothing: the accepted schema has exactly the
\* declarations of all files, as they were resolved, whatever the number of files
\* and the order of their paths.
THEOREM MergingIsComplete == Spec => []MergeComplete
BY MergedCompletely, LinkInvariant, PTL

\* In an accepted schema two extensions of a message never share a number.
LEMMA ExtensionNumbersApart ==
  ASSUME AllMerged, NEW x \in ExtensionNumbers, NEW y \in ExtensionNumbers,
         x.of = y.of, x.number = y.number
  PROVE  x = y
<1>7. PICK p \in Path : \E m \in DOMAIN files[p].extensions :
        x = [name |-> m, in |-> p, of |-> files[p].extensions[m].extendee.name,
             number |-> files[p].extensions[m].field.number]
  BY DEF ExtensionNumbers
<1>1. PICK m \in DOMAIN files[p].extensions :
        x = [name |-> m, in |-> p, of |-> files[p].extensions[m].extendee.name,
             number |-> files[p].extensions[m].field.number]
  BY <1>7
<1>8. PICK q \in Path : \E n \in DOMAIN files[q].extensions :
        y = [name |-> n, in |-> q, of |-> files[q].extensions[n].extendee.name,
             number |-> files[q].extensions[n].field.number]
  BY DEF ExtensionNumbers
<1>2. PICK n \in DOMAIN files[q].extensions :
        y = [name |-> n, in |-> q, of |-> files[q].extensions[n].extendee.name,
             number |-> files[q].extensions[n].field.number]
  BY <1>8
<1>3. /\ files[p].extensions[m].extendee.name = files[q].extensions[n].extendee.name
      /\ files[p].extensions[m].field.number = files[q].extensions[n].field.number
  BY <1>1, <1>2
<1>4. \A r \in Path : LinkedAs(r, files[r])
                      /\ DOMAIN files[r].extensions = DOMAIN registry.files[r].extensions
  BY DEF AllMerged, Linked, Kept, Keeps, KeepsNames, Sorts
<1>5. CASE p = q
  <2>1. m = n
    BY <1>3, <1>4, <1>5 DEF LinkedAs, NumbersApart
  <2> QED BY <1>1, <1>2, <1>5, <2>1
<1>6. CASE p # q
  <2>1. /\ files[p].extensions[m].extendee = MessageKind(files[p].extensions[m].extendee.name)
        /\ files[q].extensions[n].extendee = MessageKind(files[q].extensions[n].extendee.name)
    BY <1>4 DEF LinkedAs, ExtensionsBound
  <2>2. files[p].extensions[m].extendee = files[q].extensions[n].extendee
    BY <1>3, <2>1
  <2>3. NumberTaken(files[p], files[q])
    BY <1>3, <2>2 DEF NumberTaken
  <2> QED BY <1>6, <2>3 DEF AllMerged, MergedFrom
<1> QED BY <1>5, <1>6

\* In an accepted schema two custom options of a target never share a number.
LEMMA OptionNumbersApart ==
  ASSUME AllMerged, NEW x \in OptionNumbers, NEW y \in OptionNumbers,
         x.of = y.of, x.number = y.number
  PROVE  x = y
<1>7. PICK p \in Path : \E m \in DOMAIN files[p].custom_options :
        x = [name |-> m, in |-> p, of |-> files[p].custom_options[m].extendee,
             number |-> files[p].custom_options[m].number]
  BY DEF OptionNumbers
<1>1. PICK m \in DOMAIN files[p].custom_options :
        x = [name |-> m, in |-> p, of |-> files[p].custom_options[m].extendee,
             number |-> files[p].custom_options[m].number]
  BY <1>7
<1>8. PICK q \in Path : \E n \in DOMAIN files[q].custom_options :
        y = [name |-> n, in |-> q, of |-> files[q].custom_options[n].extendee,
             number |-> files[q].custom_options[n].number]
  BY DEF OptionNumbers
<1>2. PICK n \in DOMAIN files[q].custom_options :
        y = [name |-> n, in |-> q, of |-> files[q].custom_options[n].extendee,
             number |-> files[q].custom_options[n].number]
  BY <1>8
<1>3. /\ files[p].custom_options[m].extendee = files[q].custom_options[n].extendee
      /\ files[p].custom_options[m].number = files[q].custom_options[n].number
  BY <1>1, <1>2
<1>4. CASE p = q
  <2>1. ParsedFile(registry.files[p]) /\ Keeps(files[p], registry.files[p])
    BY DEF AllMerged, Loaded, Kept, Path
  <2>2. DOMAIN files[p].custom_options = DOMAIN registry.files[p].custom_options
    BY <2>1 DEF Keeps, KeepsNames, Sorts
  <2>3. \A k \in DOMAIN files[p].custom_options :
          /\ files[p].custom_options[k].extendee = registry.files[p].custom_options[k].extendee
          /\ files[p].custom_options[k].number = registry.files[p].custom_options[k].number
    BY <2>1, <2>2 DEF Keeps, KeepsOption
  <2>4. m = n
    BY <1>3, <1>4, <2>1, <2>2, <2>3 DEF ParsedFile
  <2> QED BY <1>1, <1>2, <1>4, <2>4
<1>5. CASE p # q
  <2>1. NumberTaken(files[p], files[q])
    BY <1>3 DEF NumberTaken
  <2> QED BY <1>5, <2>1 DEF AllMerged, MergedFrom
<1> QED BY <1>4, <1>5

\* A schema that is accepted has no name twice.
LEMMA NamesAreUnique ==
  ASSUME LinkInv
  PROVE  NamesUnique
<1>1. (reason = "conflict" => SharedName)
      /\ (reason = "duplicate" => SharedName \/ SharedExtension \/ SharedNumber)
  BY DEF LinkInv, ReasonInv
<1>2. ASSUME Accepted PROVE ~SharedName /\ ~SharedExtension
  <2>1. AllMerged
    BY <1>2, AcceptedIsMerged
  <2>2. ~SharedName
    BY <2>1, ConflictIsShared DEF AllMerged
  <2>3. ~SharedExtension
    BY <2>1 DEF SharedExtension, AllMerged, MergedFrom, Sorts
  <2> QED BY <2>2, <2>3
<1> QED BY <1>1, <1>2 DEF NamesUnique

\* A schema that is accepted has no number twice.
LEMMA NumbersAreUnique ==
  ASSUME LinkInv
  PROVE  NumbersUnique
<1> SUFFICES ASSUME Accepted PROVE NumbersUnique
  BY DEF NumbersUnique
<1>1. AllMerged
  BY AcceptedIsMerged
<1>2. ~SharedNumber
  BY <1>1, ExtensionNumbersApart, OptionNumbersApart DEF SharedNumber
<1>3. ASSUME NEW n \in DOMAIN schema.extensions
      PROVE  LET target == schema.extensions[n].extendee.name
                 number == schema.extensions[n].field.number
             IN  /\ target \in DOMAIN schema.messages
                 /\ number \in schema.messages[target].extension_ranges
                 /\ \A f \in DOMAIN schema.messages[target].fields :
                      schema.messages[target].fields[f].number # number
  <2> DEFINE target == schema.extensions[n].extendee.name
             number == schema.extensions[n].field.number
  <2>1. PICK p \in Path : /\ n \in DOMAIN registry.files[p].extensions
                          /\ schema.extensions[n] = files[p].extensions[n]
    BY <1>1, ComesFrom DEF Sorts
  <2>2. ExtensionsBound(p, files[p])
    BY <1>1 DEF AllMerged, Linked, LinkedAs
  <2>3. PICK q \in registry.sees[p] :
          /\ target \in DOMAIN registry.files[q].messages
          /\ TakesNumber(registry.files[q].messages[target], number)
    BY <2>1, <2>2 DEF ExtensionsBound
  <2> HIDE DEF target, number
  <2>4. q \in Path
    BY <1>1 DEF AllMerged, Loaded, Path
  <2>5. target \in DOMAIN schema.messages /\ schema.messages[target] = files[q].messages[target]
    BY <1>1, <2>3, <2>4, Has DEF Sorts
  <2>6. KeepsMessage(files[q].messages[target], registry.files[q].messages[target])
    BY <1>1, <2>3, <2>4 DEF AllMerged, Kept, Keeps
  <2>7. TakesNumber(schema.messages[target], number)
    BY <2>3, <2>5, <2>6 DEF TakesNumber, KeepsMessage, KeepsField
  <2> QED BY <2>5, <2>7 DEF TakesNumber, target, number
<1> QED BY <1>2, <1>3 DEF NumbersUnique

\* The invariant is enough for NothingAmbiguous.
LEMMA NeverAmbiguous == LinkInv => NothingAmbiguous
BY NamesAreUnique, NumbersAreUnique DEF NothingAmbiguous

\* validate_symbol_namespaces and the merge, together: in however many files, no
\* accepted registry has two declarations of one name or two extensions of one
\* number, and none is refused as ambiguous without being so.
THEOREM NothingIsAmbiguous == Spec => []NothingAmbiguous
BY NeverAmbiguous, LinkInvariant, PTL

\* The invariant is enough for FeaturesNearest.
LEMMA NearestFeatures == LinkInv => FeaturesNearest
<1>1. ASSUME LinkInv, Accepted, NEW p \in Path, NEW x \in Feature
      PROVE  LET file == registry.files[p]
             IN  /\ \A n \in DOMAIN file.messages : \A f \in DOMAIN file.messages[n].fields :
                      schema.messages[n].fields[f].features[x] =
                        NearestSetting(file, file.messages[n].fields[f].options, n, x)
                 /\ \A n \in DOMAIN file.enums :
                      schema.enums[n].features[x] =
                        NearestSetting(file, file.enums[n].options, Parent(n), x)
                 /\ \A n \in DOMAIN file.extensions :
                      schema.extensions[n].field.features[x] =
                        NearestSetting(file, file.extensions[n].field.options,
                                       Declarer(file, n), x)
  <2>1. AllMerged
    BY <1>1, AcceptedIsMerged
  <2>2. FeaturesSet(files[p], registry.files[p])
    BY <2>1 DEF AllMerged, Linked, LinkedAs
  <2>3. /\ \A n \in DOMAIN registry.files[p].messages : schema.messages[n] = files[p].messages[n]
        /\ \A n \in DOMAIN registry.files[p].enums : schema.enums[n] = files[p].enums[n]
        /\ \A n \in DOMAIN registry.files[p].extensions :
             schema.extensions[n] = files[p].extensions[n]
    BY <2>1, Has DEF Sorts
  <2> QED BY <2>2, <2>3 DEF FeaturesSet
<1> QED BY <1>1 DEF FeaturesNearest

\* resolve_features: in an accepted schema every field, enum and extension has
\* the nearest setting of each feature, however deeply messages are nested.
THEOREM FeaturesAreNearest == Spec => []FeaturesNearest
BY NearestFeatures, LinkInvariant, PTL

\* The property's reading of a reference, over the names that a file sees.
LEMMA MeansInnermost ==
  ASSUME NEW p, NEW kind, NEW scope, NEW n, NEW sort
  PROVE  Means(kind, scope, n, sort, registry.sees[p]) <=> InnermostIn(kind, scope, n, Seen(p, sort))
BY DEF Means, InnermostIn, Seen

\* A bound reference resolves as the property says.
LEMMA BoundResolves ==
  ASSUME NEW p, NEW kind, NEW scope, NEW final, Bound(kind, scope, final, p)
  PROVE  Resolves(kind, scope, final, registry.sees[p])
<1>1. IsBound(kind, scope, final, Seen(p, "messages"), Seen(p, "enums"))
  BY DEF Bound
<1>2. \A n : /\ Means(kind, scope, n, "messages", registry.sees[p])
                  <=> InnermostIn(kind, scope, n, Seen(p, "messages"))
             /\ Means(kind, scope, n, "enums", registry.sees[p])
                  <=> InnermostIn(kind, scope, n, Seen(p, "enums"))
  BY MeansInnermost
<1>3. CASE kind.of # "message"
  BY <1>1, <1>3 DEF Resolves, IsBound
<1>4. CASE kind.of = "message" /\ final.of = "message"
  <2>1. InnermostIn(kind, scope, final.name, Seen(p, "messages"))
    BY <1>1, <1>4 DEF IsBound
  <2> QED BY <1>2, <1>4, <2>1 DEF Resolves
<1>5. CASE kind.of = "message" /\ final.of # "message"
  <2>1. /\ final.of = "enum" /\ InnermostIn(kind, scope, final.name, Seen(p, "enums"))
        /\ \A n : ~InnermostIn(kind, scope, n, Seen(p, "messages"))
    BY <1>1, <1>5 DEF IsBound
  <2> QED BY <1>2, <1>5, <2>1 DEF Resolves
<1> QED BY <1>3, <1>4, <1>5

\* The invariant is enough for TypesBound.
LEMMA BoundTypes == LinkInv => TypesBound
<1>1. ASSUME LinkInv, Accepted, NEW p \in Path
      PROVE  /\ \A n \in DOMAIN registry.files[p].messages :
                  \A f \in DOMAIN registry.files[p].messages[n].fields :
                    Resolves(registry.files[p].messages[n].fields[f].kind, n,
                             schema.messages[n].fields[f].kind, registry.sees[p])
             /\ \A n \in DOMAIN registry.files[p].services :
                  \A kind \in registry.files[p].services[n] : \E final \in schema.services[n] :
                    final.of = "message" /\ Resolves(kind, n, final, registry.sees[p])
  <2>1. AllMerged
    BY <1>1, AcceptedIsMerged
  <2>2. FieldsBound(p, files[p]) /\ EndpointsBound(p, files[p])
    BY <2>1 DEF AllMerged, Linked, LinkedAs
  <2>3. /\ \A n \in DOMAIN registry.files[p].messages : schema.messages[n] = files[p].messages[n]
        /\ \A n \in DOMAIN registry.files[p].services : schema.services[n] = files[p].services[n]
    BY <2>1, Has DEF Sorts
  <2>4. ASSUME NEW n \in DOMAIN registry.files[p].messages,
               NEW f \in DOMAIN registry.files[p].messages[n].fields
        PROVE  Resolves(registry.files[p].messages[n].fields[f].kind, n,
                        schema.messages[n].fields[f].kind, registry.sees[p])
    BY <2>2, <2>3, BoundResolves DEF FieldsBound
  <2>5. ASSUME NEW n \in DOMAIN registry.files[p].services,
               NEW kind \in registry.files[p].services[n]
        PROVE  \E final \in schema.services[n] :
                 final.of = "message" /\ Resolves(kind, n, final, registry.sees[p])
    BY <2>2, <2>3, BoundResolves DEF EndpointsBound
  <2> QED BY <2>4, <2>5
<1> QED BY <1>1 DEF TypesBound

\* resolve: in an accepted schema every type is a declaration that its file sees,
\* the innermost message of the name or, without one, the innermost enum.
THEOREM TypesAreBound == Spec => []TypesBound
BY BoundTypes, LinkInvariant, PTL

\* In an accepted schema a field of a proto3 or editions file has no proto2 enum.
LEMMA EnumsDoFit ==
  ASSUME AllMerged
  PROVE  EnumsFit
<1> SUFFICES ASSUME NEW p \in Path, Modern(registry.files[p].syntax),
                    NEW n \in DOMAIN registry.files[p].messages,
                    NEW f \in DOMAIN schema.messages[n].fields,
                    schema.messages[n].fields[f].kind.of = "enum"
             PROVE  Modern(schema.enums[schema.messages[n].fields[f].kind.name].syntax)
  BY DEF EnumsFit
<1> DEFINE kind == schema.messages[n].fields[f].kind
<1>1. schema.messages[n] = files[p].messages[n]
  BY Has DEF Sorts
<1>2. Keeps(files[p], registry.files[p]) /\ EnumsModern(p, files[p])
  BY DEF AllMerged, Kept, Linked, LinkedAs
<1>3. f \in DOMAIN registry.files[p].messages[n].fields
  BY <1>1, <1>2 DEF Keeps, KeepsMessage
<1>4. PICK q \in registry.sees[p] : /\ kind.name \in DOMAIN registry.files[q].enums
                                    /\ Modern(registry.files[q].enums[kind.name].syntax)
  BY <1>1, <1>2, <1>3 DEF EnumsModern
<1> HIDE DEF kind
<1>5. q \in Path
  BY DEF AllMerged, Loaded, Path
<1>6. schema.enums[kind.name] = files[q].enums[kind.name]
  BY <1>4, <1>5, Has DEF Sorts
<1>7. files[q].enums[kind.name].syntax = registry.files[q].enums[kind.name].syntax
  BY <1>4, <1>5 DEF AllMerged, Kept, Keeps, KeepsEnum
<1> QED BY <1>4, <1>6, <1>7 DEF kind

\* The invariant is enough for CodecReady.
LEMMA ReadyForCodec == LinkInv => CodecReady
<1>1. ASSUME LinkInv, Accepted, NEW n \in DOMAIN schema.messages,
             NEW f \in DOMAIN schema.messages[n].fields
      PROVE  FitForCodec(schema.messages[n].fields[f])
  <2>1. AllMerged
    BY <1>1, AcceptedIsMerged
  <2>2. PICK p \in Path : /\ n \in DOMAIN registry.files[p].messages
                          /\ schema.messages[n] = files[p].messages[n]
    BY <2>1, ComesFrom DEF Sorts
  <2>3. Keeps(files[p], registry.files[p]) /\ FieldsFit(p, files[p])
    BY <2>1 DEF AllMerged, Kept, Linked, LinkedAs
  <2>4. f \in DOMAIN registry.files[p].messages[n].fields
    BY <2>2, <2>3 DEF Keeps, KeepsMessage
  <2> QED BY <2>2, <2>3, <2>4 DEF FieldsFit
<1> QED BY <1>1, AcceptedIsMerged, EnumsDoFit DEF CodecReady

\* Every field that linking accepts, in every file, is one that the codec handles.
THEOREM CodecIsReady == Spec => []CodecReady
BY ReadyForCodec, LinkInvariant, PTL
-----------------------------------------------------------------------------
(* The settings of options.                                                *)

\* A field of a message that p sees, as resolved.
FieldLeads(p, k, f, to) ==
  /\ IsMessage(k)
  /\ \E q \in registry.sees[p] :
       /\ k.name \in DOMAIN registry.files[q].messages
       /\ f \in DOMAIN files[q].messages[k.name].fields
       /\ to = files[q].messages[k.name].fields[f].kind

\* The types along a path of fields.
Walks(p, path, w) ==
  \A i \in 1 .. Len(path) : FieldLeads(p, w[i - 1], path[i], w[i])

\* The type of an option's value is found by walking along its path, field by field.
LEMMA ValueTypeWalks ==
  ASSUME Loaded(registry), Kept, NEW p \in Path, NEW kind, NEW path \in Seq(STRING),
         ValueType(p, kind, path) # None
  PROVE  \E w : w[0] = kind /\ w[Len(path)] = ValueType(p, kind, path) /\ Walks(p, path, w)
<1> DEFINE L == Len(path)
           Fields(k) == Lookup(p, "messages", k.name).fields
           S(k, i) == IF k = None THEN None
                      ELSE IF ~IsMessage(k) \/ k.name \notin Visible(p, "messages") THEN None
                      ELSE IF path[i] \in DOMAIN Fields(k) THEN Fields(k)[path[i]].kind ELSE None
           Solves(w, m) == w = [i \in 0 .. m |-> IF i = 0 THEN kind ELSE S(w[i - 1], i)]
           walk == CHOOSE w : Solves(w, L)
<1>1. ValueType(p, kind, path) = walk[L]
  BY DEF ValueType
<1>2. L \in Nat
  OBVIOUS
<1>3. ASSUME NEW k, NEW i \in 1 .. L, S(k, i) # None
      PROVE  k # None /\ FieldLeads(p, k, path[i], S(k, i))
  <2>1. /\ k # None /\ IsMessage(k) /\ k.name \in Visible(p, "messages")
        /\ path[i] \in DOMAIN Fields(k) /\ S(k, i) = Fields(k)[path[i]].kind
    BY <1>3
  <2>2. k.name \in Seen(p, "messages")
    BY <2>1, VisibleIsSeen DEF Sorts
  <2>3. PICK q \in registry.sees[p] :
          /\ q \in Path /\ k.name \in DOMAIN registry.files[q].messages
          /\ Lookup(p, "messages", k.name) = files[q].messages[k.name]
    BY <2>2, VisibleIsSeen DEF Sorts
  <2> HIDE DEF S
  <2> QED BY <2>1, <2>3 DEF FieldLeads
<1>4. \A i : S(None, i) = None
  OBVIOUS
<1> HIDE DEF S, L
<1>5. \E w : Solves(w, L)
  <2> DEFINE T == {m \in Nat : ~\E w : Solves(w, m)}
  <2>1. SUFFICES T = {}
    BY <1>2
  <2>2. SUFFICES ASSUME T # {} PROVE FALSE
    OBVIOUS
  <2>3. PICK m \in T : \A n \in T : m <= n
    <3>1. T \subseteq Nat
      OBVIOUS
    <3> HIDE DEF T
    <3> QED BY <2>2, <3>1, Least
  <2>4. m # 0
    <3>1. Solves([i \in 0 .. 0 |-> kind], 0)
      OBVIOUS
    <3> QED BY <2>3, <3>1
  <2>5. m - 1 \in Nat /\ m - 1 \notin T
    <3>1. m \in Nat /\ m - 1 \in Nat /\ ~(m <= m - 1)
      BY <2>3, <2>4
    <3> HIDE DEF T
    <3> QED BY <2>3, <3>1
  <2>6. PICK v : Solves(v, m - 1)
    BY <2>5
  <2>7. \A i \in 0 .. m - 1 : v[i] = IF i = 0 THEN kind ELSE S(v[i - 1], i)
    BY <2>6
  <2> DEFINE w == [i \in 0 .. m |-> IF i < m THEN v[i] ELSE S(v[m - 1], m)]
  <2>8. ASSUME NEW i \in 0 .. m PROVE w[i] = IF i = 0 THEN kind ELSE S(w[i - 1], i)
    <3>1. m \in Nat /\ m # 0
      BY <2>3, <2>4
    <3>2. CASE i = 0
      BY <2>7, <3>1, <3>2
    <3>3. CASE i # 0 /\ i < m
      <4>1. i - 1 \in 0 .. m /\ i - 1 < m /\ i \in 0 .. m - 1
        BY <3>1, <3>3
      <4>2. w[i] = v[i] /\ w[i - 1] = v[i - 1]
        BY <3>3, <4>1
      <4>3. v[i] = S(v[i - 1], i)
        BY <2>7, <3>3, <4>1
      <4> QED BY <3>3, <4>2, <4>3
    <3>4. CASE i = m
      <4>1. m - 1 \in 0 .. m /\ m - 1 < m /\ ~(m < m)
        BY <3>1
      <4>2. w[m] = S(v[m - 1], m) /\ w[m - 1] = v[m - 1]
        BY <3>1, <4>1
      <4> QED BY <3>1, <3>4, <4>2
    <3> QED BY <3>1, <3>2, <3>3, <3>4
  <2>9. DOMAIN w = 0 .. m /\ w = [i \in 0 .. m |-> w[i]]
    OBVIOUS
  <2> HIDE DEF w
  <2>10. Solves(w, m)
    BY <2>8, <2>9
  <2> QED BY <2>3, <2>10
<1>6. Solves(walk, L)
  BY <1>5
<1> HIDE DEF walk
<1>7. walk[0] = kind /\ \A i \in 1 .. L : walk[i] = S(walk[i - 1], i)
  <2>1. \A i \in 0 .. L : walk[i] = IF i = 0 THEN kind ELSE S(walk[i - 1], i)
    BY <1>6
  <2> QED BY <1>2, <2>1
<1>8. \A i \in 0 .. L : walk[i] # None
  <2> DEFINE T == {i \in 0 .. L : walk[i] = None}
  <2>1. SUFFICES ASSUME T # {} PROVE FALSE
    OBVIOUS
  <2>2. T \in SUBSET (0 .. L)
    OBVIOUS
  <2>3. PICK m \in T : \A i \in T : i <= m
    <3> HIDE DEF T
    <3> QED BY <1>2, <2>1, <2>2, Longest
  <2>4. m \in 0 .. L /\ walk[m] = None /\ m # L
    BY <1>1, <2>3
  <2>5. m + 1 \in 1 .. L /\ (m + 1) - 1 = m
    BY <1>2, <2>4
  <2>6. walk[m + 1] = S(walk[m], m + 1)
    BY <1>7, <2>5
  <2>7. walk[m + 1] = None
    BY <1>4, <2>4, <2>6
  <2>8. m + 1 \in T
    BY <2>5, <2>7
  <2> QED BY <1>2, <2>3, <2>4, <2>8
<1>9. Walks(p, path, walk)
  <2> SUFFICES ASSUME NEW i \in 1 .. L PROVE FieldLeads(p, walk[i - 1], path[i], walk[i])
    BY DEF Walks, L
  <2>1. i \in 0 .. L /\ walk[i] = S(walk[i - 1], i)
    BY <1>2, <1>7
  <2>2. S(walk[i - 1], i) # None
    BY <1>8, <2>1
  <2> QED BY <1>3, <2>1, <2>2
<1> QED BY <1>1, <1>7, <1>9 DEF L

\* A setting means an option that its file sees, made for such a target, whose
\* path leads to a type that takes the literal.
SettingBound(p, list, i) ==
  \E q \in registry.sees[p] : \E n \in DOMAIN registry.files[q].custom_options :
    /\ InnermostIn(list.uses[i].option, list.scope, n, Seen(p, "custom_options"))
    /\ files[q].custom_options[n].extendee = <<list.target>>
    /\ \E w : /\ w[0] = files[q].custom_options[n].kind /\ Walks(p, list.uses[i].path, w)
              /\ list.uses[i].value \in Literals(w[Len(list.uses[i].path)])

SettingsBound(p) ==
  \A list \in registry.files[p].settings : \A i \in DOMAIN list.uses : SettingBound(p, list, i)

\* Settings without defects are bound.
LEMMA ValidIsBound ==
  ASSUME Loaded(registry), Kept, NEW p \in Path, SettingsValid(p)
  PROVE  SettingsBound(p)
<1> SUFFICES ASSUME NEW list \in registry.files[p].settings, NEW i \in DOMAIN list.uses
             PROVE  SettingBound(p, list, i)
  BY DEF SettingsBound
<1>1. list \in files[p].settings
  BY DEF Kept, Keeps
<1>2. list.scope \in Seq(STRING) /\ list.uses[i].path \in Seq(STRING)
  BY DEF Loaded, Path, ParsedFile, ParsedSettings
<1>3. SettingValid(p, list, i)
  BY <1>1 DEF SettingsValid
<1> DEFINE setting == list.uses[i]
           found == Matches(setting.option, list.scope, Visible(p, "custom_options"))
           n == Candidates(setting.option, list.scope)[Min(found)]
<1>4. PICK option \in Options(p, setting, list.scope) :
        /\ option.extendee = <<list.target>>
        /\ ValueType(p, option.kind, setting.path) # None
        /\ setting.value \in Literals(ValueType(p, option.kind, setting.path))
  BY <1>3 DEF SettingValid
<1>5. found # {} /\ option = Lookup(p, "custom_options", n)
  BY <1>4 DEF Options
<1>6. Visible(p, "custom_options") = Seen(p, "custom_options")
  BY VisibleIsSeen DEF Sorts
<1>7. InnermostIn(setting.option, list.scope, n, Seen(p, "custom_options"))
  BY <1>2, <1>5, <1>6, FirstMatch
<1> HIDE DEF n, found, setting
<1>8. n \in Seen(p, "custom_options")
  BY <1>7 DEF InnermostIn
<1>9. PICK q \in registry.sees[p] :
        /\ n \in DOMAIN registry.files[q].custom_options
        /\ Lookup(p, "custom_options", n) = files[q].custom_options[n]
  BY <1>8, VisibleIsSeen DEF Sorts
<1>10. setting.path \in Seq(STRING)
  BY <1>2 DEF setting
<1>11. PICK w : /\ w[0] = option.kind /\ Walks(p, setting.path, w)
                /\ w[Len(setting.path)] = ValueType(p, option.kind, setting.path)
  BY <1>4, <1>10, ValueTypeWalks
<1> QED BY <1>4, <1>5, <1>7, <1>9, <1>11 DEF SettingBound, setting

SettingsInv ==
  /\ phase = "checking" => \A p \in Visited : SettingsBound(p)
  /\ phase \in {"merging", "accepted"} => \A p \in Path : SettingsBound(p)

\* A step that leaves the files alone keeps the settings bound.
LEMMA SettingsStay ==
  ASSUME registry' = registry, files' = files, NEW p, SettingsBound(p)
  PROVE  SettingsBound(p)'
<1>1. \A k, f, to : FieldLeads(p, k, f, to)' <=> FieldLeads(p, k, f, to)
  BY DEF FieldLeads
<1>2. \A path, w : Walks(p, path, w)' <=> Walks(p, path, w)
  BY <1>1 DEF Walks
<1>3. Seen(p, "custom_options")' = Seen(p, "custom_options")
  BY DEF Seen
<1>4. \A list, i : SettingBound(p, list, i)' <=> SettingBound(p, list, i)
  BY <1>2, <1>3 DEF SettingBound
<1> QED BY <1>4 DEF SettingsBound
\* A step keeps the settings that were checked bound.
LEMMA SettingsKeep ==
  ASSUME LinkInv, SettingsInv, [Next]_vars
  PROVE  SettingsInv'
<1>1. CASE phase' \notin {"checking", "merging", "accepted"}
  BY <1>1 DEF SettingsInv
<1>2. ASSUME registry' = registry, files' = files, phase = phase', todo' = todo
      PROVE  SettingsInv'
  <2>1. Path' = Path /\ Visited' = Visited /\ Visited \subseteq Path
    BY <1>2 DEF Path, Visited
  <2>2. \A p : SettingsBound(p) => SettingsBound(p)'
    BY <1>2, SettingsStay
  <2> QED BY <1>2, <2>1, <2>2 DEF SettingsInv
<1>3. CASE ResolveFile
  BY <1>1, <1>3 DEF ResolveFile, Fail
<1>4. CASE BeginChecking
  <2>1. phase' = "checking" /\ Visited' = {}
    <3>1. phase' = "checking" /\ todo' = order /\ registry' = registry
      BY <1>4 DEF BeginChecking
    <3>2. Paths(order) = Path
      BY DEF LinkInv, VisitInv
    <3> QED BY <3>1, <3>2 DEF Visited, Path
  <2> QED BY <2>1 DEF SettingsInv
<1>5. CASE CheckFile
  <2>1. CASE ~SettingsValid(Head(todo))
    BY <1>1, <1>5, <2>1 DEF CheckFile, Fail
  <2>2. CASE SettingsValid(Head(todo))
    <3>0. PICK h : h = Head(todo)
      OBVIOUS
    <3>1. /\ phase = "checking" /\ phase' = "checking" /\ todo # <<>> /\ todo' = Tail(todo)
          /\ registry' = registry /\ files' = files
      BY <1>5, <2>2 DEF CheckFile
    <3>2. /\ todo \in Seq(Path) /\ Distinct(todo) /\ Loaded(registry) /\ Kept
          /\ \A p \in Visited : SettingsBound(p)
      BY <3>1 DEF LinkInv, VisitInv, FilesInv, SettingsInv
    <3>3. h \in Path /\ Paths(Tail(todo)) = Paths(todo) \ {h}
      BY <3>0, <3>1, <3>2, NextPath
    <3>4. SettingsBound(h)
      BY <2>2, <3>0, <3>2, <3>3, ValidIsBound
    <3>5. Visited' \subseteq Visited \cup {h}
      BY <3>1, <3>3 DEF Visited, Path
    <3>6. \A p \in Visited' : SettingsBound(p)'
      BY <3>1, <3>2, <3>4, <3>5, SettingsStay
    <3> QED BY <3>1, <3>6 DEF SettingsInv
  <2> QED BY <2>1, <2>2
<1>6. CASE BeginMerging
  <2>1. /\ phase = "checking" /\ todo = <<>> /\ phase' = "merging"
        /\ registry' = registry /\ files' = files
    BY <1>6 DEF BeginMerging
  <2>2. Visited = Path /\ Path' = Path
    BY <2>1 DEF Visited, Paths, Path
  <2>3. \A p \in Path : SettingsBound(p)
    BY <2>1, <2>2 DEF SettingsInv
  <2> QED BY <2>1, <2>2, <2>3, SettingsStay DEF SettingsInv
<1>7. CASE MergeFile \/ Finish
  <2>1. CASE phase' = "error"
    BY <1>1, <2>1
  <2>2. CASE phase' # "error"
    <3>1. /\ phase = "merging" /\ phase' \in {"merging", "accepted"}
          /\ registry' = registry /\ files' = files
      BY <1>7, <2>2 DEF MergeFile, Finish, Fail
    <3>2. Path' = Path /\ \A p \in Path : SettingsBound(p)
      BY <3>1 DEF SettingsInv, Path
    <3> QED BY <3>1, <3>2, SettingsStay DEF SettingsInv
  <2> QED BY <2>1, <2>2
<1>8. CASE UNCHANGED vars
  BY <1>2, <1>8 DEF vars
<1> QED BY <1>3, <1>4, <1>5, <1>6, <1>7, <1>8 DEF Next, Terminated

\* Where linking begins, no settings were checked.
LEMMA StartingSettled == Starting => SettingsInv
BY DEF Starting, SettingsInv

\* Every file whose settings were checked has them bound.
LEMMA SettingsInvariant == Spec => [](LinkInv /\ SettingsInv)
<1>1. LinkInv /\ SettingsInv /\ [Next]_vars => SettingsInv'
  BY SettingsKeep
<1> QED BY <1>1, InitStarts, StartingSettled, LinkInvariant, PTL DEF Spec

\* A walk through the files leads through the merged schema.
LEMMA WalkLeads ==
  ASSUME AllMerged, NEW p \in Path, NEW path \in Seq(STRING), NEW w, Walks(p, path, w)
  PROVE  w[Len(path)] \in Led(w[0], path)
<1> DEFINE L == Len(path)
           step(k, f) == IF IsMessage(k) /\ f \in DOMAIN schema.messages[k.name].fields
                         THEN {schema.messages[k.name].fields[f].kind} ELSE {}
           S(K, i) == UNION {step(k, path[i]) : k \in K}
           Solves(v, m) == v = [i \in 0 .. m |-> IF i = 0 THEN {w[0]} ELSE S(v[i - 1], i)]
           led == CHOOSE v : Solves(v, L)
<1>1. Led(w[0], path) = led[L]
  BY DEF Led
<1>2. L \in Nat
  OBVIOUS
<1>3. ASSUME NEW i \in 1 .. L PROVE w[i] \in step(w[i - 1], path[i])
  <2> DEFINE k == w[i - 1]
  <2>1. PICK q \in registry.sees[p] :
          /\ IsMessage(k) /\ k.name \in DOMAIN registry.files[q].messages
          /\ path[i] \in DOMAIN files[q].messages[k.name].fields
          /\ w[i] = files[q].messages[k.name].fields[path[i]].kind
    BY DEF Walks, FieldLeads
  <2> HIDE DEF k
  <2>2. q \in Path
    BY DEF AllMerged, Loaded, Path
  <2>3. schema.messages[k.name] = files[q].messages[k.name]
    BY <2>1, <2>2, Has DEF Sorts
  <2> QED BY <2>1, <2>3 DEF k
<1>4. \A K, i, k : k \in K => \A x \in step(k, path[i]) : x \in S(K, i)
  <2> HIDE DEF step
  <2> QED OBVIOUS
<1> HIDE DEF S, step, L
<1>5. \E v : Solves(v, L)
  <2> DEFINE T == {m \in Nat : ~\E v : Solves(v, m)}
  <2>1. SUFFICES T = {}
    BY <1>2
  <2>2. SUFFICES ASSUME T # {} PROVE FALSE
    OBVIOUS
  <2>3. PICK m \in T : \A n \in T : m <= n
    <3>1. T \subseteq Nat
      OBVIOUS
    <3> HIDE DEF T
    <3> QED BY <2>2, <3>1, Least
  <2>4. m # 0
    <3>1. Solves([i \in 0 .. 0 |-> {w[0]}], 0)
      OBVIOUS
    <3> QED BY <2>3, <3>1
  <2>5. m - 1 \in Nat /\ m - 1 \notin T
    <3>1. m \in Nat /\ m - 1 \in Nat /\ ~(m <= m - 1)
      BY <2>3, <2>4
    <3> HIDE DEF T
    <3> QED BY <2>3, <3>1
  <2>6. PICK v : Solves(v, m - 1)
    BY <2>5
  <2>7. \A i \in 0 .. m - 1 : v[i] = IF i = 0 THEN {w[0]} ELSE S(v[i - 1], i)
    BY <2>6
  <2> DEFINE u == [i \in 0 .. m |-> IF i < m THEN v[i] ELSE S(v[m - 1], m)]
  <2>8. ASSUME NEW i \in 0 .. m PROVE u[i] = IF i = 0 THEN {w[0]} ELSE S(u[i - 1], i)
    <3>1. m \in Nat /\ m # 0
      BY <2>3, <2>4
    <3>2. CASE i = 0
      BY <2>7, <3>1, <3>2
    <3>3. CASE i # 0 /\ i < m
      <4>1. i - 1 \in 0 .. m /\ i - 1 < m /\ i \in 0 .. m - 1
        BY <3>1, <3>3
      <4>2. u[i] = v[i] /\ u[i - 1] = v[i - 1]
        BY <3>3, <4>1
      <4>3. v[i] = S(v[i - 1], i)
        BY <2>7, <3>3, <4>1
      <4> QED BY <3>3, <4>2, <4>3
    <3>4. CASE i = m
      <4>1. m - 1 \in 0 .. m /\ m - 1 < m /\ ~(m < m)
        BY <3>1
      <4>2. u[m] = S(v[m - 1], m) /\ u[m - 1] = v[m - 1]
        BY <3>1, <4>1
      <4> QED BY <3>1, <3>4, <4>2
    <3> QED BY <3>1, <3>2, <3>3, <3>4
  <2>9. DOMAIN u = 0 .. m /\ u = [i \in 0 .. m |-> u[i]]
    OBVIOUS
  <2> HIDE DEF u
  <2>10. Solves(u, m)
    BY <2>8, <2>9
  <2> QED BY <2>3, <2>10
<1>6. Solves(led, L)
  BY <1>5
<1> HIDE DEF led
<1>7. led[0] = {w[0]} /\ \A i \in 1 .. L : led[i] = S(led[i - 1], i)
  <2>1. \A i \in 0 .. L : led[i] = IF i = 0 THEN {w[0]} ELSE S(led[i - 1], i)
    BY <1>6
  <2> QED BY <1>2, <2>1
<1>8. \A i \in 0 .. L : w[i] \in led[i]
  <2> DEFINE T == {i \in 0 .. L : w[i] \notin led[i]}
  <2>1. SUFFICES ASSUME T # {} PROVE FALSE
    OBVIOUS
  <2>2. PICK m \in T : \A i \in T : m <= i
    <3>1. T \subseteq Nat
      BY <1>2
    <3> HIDE DEF T
    <3> QED BY <2>1, <3>1, Least
  <2>3. m \in 0 .. L /\ w[m] \notin led[m] /\ m # 0
    BY <1>7, <2>2
  <2>4. m \in 1 .. L /\ m - 1 \in 0 .. L /\ ~(m <= m - 1)
    BY <1>2, <2>3
  <2>5. w[m - 1] \in led[m - 1]
    BY <2>2, <2>4
  <2>6. w[m] \in S(led[m - 1], m)
    BY <1>3, <1>4, <2>4, <2>5
  <2> QED BY <1>7, <2>3, <2>4, <2>6
<1> QED BY <1>1, <1>2, <1>8 DEF L

\* The invariant is enough for SettingsFit.
LEMMA FittingSettings == LinkInv /\ SettingsInv => SettingsFit
<1>1. ASSUME LinkInv, SettingsInv, Accepted, NEW p \in Path,
             NEW list \in registry.files[p].settings, NEW i \in DOMAIN list.uses
      PROVE  \E n \in DOMAIN schema.custom_options :
               /\ Means(list.uses[i].option, list.scope, n, "custom_options", registry.sees[p])
               /\ schema.custom_options[n].extendee = <<list.target>>
               /\ \E kind \in Led(schema.custom_options[n].kind, list.uses[i].path) :
                    list.uses[i].value \in Literals(kind)
  <2>1. AllMerged
    BY <1>1, AcceptedIsMerged
  <2>2. SettingBound(p, list, i)
    BY <1>1 DEF SettingsInv, SettingsBound, Accepted
  <2>3. PICK q \in registry.sees[p] : \E n \in DOMAIN registry.files[q].custom_options :
          /\ InnermostIn(list.uses[i].option, list.scope, n, Seen(p, "custom_options"))
          /\ files[q].custom_options[n].extendee = <<list.target>>
          /\ \E w : /\ w[0] = files[q].custom_options[n].kind /\ Walks(p, list.uses[i].path, w)
                    /\ list.uses[i].value \in Literals(w[Len(list.uses[i].path)])
    BY <2>2 DEF SettingBound
  <2>4. PICK n \in DOMAIN registry.files[q].custom_options :
          /\ InnermostIn(list.uses[i].option, list.scope, n, Seen(p, "custom_options"))
          /\ files[q].custom_options[n].extendee = <<list.target>>
          /\ \E w : /\ w[0] = files[q].custom_options[n].kind /\ Walks(p, list.uses[i].path, w)
                    /\ list.uses[i].value \in Literals(w[Len(list.uses[i].path)])
    BY <2>3
  <2>5. PICK w : /\ w[0] = files[q].custom_options[n].kind /\ Walks(p, list.uses[i].path, w)
                 /\ list.uses[i].value \in Literals(w[Len(list.uses[i].path)])
    BY <2>4
  <2>6. q \in Path /\ list.uses[i].path \in Seq(STRING)
    BY <2>1 DEF AllMerged, Loaded, Path, ParsedFile, ParsedSettings
  <2>7. n \in DOMAIN schema.custom_options
        /\ schema.custom_options[n] = files[q].custom_options[n]
    BY <2>1, <2>6, Has DEF Sorts
  <2>8. w[Len(list.uses[i].path)] \in Led(w[0], list.uses[i].path)
    BY <2>1, <2>5, <2>6, WalkLeads
  <2>9. Means(list.uses[i].option, list.scope, n, "custom_options", registry.sees[p])
    BY <2>4, MeansInnermost
  <2> QED BY <2>4, <2>5, <2>7, <2>8, <2>9
<1> QED BY <1>1 DEF SettingsFit

\* validate_custom_options: an option set in an accepted file is the innermost
\* one of its name that the file sees, made for that sort of declaration, and its
\* path, however long, leads through the merged schema to a type that takes the
\* literal.
THEOREM SettingsDoFit == Spec => []SettingsFit
BY FittingSettings, SettingsInvariant, PTL
=============================================================================
